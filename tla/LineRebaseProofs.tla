-------------------------- MODULE LineRebaseProofs --------------------------
(***************************************************************************)
(* A batch of insertions, deletions, replacements and reads of one file    *)
(* does what its author wrote, however it is cut into steps and whichever  *)
(* steps fail: proofs for files, batches and contents of every length.     *)
(*                                                                         *)
(* From sums and orders of finite sets to the text that one edit leaves,   *)
(* the texts that the edits of a step leave one after the other, the       *)
(* shifts that a step reports, what the lines of the file are and which    *)
(* edit stands on which of them, one step, the steps to come, and last     *)
(* the invariant IInv.                                                     *)
(***************************************************************************)
EXTENDS LineRebase, FiniteSetTheorems, WellFoundedInduction, TLAPS

(***************************************************************************)
(* Induction.                                                              *)
(***************************************************************************)
\* Every set of numbers has a least one.
LEMMA LeastNumber ==
    ASSUME NEW T, T \subseteq Nat, T # {}
    PROVE  \E n \in T : \A k \in T : n <= k
<1> DEFINE R == OpToRel(<, Nat)
<1>1. \A k, n \in Nat : k < n => <<k, n>> \in R
  BY DEF OpToRel
<1>2. IsWellFoundedOn(R, Nat)
  BY NatLessThanWellFounded
<1> HIDE DEF R
<1>3. PICK n \in T : \A k \in T : ~(<<k, n>> \in R)
  BY <1>2, WFMin
<1>4. \A k \in T : n <= k
  <2>1. ASSUME NEW k \in T PROVE ~(k < n)
    BY <1>1, <1>3
  <2> QED BY <2>1
<1> QED BY <1>4

\* Induction, on the set of the numbers for which something holds.
LEMMA CountingUp ==
    ASSUME NEW S, 0 \in S, \A n \in Nat : n \in S => n + 1 \in S
    PROVE  \A n \in Nat : n \in S
<1>1. SUFFICES ASSUME Nat \ S # {} PROVE FALSE
  OBVIOUS
<1>2. PICK n \in Nat \ S : \A k \in Nat \ S : n <= k
  BY <1>1, LeastNumber
<1>3. n # 0 /\ n - 1 \in Nat /\ (n - 1) + 1 = n /\ ~(n <= n - 1)
  BY <1>2
<1>4. n - 1 \in S
  BY <1>2, <1>3
<1> QED BY <1>2, <1>3, <1>4

\* The same, up to m.
LEMMA CountingTo ==
    ASSUME NEW m \in Nat, NEW S, 0 \in S, \A k \in 1..m : k - 1 \in S => k \in S
    PROVE  \A k \in 0..m : k \in S
<1> DEFINE P == {k \in Nat : k <= m => k \in S}
<1>1. 0 \in P
  OBVIOUS
<1>2. ASSUME NEW k \in Nat, k \in P PROVE k + 1 \in P
  <2> SUFFICES ASSUME k + 1 <= m PROVE k + 1 \in S
    OBVIOUS
  <2>1. k + 1 \in 1..m /\ (k + 1) - 1 = k /\ k \in S
    BY <1>2
  <2> QED BY <2>1
<1>3. \A k \in Nat : k \in P
  <2> HIDE DEF P
  <2> QED BY <1>1, <1>2, CountingUp
<1> QED BY <1>3

(***************************************************************************)
(* Sums.                                                                   *)
(***************************************************************************)
Pick(s) == CHOOSE x \in s : TRUE

\* What SumFunction chooses: the sums of the values of h over all sets.
SumsOver(it, h, S) ==
    it = [s \in SUBSET S |-> IF s = {} THEN 0 ELSE h[Pick(s)] + it[s \ {Pick(s)}]]

\* What is picked is in the set.
LEMMA PickIn == ASSUME NEW s, s # {} PROVE Pick(s) \in s
BY DEF Pick

\* Sets without the element that is picked.
LEMMA PickSmaller ==
    ASSUME NEW s, IsFiniteSet(s), s # {}
    PROVE  /\ Pick(s) \in s /\ IsFiniteSet(s \ {Pick(s)})
           /\ Cardinality(s) \in Nat /\ Cardinality(s \ {Pick(s)}) = Cardinality(s) - 1
<1>1. Pick(s) \in s
  BY PickIn
<1> QED BY <1>1, FS_RemoveElement, FS_CardinalityType

\* A finite set has such sums.
LEMMA SumsExist ==
    ASSUME NEW S, IsFiniteSet(S), NEW h
    PROVE  \E it : SumsOver(it, h, S)
<1> DEFINE Upto(n) == {s \in SUBSET S : Cardinality(s) <= n}
           Sum1(g, s) == IF s = {} THEN 0 ELSE h[Pick(s)] + g[s \ {Pick(s)}]
           Good(n) == \E g : g = [s \in Upto(n) |-> Sum1(g, s)]
           P == {n \in Nat : Good(n)}
<1>1. \A s \in SUBSET S : IsFiniteSet(s) /\ Cardinality(s) \in Nat /\ (Cardinality(s) = 0 <=> s = {})
  BY FS_Subset, FS_CardinalityType, FS_EmptySet
<1>2. Good(0)
  <2> DEFINE g == [s \in Upto(0) |-> 0]
  <2>1. \A s \in Upto(0) : s = {}
    BY <1>1
  <2>2. g = [s \in Upto(0) |-> Sum1(g, s)]
    <3> HIDE DEF Upto
    <3> QED BY <2>1
  <2> QED BY <2>2
<1>3. ASSUME NEW n \in Nat, Good(n) PROVE Good(n + 1)
  <2>1. PICK g : g = [s \in Upto(n) |-> Sum1(g, s)]
    BY <1>3
  <2> DEFINE k == [s \in Upto(n + 1) |-> Sum1(g, s)]
  <2>2. \A s \in Upto(n) : s \in Upto(n + 1)
    BY <1>1
  <2>3. \A s \in Upto(n + 1) : s # {} => s \ {Pick(s)} \in Upto(n)
    BY <1>1, PickSmaller
  <2> HIDE DEF Upto
  <2>4. \A s \in Upto(n) : k[s] = g[s]
    <3> HIDE DEF Sum1
    <3> QED BY <2>1, <2>2
  <2>5. \A s \in Upto(n + 1) : Sum1(g, s) = Sum1(k, s)
    <3> HIDE DEF k
    <3> QED BY <2>3, <2>4
  <2>6. k = [s \in Upto(n + 1) |-> Sum1(k, s)]
    <3>1. [s \in Upto(n + 1) |-> Sum1(g, s)] = [s \in Upto(n + 1) |-> Sum1(k, s)]
      <4> HIDE DEF Sum1, k
      <4> QED BY <2>5
    <3> QED BY <3>1
  <2> QED BY <2>6
<1> HIDE DEF Good
<1>4. 0 \in P /\ \A n \in Nat : n \in P => n + 1 \in P
  BY <1>2, <1>3
<1>5. \A n \in Nat : n \in P
  <2> HIDE DEF P
  <2> QED BY <1>4, CountingUp
<1>6. Cardinality(S) \in Nat /\ \A s \in SUBSET S : Cardinality(s) <= Cardinality(S)
  BY FS_Subset, FS_CardinalityType
<1>7. Upto(Cardinality(S)) = SUBSET S
  BY <1>6
<1>8. Good(Cardinality(S))
  BY <1>5, <1>6
<1> HIDE DEF Upto
<1>9. PICK g : g = [s \in SUBSET S |-> Sum1(g, s)]
  BY <1>7, <1>8 DEF Good
<1> QED BY <1>9 DEF SumsOver

\* SumFunction is one of them.
LEMMA SumChosen ==
    ASSUME NEW h, IsFiniteSet(DOMAIN h)
    PROVE  \E it : SumsOver(it, h, DOMAIN h) /\ SumFunction(h) = it[DOMAIN h]
<1>1. \E it : SumsOver(it, h, DOMAIN h)
  BY SumsExist
<1> DEFINE it == CHOOSE x : SumsOver(x, h, DOMAIN h)
<1>2. SumsOver(it, h, DOMAIN h)
  BY <1>1
<1>3. SumFunction(h) = it[DOMAIN h]
  BY DEF SumFunction, SumFunctionOnSet, FoldFunctionOnSet, MapThenFoldSet, SumsOver, Pick
<1> QED BY <1>2, <1>3

\* The order in which the elements are picked does not matter.
LEMMA SumAnyOrder ==
    ASSUME NEW S, IsFiniteSet(S), NEW h \in [S -> Int], NEW it, SumsOver(it, h, S)
    PROVE  \A T \in SUBSET S : it[T] \in Int /\ \A x \in T : it[T] = h[x] + it[T \ {x}]
<1> DEFINE Right(T) == it[T] \in Int /\ \A x \in T : it[T] = h[x] + it[T \ {x}]
           P == {n \in Nat : \A T \in SUBSET S : Cardinality(T) <= n => Right(T)}
<1>1. \A s \in SUBSET S : IsFiniteSet(s) /\ Cardinality(s) \in Nat /\ (Cardinality(s) = 0 <=> s = {})
  BY FS_Subset, FS_CardinalityType, FS_EmptySet
<1>2. it[{}] = 0
  BY DEF SumsOver
<1>3. 0 \in P
  BY <1>1, <1>2
<1>4. ASSUME NEW n \in Nat, n \in P PROVE n + 1 \in P
  <2> SUFFICES ASSUME NEW T \in SUBSET S, Cardinality(T) <= n + 1 PROVE Right(T)
    OBVIOUS
  <2>0. \A U \in SUBSET S : Cardinality(U) <= n => Right(U)
    BY <1>4
  <2> HIDE DEF P
  <2>1. CASE T = {}
    BY <1>2, <2>1
  <2>2. CASE T # {}
    <3> DEFINE y == Pick(T)
    <3>1. y \in T /\ it[T] = h[y] + it[T \ {y}]
      BY <2>2, PickIn DEF SumsOver
    <3> HIDE DEF y
    <3>2. \A x \in T : T \ {x} \in SUBSET S /\ Cardinality(T \ {x}) <= n
      BY <1>1, FS_RemoveElement
    <3>3. \A x \in T : Right(T \ {x})
      BY <2>0, <3>2
    <3>4. it[T] \in Int
      BY <3>1, <3>3
    <3>5. ASSUME NEW x \in T PROVE it[T] = h[x] + it[T \ {x}]
      <4>1. CASE x = y BY <3>1, <4>1
      <4>2. CASE x # y
        <5>1. it[T \ {y}] = h[x] + it[(T \ {y}) \ {x}]
          BY <3>1, <3>3, <4>2
        <5>2. it[T \ {x}] = h[y] + it[(T \ {x}) \ {y}]
          BY <3>1, <3>3, <4>2
        <5>3. (T \ {y}) \ {x} = (T \ {x}) \ {y}
          OBVIOUS
        <5>4. x \in T \ {y}
          BY <4>2
        <5>5. it[T \ {y}] \in Int /\ h[x] \in Int /\ h[y] \in Int
          BY <3>1, <3>3
        <5>6. T \ {y} # {} /\ (T \ {y}) \ {x} \in SUBSET S
          BY <5>4
        <5>7. it[(T \ {y}) \ {x}] \in Int
          <6>1. /\ IsFiniteSet(T \ {y}) /\ Cardinality((T \ {y}) \ {x}) = Cardinality(T \ {y}) - 1
                /\ Cardinality(T \ {y}) \in Nat
            <7>1. T \ {y} \in SUBSET S
              OBVIOUS
            <7> QED BY <1>1, <5>4, <7>1, FS_RemoveElement
          <6>2. Cardinality((T \ {y}) \ {x}) <= n
            BY <3>1, <3>2, <6>1
          <6> QED BY <2>0, <5>6, <6>2
        <5>8. PICK z \in Int : z = it[(T \ {y}) \ {x}]
          BY <5>7
        <5>9. it[T] = h[y] + (h[x] + z)
          BY <3>1, <5>1, <5>8
        <5>10. it[T \ {x}] = h[y] + z
          BY <5>2, <5>3, <5>8
        <5> QED BY <5>5, <5>8, <5>9, <5>10
      <4> QED BY <4>1, <4>2
    <3> QED BY <3>4, <3>5
  <2> QED BY <2>1, <2>2
<1>5. \A n \in Nat : n \in P
  <2> HIDE DEF P
  <2> QED BY <1>3, <1>4, CountingUp
<1>6. ASSUME NEW T \in SUBSET S PROVE Right(T)
  <2>1. Cardinality(T) \in P
    BY <1>1, <1>5
  <2>2. Cardinality(T) <= Cardinality(T)
    BY <1>1
  <2> HIDE DEF Right
  <2> QED BY <2>1, <2>2
<1> QED BY <1>6

\* Sums over a part of the set depend on the values there only.
LEMMA SumsAgree ==
    ASSUME NEW S, IsFiniteSet(S), NEW h, NEW it, SumsOver(it, h, S),
           NEW R \in SUBSET S, NEW g, NEW jt, SumsOver(jt, g, R), \A x \in R : g[x] = h[x]
    PROVE  \A T \in SUBSET R : it[T] = jt[T]
<1> DEFINE P == {n \in Nat : \A T \in SUBSET R : Cardinality(T) <= n => it[T] = jt[T]}
<1>1. \A s \in SUBSET S : IsFiniteSet(s) /\ Cardinality(s) \in Nat /\ (Cardinality(s) = 0 <=> s = {})
  BY FS_Subset, FS_CardinalityType, FS_EmptySet
<1>2. it[{}] = 0 /\ jt[{}] = 0
  BY DEF SumsOver
<1>3. 0 \in P
  BY <1>1, <1>2
<1>4. ASSUME NEW n \in Nat, n \in P PROVE n + 1 \in P
  <2> SUFFICES ASSUME NEW T \in SUBSET R, Cardinality(T) <= n + 1 PROVE it[T] = jt[T]
    OBVIOUS
  <2>0. \A U \in SUBSET R : Cardinality(U) <= n => it[U] = jt[U]
    BY <1>4
  <2> HIDE DEF P
  <2>1. CASE T = {} BY <1>2, <2>1
  <2>2. CASE T # {}
    <3> DEFINE y == Pick(T)
    <3>1. y \in T /\ it[T] = h[y] + it[T \ {y}] /\ jt[T] = g[y] + jt[T \ {y}]
      BY <2>2, PickIn DEF SumsOver
    <3> HIDE DEF y
    <3>2. T \ {y} \in SUBSET R /\ Cardinality(T \ {y}) <= n
      BY <1>1, <3>1, FS_RemoveElement
    <3> QED BY <2>0, <3>1, <3>2
  <2> QED BY <2>1, <2>2
<1>5. \A n \in Nat : n \in P
  <2> HIDE DEF P
  <2> QED BY <1>3, <1>4, CountingUp
<1>6. ASSUME NEW T \in SUBSET R PROVE it[T] = jt[T]
  <2>1. Cardinality(T) \in P /\ Cardinality(T) <= Cardinality(T)
    BY <1>1, <1>5
  <2> QED BY <2>1
<1> QED BY <1>6

\* The sum of no values.
LEMMA SumOfNone == ASSUME NEW h, DOMAIN h = {} PROVE SumFunction(h) = 0
<1>1. IsFiniteSet(DOMAIN h)
  BY FS_EmptySet
<1>2. PICK it : SumsOver(it, h, DOMAIN h) /\ SumFunction(h) = it[DOMAIN h]
  BY <1>1, SumChosen
<1>3. {} \in SUBSET (DOMAIN h)
  OBVIOUS
<1>4. it[{}] = 0
  BY <1>2, <1>3 DEF SumsOver
<1> QED BY <1>2, <1>4

\* The sum with one more value.
LEMMA SumAdds ==
    ASSUME NEW S, IsFiniteSet(S), NEW h \in [S -> Int], NEW x \in S,
           NEW g \in [S \ {x} -> Int], \A y \in S \ {x} : g[y] = h[y]
    PROVE  SumFunction(h) = h[x] + SumFunction(g) /\ SumFunction(h) \in Int /\ SumFunction(g) \in Int
<1>1. DOMAIN h = S /\ DOMAIN g = S \ {x} /\ IsFiniteSet(S \ {x})
  BY FS_RemoveElement
<1>2. PICK it : SumsOver(it, h, S) /\ SumFunction(h) = it[S]
  <2>1. \E it : SumsOver(it, h, DOMAIN h) /\ SumFunction(h) = it[DOMAIN h]
    BY <1>1, SumChosen
  <2> QED BY <1>1, <2>1
<1>3. PICK jt : SumsOver(jt, g, S \ {x}) /\ SumFunction(g) = jt[S \ {x}]
  <2>1. IsFiniteSet(DOMAIN g)
    BY <1>1
  <2>2. \E jt : SumsOver(jt, g, DOMAIN g) /\ SumFunction(g) = jt[DOMAIN g]
    BY <2>1, SumChosen
  <2> QED BY <1>1, <2>2
<1>4. it[S] \in Int /\ it[S] = h[x] + it[S \ {x}]
  BY <1>2, SumAnyOrder
<1>5. it[S \ {x}] \in Int
  BY <1>2, SumAnyOrder
<1>6. it[S \ {x}] = jt[S \ {x}]
  <2> DEFINE R == S \ {x}
  <2>1. R \in SUBSET S /\ R \in SUBSET R /\ SumsOver(jt, g, R) /\ \A y \in R : g[y] = h[y]
    BY <1>3
  <2> HIDE DEF R
  <2>2. \A T \in SUBSET R : it[T] = jt[T]
    BY <1>2, <2>1, SumsAgree
  <2> QED BY <2>1, <2>2 DEF R
<1> QED BY <1>2, <1>3, <1>4, <1>5, <1>6

\* The sum of integers is an integer.
LEMMA SumIsInt ==
    ASSUME NEW S, IsFiniteSet(S), NEW h \in [S -> Int]
    PROVE  SumFunction(h) \in Int
<1>1. PICK it : SumsOver(it, h, S) /\ SumFunction(h) = it[S]
  <2>1. DOMAIN h = S
    OBVIOUS
  <2>2. \E it : SumsOver(it, h, DOMAIN h) /\ SumFunction(h) = it[DOMAIN h]
    BY <2>1, SumChosen
  <2> QED BY <2>1, <2>2
<1> QED BY <1>1, SumAnyOrder

\* Sums of the first numbers of a list.
LEMMA SumsUp ==
    ASSUME NEW n \in Nat, NEW h \in [1..(n + 1) -> Int], NEW g \in [1..n -> Int],
           \A j \in 1..n : g[j] = h[j]
    PROVE  SumFunction(h) = SumFunction(g) + h[n + 1] /\ SumFunction(h) \in Int /\ SumFunction(g) \in Int
<1> DEFINE S == 1..(n + 1)
<1>1. IsFiniteSet(S)
  BY FS_Interval
<1>2. n + 1 \in S /\ S \ {n + 1} = 1..n /\ h \in [S -> Int]
  OBVIOUS
<1> HIDE DEF S
<1>3. g \in [S \ {n + 1} -> Int] /\ \A j \in S \ {n + 1} : g[j] = h[j]
  BY <1>2
<1>4. SumFunction(h) = h[n + 1] + SumFunction(g) /\ SumFunction(h) \in Int /\ SumFunction(g) \in Int
  BY <1>1, <1>2, <1>3, SumAdds
<1>5. h[n + 1] \in Int
  BY <1>2
<1> QED BY <1>4, <1>5

(***************************************************************************)
(* Order.  The elements of a finite set, ranked.                           *)
(***************************************************************************)
StrictOrder(R, S) ==
    /\ R \subseteq S \X S
    /\ \A x \in S : <<x, x>> \notin R
    /\ \A x, y, z \in S : <<x, y>> \in R /\ <<y, z>> \in R => <<x, z>> \in R
    /\ \A x, y \in S : x # y => <<x, y>> \in R \/ <<y, x>> \in R

Below(R, S, x) == {y \in S : <<y, x>> \in R}
Rank(R, S) == [x \in S |-> Cardinality(Below(R, S, x)) + 1]

\* The ranks number the elements, in their order.
LEMMA RanksOrder ==
    ASSUME NEW S, IsFiniteSet(S), NEW R, StrictOrder(R, S)
    PROVE  /\ Rank(R, S) \in Bijection(S, 1..Cardinality(S))
           /\ \A x, y \in S : <<x, y>> \in R => Rank(R, S)[x] < Rank(R, S)[y]
<1> DEFINE n == Cardinality(S)
           r == Rank(R, S)
<1>1. n \in Nat
  BY FS_CardinalityType
<1>2. ASSUME NEW x \in S
      PROVE  IsFiniteSet(Below(R, S, x)) /\ Cardinality(Below(R, S, x)) \in 0..(n - 1)
  <2>1. Below(R, S, x) \in SUBSET S /\ x \in S \ Below(R, S, x)
    BY DEF Below, StrictOrder
  <2>2. IsFiniteSet(Below(R, S, x)) /\ Cardinality(Below(R, S, x)) <= n
        /\ (n = Cardinality(Below(R, S, x)) => S = Below(R, S, x))
    BY <2>1, FS_Subset
  <2>3. Cardinality(Below(R, S, x)) \in Nat
    BY <2>2, FS_CardinalityType
  <2> QED BY <1>1, <2>1, <2>2, <2>3
<1>3. r \in [S -> 1..n]
  <2>1. ASSUME NEW x \in S PROVE Cardinality(Below(R, S, x)) + 1 \in 1..n
    BY <1>1, <1>2
  <2> HIDE DEF n
  <2> QED BY <2>1 DEF Rank
<1>4. ASSUME NEW x \in S, NEW y \in S, <<x, y>> \in R PROVE r[x] < r[y]
  <2>1. Below(R, S, x) \in SUBSET Below(R, S, y) /\ x \in Below(R, S, y) \ Below(R, S, x)
    BY <1>4 DEF Below, StrictOrder
  <2>2. /\ Cardinality(Below(R, S, x)) <= Cardinality(Below(R, S, y))
        /\ Cardinality(Below(R, S, y)) = Cardinality(Below(R, S, x)) => Below(R, S, y) = Below(R, S, x)
    BY <1>2, <2>1, FS_Subset
  <2>3. Cardinality(Below(R, S, x)) < Cardinality(Below(R, S, y))
    BY <1>1, <1>2, <2>1, <2>2
  <2>4. r[x] = Cardinality(Below(R, S, x)) + 1 /\ r[y] = Cardinality(Below(R, S, y)) + 1
    BY DEF Rank
  <2> HIDE DEF r
  <2> QED BY <1>1, <1>2, <2>3, <2>4
<1> HIDE DEF r
<1>5. ASSUME NEW x \in S, NEW y \in S, r[x] = r[y] PROVE x = y
  <2>1. r[x] \in 1..n /\ r[y] \in 1..n
    BY <1>3
  <2>2. ~(r[x] < r[y]) /\ ~(r[y] < r[x])
    BY <1>1, <1>5, <2>1
  <2> QED BY <1>4, <2>2 DEF StrictOrder
<1>6. r \in Injection(S, 1..n)
  BY <1>3, <1>5 DEF Injection, IsInjective
<1>7. IsFiniteSet(1..n) /\ Cardinality(1..n) = n
  BY <1>1, FS_Interval
<1>8. r \in Surjection(S, 1..n)
  BY <1>6, <1>7, FS_Injection
<1> QED BY <1>4, <1>6, <1>8 DEF r, Bijection

\* Which edit comes first when a step runs its edits.
Earlier(es, i, j) == es[i].line < es[j].line \/ (es[i].line = es[j].line /\ i < j)

\* The edits of a step in the order in which they run.
LEMMA LinesInOrder ==
    ASSUME NEW n \in Nat, NEW es, DOMAIN es = 1..n, \A i \in 1..n : es[i].line \in Nat \ {0}
    PROVE  \E p \in Bijection(1..n, 1..n) :
              /\ InLineOrder(es) = [k \in 1..n |-> es[p[k]]]
              /\ \A k, l \in 1..n : k < l => Earlier(es, p[k], p[l])
<1> DEFINE D == 1..n
           R == {e \in D \X D : Earlier(es, e[1], e[2])}
<1>1. \A i, j \in D : <<i, j>> \in R <=> Earlier(es, i, j)
  OBVIOUS
<1>2. IsFiniteSet(D) /\ Cardinality(D) = n
  BY FS_Interval
<1>3. StrictOrder(R, D)
  <2>1. R \subseteq D \X D
    OBVIOUS
  <2> HIDE DEF R
  <2>2. \A x \in D : <<x, x>> \notin R
    BY <1>1 DEF Earlier
  <2>3. \A x, y, z \in D : <<x, y>> \in R /\ <<y, z>> \in R => <<x, z>> \in R
    BY <1>1 DEF Earlier
  <2>4. ASSUME NEW x \in D, NEW y \in D, x # y PROVE Earlier(es, x, y) \/ Earlier(es, y, x)
    <3>1. es[x].line \in Nat /\ es[y].line \in Nat /\ x \in Nat /\ y \in Nat
      OBVIOUS
    <3> QED BY <2>4, <3>1 DEF Earlier
  <2> QED BY <1>1, <2>1, <2>2, <2>3, <2>4 DEF StrictOrder
<1> HIDE DEF R
<1>4. /\ Rank(R, D) \in Bijection(D, 1..n)
      /\ \A x, y \in D : <<x, y>> \in R => Rank(R, D)[x] < Rank(R, D)[y]
  BY <1>2, <1>3, RanksOrder
<1>5. PICK r \in Bijection(D, D) : \A x, y \in D : <<x, y>> \in R => r[x] < r[y]
  BY <1>4
<1> DEFINE Sorts(p) == \A k, l \in D : k < l => Earlier(es, p[k], p[l])
           q == [k \in D |-> CHOOSE x \in D : r[x] = k]
<1>6. r \in [D -> D] /\ (\A x, y \in D : r[x] = r[y] => x = y) /\ \A k \in D : \E x \in D : r[x] = k
  BY <1>5 DEF Bijection, Injection, Surjection, IsInjective
<1>7. \A k \in D : q[k] \in D /\ r[q[k]] = k
  BY <1>6
<1> HIDE DEF q
<1>8. q \in [D -> D]
  BY <1>7 DEF q
<1>9. q \in Bijection(D, D)
  <2>1. \A k, l \in D : q[k] = q[l] => k = l
    BY <1>7
  <2>2. \A x \in D : r[x] \in D /\ q[r[x]] = x
    BY <1>6, <1>7
  <2> QED BY <1>8, <2>1, <2>2 DEF Bijection, Injection, Surjection, IsInjective
<1>10. Sorts(q)
  <2> SUFFICES ASSUME NEW k \in D, NEW l \in D, k < l PROVE Earlier(es, q[k], q[l])
    OBVIOUS
  <2>1. q[k] \in D /\ q[l] \in D /\ r[q[k]] = k /\ r[q[l]] = l
    BY <1>7
  <2>2. q[k] # q[l] /\ ~(r[q[l]] < r[q[k]])
    BY <2>1
  <2>3. <<q[l], q[k]>> \notin R
    BY <1>5, <2>1, <2>2
  <2> QED BY <1>1, <1>3, <2>1, <2>2, <2>3 DEF StrictOrder
<1> DEFINE Line(i) == snapshotLineForRebase(es[i])
           Before(i, j) == \/ Line(j) = 0 /\ Line(i) # 0
                           \/ Line(i) < Line(j) /\ Line(i) # 0
                           \/ Line(i) = Line(j) /\ i < j
           InOrder(x) == \A k, l \in D : k < l => Before(x[k], x[l])
           p == CHOOSE x \in Bijection(D, D) : InOrder(x)
<1>11. InLineOrder(es) = [k \in D |-> es[p[k]]]
  BY DEF InLineOrder
<1>12. \A i \in D : Line(i) = es[i].line
  BY DEF snapshotLineForRebase, AtLeast
<1> HIDE DEF Line
<1>13. \A i, j \in D : Before(i, j) <=> Earlier(es, i, j)
  BY <1>12 DEF Earlier
<1> HIDE DEF Before
<1>14. ASSUME NEW x \in Bijection(D, D) PROVE InOrder(x) <=> Sorts(x)
  <2>1. \A k \in D : x[k] \in D
    BY DEF Bijection, Injection
  <2> HIDE DEF D
  <2> QED BY <1>13, <2>1
<1> HIDE DEF Sorts, InOrder
<1>15. p \in Bijection(D, D) /\ InOrder(p)
  BY <1>9, <1>10, <1>14
<1> HIDE DEF p
<1> QED BY <1>11, <1>14, <1>15 DEF Sorts

(***************************************************************************)
(* One edit.                                                               *)
(***************************************************************************)
LineEdit == [action : {"insert_before", "insert_after", "delete", "replace"},
             line : Nat \ {0}, end : Nat, dest : {0}, new : Nat, id : Nat]

\* An edit that is not a move, at a line of a file of n lines and with a
\* span within the file.
WellPlaced(e, n) ==
    /\ e.action \in {"insert_before", "insert_after", "delete", "replace"}
    /\ e.line \in 1..n
    /\ e.end \in {0} \cup e.line..n
    /\ e.new \in Nat

\* The lines an edit takes out of the file.
TakenLines(e) ==
    IF e.action \in {"delete", "replace"} THEN e.line..(e.line + effectiveLineSpanCount(e) - 1) ELSE {}

\* What an edit does to the text: Count(e) lines at From(e) make way for NewLines(e).
From(e) == IF e.action = "insert_after" THEN e.line + 1 ELSE e.line
Count(e) == IF e.action \in {"delete", "replace"} THEN effectiveLineSpanCount(e) ELSE 0
NewLines(e) == IF e.action = "delete" THEN << >> ELSE Content(e, e.new)

\* What an edit takes lies within the file, and its net change is the number of
\* lines it puts in less those it takes out.
LEMMA EditFits ==
    ASSUME NEW n \in Nat, NEW e, WellPlaced(e, n)
    PROVE  /\ effectiveLineSpanCount(e) \in Nat \ {0} /\ e.line + effectiveLineSpanCount(e) <= n + 1
           /\ From(e) \in 1..(n + 1) /\ Count(e) \in Nat /\ From(e) + Count(e) <= n + 1
           /\ Len(NewLines(e)) \in Nat
           /\ computeSingleEditNetDelta(e) = Len(NewLines(e)) - Count(e)
           /\ TakenLines(e) = From(e)..(From(e) + Count(e) - 1)
<1>1. e.line \in 1..n /\ e.new \in Nat /\ e.end \in {0} \cup e.line..n
  BY DEF WellPlaced
<1>2. effectiveLineSpanCount(e) \in Nat \ {0} /\ e.line + effectiveLineSpanCount(e) <= n + 1
  BY <1>1 DEF effectiveLineSpanCount, AtLeast
<1>3. Len(Content(e, e.new)) = e.new /\ Len(<< >>) = 0
  BY <1>1 DEF Content
<1> DEFINE span == effectiveLineSpanCount(e)
<1>4. span \in Nat \ {0} /\ e.line + span <= n + 1
  BY <1>2
<1>5. From(e) \in 1..(n + 1) /\ Count(e) \in Nat /\ From(e) + Count(e) <= n + 1
  BY <1>1, <1>4 DEF From, Count, WellPlaced
<1>6. computeSingleEditNetDelta(e) = Len(NewLines(e)) - Count(e) /\ Len(NewLines(e)) \in Nat
  <2> HIDE DEF span
  <2>1. CASE e.action \in {"insert_before", "insert_after"}
    <3>1. computeSingleEditNetDelta(e) = e.new /\ Count(e) = 0 /\ NewLines(e) = Content(e, e.new)
      BY <2>1 DEF computeSingleEditNetDelta, Count, NewLines
    <3> QED BY <1>1, <1>3, <3>1
  <2>2. CASE e.action = "delete"
    <3>1. computeSingleEditNetDelta(e) = -span /\ Count(e) = span /\ NewLines(e) = << >>
      BY <2>2 DEF computeSingleEditNetDelta, Count, NewLines, span
    <3> QED BY <1>3, <1>4, <3>1
  <2>3. CASE e.action = "replace"
    <3>1. computeSingleEditNetDelta(e) = e.new - span /\ Count(e) = span /\ NewLines(e) = Content(e, e.new)
      BY <2>3 DEF computeSingleEditNetDelta, Count, NewLines, span
    <3> QED BY <1>1, <1>3, <1>4, <3>1
  <2> QED BY <2>1, <2>2, <2>3 DEF WellPlaced
<1>7. TakenLines(e) = From(e)..(From(e) + Count(e) - 1)
  <2>1. CASE e.action \in {"delete", "replace"}
    BY <2>1 DEF TakenLines, From, Count
  <2>2. CASE e.action \notin {"delete", "replace"}
    BY <1>5, <2>2 DEF TakenLines, Count
  <2> QED BY <2>1, <2>2
<1> QED BY <1>4, <1>5, <1>6, <1>7

\* An edit that overlaps nothing is one replacement of lines (ApplyEdit).
LEMMA EditSplices ==
    ASSUME NEW T, NEW f \in Seq(T), NEW e, WellPlaced(e, Len(f))
    PROVE  ApplyEdit(e, 0, f) = Splice(f, From(e), Count(e), NewLines(e))
<1> DEFINE span == effectiveLineSpanCount(e)
<1>2. e.line \in 1..Len(f) /\ e.new \in Nat /\ Len(f) \in Nat /\ e.end \in {0} \cup e.line..Len(f)
  BY DEF WellPlaced
<1>3. span \in Nat \ {0} /\ e.line + span <= Len(f) + 1
  BY <1>2, EditFits
<1>4. resolve_single_edit_line(e.line, f) = e.line
  BY <1>2 DEF resolve_single_edit_line
<1>5. (IF e.end # 0 THEN AtLeast(0, e.end - e.line + 1) ELSE 1) = span
  BY <1>2 DEF effectiveLineSpanCount
<1>6. AtMost(AtLeast(0, Len(f) - e.line + 1), span) = span
  BY <1>2, <1>3 DEF AtMost, AtLeast
<1>7. AtMost(Len(f), e.line) + 1 = e.line + 1
  BY <1>2 DEF AtMost
<1>8. Content(e, e.new - 0) = Content(e, e.new)
  BY <1>2
<1> HIDE DEF span
<1>9. CASE e.action = "insert_before"
  BY <1>4, <1>9 DEF ApplyEdit, From, Count, NewLines
<1>10. CASE e.action = "insert_after"
  BY <1>4, <1>7, <1>10 DEF ApplyEdit, From, Count, NewLines
<1>11. CASE e.action = "delete"
  BY <1>4, <1>5, <1>6, <1>11 DEF ApplyEdit, From, Count, NewLines, span
<1>12. CASE e.action = "replace"
  BY <1>4, <1>5, <1>6, <1>8, <1>12 DEF ApplyEdit, From, Count, NewLines, span
<1> QED BY <1>9, <1>10, <1>11, <1>12 DEF WellPlaced

\* The shift of an edit for the lines above and below what it takes.
ShiftOf(e, t) == intraStepShiftFromEdit(e, e.line, t)

\* intraStepShiftFromEdit moves a line by all that an edit adds above it, and not at all by an edit
\* below it.
LEMMA ShiftAround ==
    ASSUME NEW n \in Nat, NEW e, WellPlaced(e, n), NEW t \in Int
    PROVE  /\ t < From(e) => ShiftOf(e, t) = 0
           /\ t >= From(e) + Count(e) => ShiftOf(e, t) = computeSingleEditNetDelta(e)
           /\ e.action = "replace" /\ t = e.line => ShiftOf(e, t) = 0
           /\ ShiftOf(e, t) \in {0, computeSingleEditNetDelta(e)}
<1>1. e.line \in 1..n /\ effectiveLineSpanCount(e) \in Nat \ {0}
  BY EditFits DEF WellPlaced
<1>2. CASE e.action = "insert_before"
  BY <1>1, <1>2 DEF ShiftOf, intraStepShiftFromEdit, From, Count
<1>3. CASE e.action \in {"insert_after", "delete", "replace"}
  <2>1. ShiftOf(e, t) = IF e.line < t THEN computeSingleEditNetDelta(e) ELSE 0
    BY <1>3 DEF ShiftOf, intraStepShiftFromEdit
  <2>2. t < From(e) => ~(e.line < t)
    BY <1>1, <1>3 DEF From
  <2>3. t >= From(e) + Count(e) => e.line < t
    BY <1>1, <1>3 DEF From, Count
  <2> QED BY <1>1, <2>1, <2>2, <2>3
<1> QED BY <1>2, <1>3 DEF WellPlaced

\* The text of a concatenation.
LEMMA ConcatLines ==
    ASSUME NEW T, NEW s \in Seq(T), NEW u \in Seq(T)
    PROVE  /\ s \o u \in Seq(T) /\ Len(s \o u) = Len(s) + Len(u)
           /\ \A i \in 1..Len(s) : (s \o u)[i] = s[i]
           /\ \A i \in 1..Len(u) : (s \o u)[Len(s) + i] = u[i]
OBVIOUS

\* What Splice puts where: text before the cut stays, then comes the new
\* text, and text after it moves by the difference of the lengths.
LEMMA SpliceLines ==
    ASSUME NEW T, NEW f \in Seq(T), NEW text \in Seq(T),
           NEW from \in 1..(Len(f) + 1), NEW count \in Nat, from + count <= Len(f) + 1
    PROVE  /\ Splice(f, from, count, text) \in Seq(T)
           /\ Len(Splice(f, from, count, text)) = Len(f) - count + Len(text)
           /\ \A t \in 1..(from - 1) : Splice(f, from, count, text)[t] = f[t]
           /\ \A i \in 1..Len(text) : Splice(f, from, count, text)[from - 1 + i] = text[i]
           /\ \A t \in (from + count)..Len(f) :
                Splice(f, from, count, text)[t - count + Len(text)] = f[t]
<1> DEFINE head == SubSeq(f, 1, from - 1)
           tail == SubSeq(f, from + count, Len(f))
<1>1. /\ head \in Seq(T) /\ Len(head) = from - 1
      /\ \A t \in 1..(from - 1) : head[t] = f[t]
  OBVIOUS
<1>2. /\ tail \in Seq(T) /\ Len(tail) = Len(f) - (from + count) + 1
      /\ \A i \in 1..Len(tail) : tail[i] = f[from + count + i - 1]
  OBVIOUS
<1>3. Splice(f, from, count, text) = (head \o text) \o tail
  BY DEF Splice
<1> HIDE DEF head, tail
<1>4. /\ head \o text \in Seq(T) /\ Len(head \o text) = from - 1 + Len(text)
      /\ \A t \in 1..(from - 1) : (head \o text)[t] = f[t]
      /\ \A i \in 1..Len(text) : (head \o text)[from - 1 + i] = text[i]
  <2>1. /\ head \o text \in Seq(T) /\ Len(head \o text) = Len(head) + Len(text)
        /\ \A t \in 1..Len(head) : (head \o text)[t] = head[t]
        /\ \A i \in 1..Len(text) : (head \o text)[Len(head) + i] = text[i]
    <3>1. head \in Seq(T)
      BY <1>1
    <3>2. head \o text \in Seq(T) /\ Len(head \o text) = Len(head) + Len(text)
      BY <3>1, ConcatLines
    <3>3. \A t \in 1..Len(head) : (head \o text)[t] = head[t]
      BY <3>1
    <3>4. \A i \in 1..Len(text) : (head \o text)[Len(head) + i] = text[i]
      BY <3>1
    <3> QED BY <3>2, <3>3, <3>4
  <2>2. Len(head) = from - 1
    BY <1>1
  <2> QED BY <1>1, <2>1, <2>2, Zenon
<1>5. /\ (head \o text) \o tail \in Seq(T)
      /\ Len((head \o text) \o tail) = Len(f) - count + Len(text)
  <2>1. Len((head \o text) \o tail) = Len(head \o text) + Len(tail)
    BY <1>2, <1>4, ConcatLines
  <2>2. Len(text) \in Nat /\ Len(f) \in Nat
    OBVIOUS
  <2>3. Len(head \o text) + Len(tail) = Len(f) - count + Len(text)
    BY <1>2, <1>4, <2>2
  <2> QED BY <1>2, <1>4, <2>1, <2>3, ConcatLines
<1>6. ASSUME NEW t \in 1..(from - 1 + Len(text))
      PROVE  ((head \o text) \o tail)[t] = (head \o text)[t]
  <2>1. t \in 1..Len(head \o text)
    BY <1>4
  <2> QED BY <1>2, <1>4, <2>1
<1>7. ASSUME NEW t \in 1..(from - 1)
      PROVE  ((head \o text) \o tail)[t] = f[t]
  <2>1. t \in 1..(from - 1 + Len(text))
    OBVIOUS
  <2> QED BY <1>4, <1>6, <2>1
<1>8. ASSUME NEW i \in 1..Len(text)
      PROVE  ((head \o text) \o tail)[from - 1 + i] = text[i]
  <2>1. from - 1 + i \in 1..(from - 1 + Len(text))
    OBVIOUS
  <2> QED BY <1>4, <1>6, <2>1
<1>9. ASSUME NEW t \in (from + count)..Len(f)
      PROVE  ((head \o text) \o tail)[t - count + Len(text)] = f[t]
  <2> DEFINE i == t - (from + count) + 1
  <2>1. i \in 1..Len(tail) /\ Len(head \o text) + i = t - count + Len(text)
    BY <1>2, <1>4
  <2>2. ((head \o text) \o tail)[Len(head \o text) + i] = tail[i]
    BY <1>2, <1>4, <2>1
  <2>3. tail[i] = f[t]
    BY <1>2, <2>1
  <2> QED BY <2>1, <2>2, <2>3
<1> QED BY <1>3, <1>5, <1>7, <1>8, <1>9

\* Text after one edit: above it, its new lines, and below it.
LEMMA EditedText ==
    ASSUME NEW T, NEW f \in Seq(T), NEW e, WellPlaced(e, Len(f)), NewLines(e) \in Seq(T)
    PROVE  LET g == ApplyEdit(e, 0, f) IN
           /\ g \in Seq(T) /\ Len(g) = Len(f) + computeSingleEditNetDelta(e)
           /\ \A t \in 1..(From(e) - 1) : t \in 1..Len(g) /\ g[t] = f[t]
           /\ \A i \in 1..Len(NewLines(e)) :
                 From(e) - 1 + i \in 1..Len(g) /\ g[From(e) - 1 + i] = NewLines(e)[i]
           /\ \A t \in (From(e) + Count(e))..Len(f) :
                 LET moved == t + computeSingleEditNetDelta(e) IN moved \in 1..Len(g) /\ g[moved] = f[t]
<1> DEFINE g == ApplyEdit(e, 0, f)
           new == NewLines(e)
           from == From(e)
           count == Count(e)
           net == computeSingleEditNetDelta(e)
<1>1. Len(f) \in Nat
  OBVIOUS
<1>2. from \in 1..(Len(f) + 1) /\ count \in Nat /\ from + count <= Len(f) + 1
      /\ Len(new) \in Nat /\ net = Len(new) - count
  BY <1>1, EditFits
<1>3. g = Splice(f, from, count, new)
  BY EditSplices
<1> HIDE DEF g, new, from, count, net
<1>4. new \in Seq(T)
  BY DEF new
<1>5. /\ g \in Seq(T)
      /\ Len(g) = Len(f) - count + Len(new)
      /\ \A t \in 1..(from - 1) : g[t] = f[t]
      /\ \A i \in 1..Len(new) : g[from - 1 + i] = new[i]
      /\ \A t \in (from + count)..Len(f) : g[t - count + Len(new)] = f[t]
  <2>1. /\ Splice(f, from, count, new) \in Seq(T)
        /\ Len(Splice(f, from, count, new)) = Len(f) - count + Len(new)
        /\ \A t \in 1..(from - 1) : Splice(f, from, count, new)[t] = f[t]
        /\ \A i \in 1..Len(new) : Splice(f, from, count, new)[from - 1 + i] = new[i]
        /\ \A t \in (from + count)..Len(f) :
             Splice(f, from, count, new)[t - count + Len(new)] = f[t]
    BY <1>2, <1>4, SpliceLines
  <2> QED BY <1>3, <2>1, Zenon
<1>6. Len(g) = Len(f) + net
  BY <1>1, <1>2, <1>5
<1>7. \A t \in 1..(from - 1) : t \in 1..Len(g)
  BY <1>1, <1>2, <1>5
<1>8. \A i \in 1..Len(new) : from - 1 + i \in 1..Len(g)
  BY <1>1, <1>2, <1>5
<1>9. ASSUME NEW t \in (from + count)..Len(f)
      PROVE  t + net \in 1..Len(g) /\ g[t + net] = f[t]
  <2>1. t + net = t - count + Len(new) /\ t + net \in 1..Len(g)
    BY <1>1, <1>2, <1>6
  <2> QED BY <1>5, <2>1
<1>10. /\ g \in Seq(T) /\ Len(g) = Len(f) + net
       /\ \A t \in 1..(from - 1) : t \in 1..Len(g) /\ g[t] = f[t]
       /\ \A i \in 1..Len(new) : from - 1 + i \in 1..Len(g) /\ g[from - 1 + i] = new[i]
       /\ \A t \in (from + count)..Len(f) : t + net \in 1..Len(g) /\ g[t + net] = f[t]
  BY <1>5, <1>6, <1>7, <1>8, <1>9
<1> QED BY <1>10 DEF g, new, from, count, net

\* Every line that an edit leaves in the file is, after the edit, at the line
\* that intraStepShiftFromEdit computes for it, so a later edit that is
\* shifted by it names the line it named before; and no other line has been
\* lost or added but those the net change counts.
THEOREM SurvivingLinesFollow ==
    ASSUME NEW T, NEW f \in Seq(T), NEW e, WellPlaced(e, Len(f)), NewLines(e) \in Seq(T)
    PROVE  LET g == ApplyEdit(e, 0, f) IN
           /\ Len(g) = Len(f) + computeSingleEditNetDelta(e)
           /\ \A t \in DOMAIN f \ TakenLines(e) :
                LET moved == t + intraStepShiftFromEdit(e, e.line, t) IN
                moved \in DOMAIN g /\ g[moved] = f[t]
<1> DEFINE g == ApplyEdit(e, 0, f)
           net == computeSingleEditNetDelta(e)
<1>1. Len(f) \in Nat /\ DOMAIN f = 1..Len(f)
  OBVIOUS
<1>2. From(e) \in 1..(Len(f) + 1) /\ Count(e) \in Nat /\ TakenLines(e) = From(e)..(From(e) + Count(e) - 1)
  BY <1>1, EditFits
<1>3. /\ g \in Seq(T) /\ Len(g) = Len(f) + net
      /\ \A t \in 1..(From(e) - 1) : t \in 1..Len(g) /\ g[t] = f[t]
      /\ \A t \in (From(e) + Count(e))..Len(f) : t + net \in 1..Len(g) /\ g[t + net] = f[t]
  BY EditedText
<1> HIDE DEF g, net
<1>4. ASSUME NEW t \in DOMAIN f \ TakenLines(e)
      PROVE  t + ShiftOf(e, t) \in 1..Len(g) /\ g[t + ShiftOf(e, t)] = f[t]
  <2>1. t \in 1..(From(e) - 1) \/ t \in (From(e) + Count(e))..Len(f)
    BY <1>1, <1>2
  <2>2. CASE t \in 1..(From(e) - 1)
    <3>1. ShiftOf(e, t) = 0 /\ t + 0 = t
      BY <1>1, <1>2, <2>2, ShiftAround
    <3> QED BY <1>3, <2>2, <3>1
  <2>3. CASE t \in (From(e) + Count(e))..Len(f)
    <3>1. ShiftOf(e, t) = net
      BY <1>1, <1>2, <2>3, ShiftAround DEF net
    <3> QED BY <1>3, <2>3, <3>1
  <2> QED BY <2>1, <2>2, <2>3
<1>5. DOMAIN g = 1..Len(g)
  BY <1>3
<1> QED BY <1>3, <1>4, <1>5 DEF g, net, ShiftOf

(***************************************************************************)
(* The edits of one step, in order: each begins below what the earlier     *)
(* ones take, and inserts nowhere above it.                                *)
(***************************************************************************)
InSequence(es, m, n) ==
    /\ DOMAIN es = 1..m
    /\ \A i \in 1..m : es[i] \in LineEdit /\ WellPlaced(es[i], n)
    /\ \A j, i \in 1..m : j < i => From(es[j]) + Count(es[j]) <= es[i].line

\* What the first k edits add to the file, and how far they shift line t.
Added(es, k) == SumFunction([j \in 1..k |-> computeSingleEditNetDelta(es[j])])
Shift(es, k, t) == SumFunction([j \in 1..k |-> ShiftOf(es[j], t)])

MovedBy(e, d) == [e EXCEPT !.line = @ + d, !.end = IF @ > 0 THEN @ + d ELSE @]

\* What edits add, one by one.
LEMMA AddedUp ==
    ASSUME NEW n \in Nat, NEW m \in Nat, NEW es, InSequence(es, m, n)
    PROVE  /\ Added(es, 0) = 0
           /\ \A k \in 0..m : Added(es, k) \in Int
           /\ \A k \in 1..m : Added(es, k) = Added(es, k - 1) + computeSingleEditNetDelta(es[k])
<1>1. \A k \in 1..m : computeSingleEditNetDelta(es[k]) \in Int
  <2> SUFFICES ASSUME NEW k \in 1..m PROVE computeSingleEditNetDelta(es[k]) \in Int
    OBVIOUS
  <2>1. /\ computeSingleEditNetDelta(es[k]) = Len(NewLines(es[k])) - Count(es[k])
        /\ Len(NewLines(es[k])) \in Nat /\ Count(es[k]) \in Nat
    BY EditFits DEF InSequence
  <2> QED BY <2>1
<1> DEFINE h(k) == [j \in 1..k |-> computeSingleEditNetDelta(es[j])]
<1>2. ASSUME NEW k \in 0..m PROVE Added(es, k) \in Int
  <2>1. h(k) \in [1..k -> Int] /\ IsFiniteSet(1..k)
    BY <1>1, FS_Interval
  <2> HIDE DEF h
  <2>2. SumFunction(h(k)) \in Int
    BY <2>1, SumIsInt
  <2> QED BY <2>2 DEF Added, h
<1>3. ASSUME NEW k \in 1..m
      PROVE  Added(es, k) = Added(es, k - 1) + computeSingleEditNetDelta(es[k])
  <2> DEFINE l == k - 1
  <2>1. l \in Nat /\ l + 1 = k
    OBVIOUS
  <2>2. h(l + 1) \in [1..(l + 1) -> Int] /\ h(l) \in [1..l -> Int]
        /\ (\A j \in 1..l : h(l)[j] = h(l + 1)[j]) /\ h(l + 1)[l + 1] = computeSingleEditNetDelta(es[k])
    BY <1>1, <2>1
  <2> HIDE DEF h, l
  <2>3. SumFunction(h(l + 1)) = SumFunction(h(l)) + h(l + 1)[l + 1]
    BY <2>1, <2>2, SumsUp
  <2> QED BY <2>1, <2>2, <2>3 DEF Added, h, l
<1>4. Added(es, 0) = 0
  <2>1. DOMAIN h(0) = {}
    OBVIOUS
  <2> HIDE DEF h
  <2>2. SumFunction(h(0)) = 0
    BY <2>1, SumOfNone
  <2> QED BY <2>2 DEF Added, h
<1> QED BY <1>2, <1>3, <1>4

\* How far edits shift a line, one by one.
LEMMA ShiftUp ==
    ASSUME NEW n \in Nat, NEW m \in Nat, NEW es, InSequence(es, m, n), NEW t \in Int
    PROVE  /\ Shift(es, 0, t) = 0
           /\ \A k \in 0..m : Shift(es, k, t) \in Int
           /\ \A k \in 1..m : Shift(es, k, t) = Shift(es, k - 1, t) + ShiftOf(es[k], t)
<1>1. \A k \in 1..m : ShiftOf(es[k], t) \in Int
  <2> SUFFICES ASSUME NEW k \in 1..m PROVE ShiftOf(es[k], t) \in Int
    OBVIOUS
  <2>1. /\ computeSingleEditNetDelta(es[k]) = Len(NewLines(es[k])) - Count(es[k])
        /\ Len(NewLines(es[k])) \in Nat /\ Count(es[k]) \in Nat
    BY EditFits DEF InSequence
  <2>2. ShiftOf(es[k], t) \in {0, computeSingleEditNetDelta(es[k])}
    BY ShiftAround DEF InSequence
  <2> QED BY <2>1, <2>2
<1> DEFINE h(k) == [j \in 1..k |-> ShiftOf(es[j], t)]
<1>2. ASSUME NEW k \in 0..m PROVE Shift(es, k, t) \in Int
  <2>1. h(k) \in [1..k -> Int] /\ IsFiniteSet(1..k)
    BY <1>1, FS_Interval
  <2> HIDE DEF h
  <2>2. SumFunction(h(k)) \in Int
    BY <2>1, SumIsInt
  <2> QED BY <2>2 DEF Shift, h
<1>3. ASSUME NEW k \in 1..m
      PROVE  Shift(es, k, t) = Shift(es, k - 1, t) + ShiftOf(es[k], t)
  <2> DEFINE l == k - 1
  <2>1. l \in Nat /\ l + 1 = k
    OBVIOUS
  <2>2. h(l + 1) \in [1..(l + 1) -> Int] /\ h(l) \in [1..l -> Int]
        /\ (\A j \in 1..l : h(l)[j] = h(l + 1)[j]) /\ h(l + 1)[l + 1] = ShiftOf(es[k], t)
    BY <1>1, <2>1
  <2> HIDE DEF h, l
  <2>3. SumFunction(h(l + 1)) = SumFunction(h(l)) + h(l + 1)[l + 1]
    BY <2>1, <2>2, SumsUp
  <2> QED BY <2>1, <2>2, <2>3 DEF Shift, h, l
<1>4. Shift(es, 0, t) = 0
  <2>1. DOMAIN h(0) = {}
    OBVIOUS
  <2> HIDE DEF h
  <2>2. SumFunction(h(0)) = 0
    BY <2>1, SumOfNone
  <2> QED BY <2>2 DEF Shift, h
<1> QED BY <1>2, <1>3, <1>4

\* Renumbering never takes an edit above the first line.
LEMMA SequenceAbove ==
    ASSUME NEW n \in Nat, NEW m \in Nat, NEW es, InSequence(es, m, n)
    PROVE  \A k \in 1..m : /\ es[k].line + Added(es, k - 1) >= 1
                           /\ From(es[k]) + Count(es[k]) + Added(es, k) >= 1
<1> DEFINE Good(k) == /\ es[k].line + Added(es, k - 1) >= 1
                      /\ From(es[k]) + Count(es[k]) + Added(es, k) >= 1
           P == {k \in Nat : k \in 1..m => Good(k)}
<1>1. ASSUME NEW k \in 1..m, es[k].line + Added(es, k - 1) >= 1 PROVE Good(k)
  <2> DEFINE net == computeSingleEditNetDelta(es[k])
             new == Len(NewLines(es[k]))
  <2>1. /\ From(es[k]) >= es[k].line /\ From(es[k]) \in Int /\ es[k].line \in Int /\ Count(es[k]) \in Nat
        /\ new \in Nat /\ net = new - Count(es[k])
    <3>1. WellPlaced(es[k], n)
      BY DEF InSequence
    <3>2. From(es[k]) >= es[k].line
      BY <3>1 DEF From, WellPlaced
    <3> QED BY <3>1, <3>2, EditFits DEF WellPlaced
  <2>2. Added(es, k) = Added(es, k - 1) + net /\ Added(es, k - 1) \in Int
    BY AddedUp
  <2> HIDE DEF net, new
  <2> QED BY <1>1, <2>1, <2>2
<1>2. 0 \in P
  OBVIOUS
<1>3. ASSUME NEW k \in Nat, k \in P PROVE k + 1 \in P
  <2> SUFFICES ASSUME k + 1 \in 1..m PROVE Good(k + 1)
    OBVIOUS
  <2>1. es[k + 1].line \in 1..n
    BY DEF InSequence, WellPlaced
  <2>2. CASE k = 0
    <3>1. Added(es, k) = 0
      BY <2>2, AddedUp
    <3>2. (k + 1) - 1 = k
      OBVIOUS
    <3>3. es[k + 1].line + Added(es, (k + 1) - 1) >= 1
      BY <2>1, <3>1, <3>2
    <3> QED BY <1>1, <3>3
  <2>3. CASE k # 0
    <3>1. k \in 1..m /\ (k + 1) - 1 = k /\ k < k + 1
      BY <2>3
    <3>2. From(es[k]) + Count(es[k]) + Added(es, k) >= 1
      BY <1>3, <3>1
    <3>3. From(es[k]) + Count(es[k]) <= es[k + 1].line
      BY <3>1 DEF InSequence
    <3>4. From(es[k]) \in Int /\ Count(es[k]) \in Int
      BY <3>1, EditFits DEF InSequence
    <3>5. Added(es, k) \in Int
      BY <3>1, AddedUp
    <3>6. es[k + 1].line + Added(es, (k + 1) - 1) >= 1
      BY <2>1, <3>1, <3>2, <3>3, <3>4, <3>5
    <3> QED BY <1>1, <3>6
  <2> QED BY <2>2, <2>3
<1>4. \A k \in Nat : k \in P
  <2> HIDE DEF P
  <2> QED BY <1>2, <1>3, CountingUp
<1> QED BY <1>4

\* An edit that is moved is the same edit elsewhere.
LEMMA MovedEdit ==
    ASSUME NEW n \in Nat, NEW e \in LineEdit, WellPlaced(e, n), NEW d \in Int, e.line + d >= 1
    PROVE  LET r == MovedBy(e, d) IN
           /\ r \in LineEdit /\ n + d \in Nat /\ WellPlaced(r, n + d)
           /\ r.action = e.action /\ r.id = e.id /\ r.new = e.new /\ r.dest = 0
           /\ r.line = e.line + d /\ r.end = (IF e.end = 0 THEN 0 ELSE e.end + d)
           /\ effectiveLineSpanCount(r) = effectiveLineSpanCount(e)
           /\ computeSingleEditNetDelta(r) = computeSingleEditNetDelta(e)
           /\ From(r) = From(e) + d /\ Count(r) = Count(e) /\ NewLines(r) = NewLines(e)
           /\ \A s, t : intraStepShiftFromEdit(r, s, t) = intraStepShiftFromEdit(e, s, t)
<1> DEFINE r == MovedBy(e, d)
<1>1. /\ r.action = e.action /\ r.id = e.id /\ r.new = e.new /\ r.dest = e.dest
      /\ r.line = e.line + d /\ r.end = (IF e.end > 0 THEN e.end + d ELSE e.end)
      /\ r = [action |-> r.action, line |-> r.line, end |-> r.end, dest |-> r.dest, new |-> r.new, id |-> r.id]
  <2> DEFINE line == e.line + d
             end == IF e.end > 0 THEN e.end + d ELSE e.end
  <2>1. r = [[e EXCEPT !.line = line] EXCEPT !.end = end]
    BY DEF MovedBy, LineEdit
  <2> HIDE DEF line, end
  <2>2. r = [action |-> e.action, line |-> line, end |-> end, dest |-> e.dest, new |-> e.new, id |-> e.id]
    <3> HIDE DEF r
    <3> QED BY <2>1 DEF LineEdit
  <2> HIDE DEF r
  <2> QED BY <2>2 DEF line, end
<1>2. /\ e.action \in {"insert_before", "insert_after", "delete", "replace"}
      /\ e.line \in 1..n /\ e.end \in {0} \cup e.line..n /\ e.new \in Nat /\ e.dest = 0 /\ e.id \in Nat
  BY DEF WellPlaced, LineEdit
<1> HIDE DEF r
<1>3. r.end = (IF e.end = 0 THEN 0 ELSE e.end + d) /\ n + d \in Nat /\ r.line \in 1..(n + d)
      /\ r.end \in {0} \cup r.line..(n + d) /\ r.end \in Nat
  BY <1>1, <1>2
<1>4. r \in LineEdit /\ WellPlaced(r, n + d)
  <2>1. r.line \in Nat \ {0} /\ r.end \in Nat /\ r.dest \in {0} /\ r.new \in Nat /\ r.id \in Nat
        /\ r.action \in {"insert_before", "insert_after", "delete", "replace"}
    BY <1>1, <1>2, <1>3
  <2>2. [action |-> r.action, line |-> r.line, end |-> r.end, dest |-> r.dest, new |-> r.new, id |-> r.id]
          \in LineEdit
    BY <2>1 DEF LineEdit
  <2>3. r \in LineEdit
    BY <1>1, <2>2, Zenon
  <2> QED BY <1>3, <2>1, <2>3 DEF WellPlaced
<1>5. effectiveLineSpanCount(r) = effectiveLineSpanCount(e)
  BY <1>1, <1>2, <1>3 DEF effectiveLineSpanCount, AtLeast
<1>6. computeSingleEditNetDelta(r) = computeSingleEditNetDelta(e)
  BY <1>1, <1>5 DEF computeSingleEditNetDelta
<1>7. From(r) = From(e) + d
  BY <1>1, <1>2 DEF From
<1>8. Count(r) = Count(e) /\ NewLines(r) = NewLines(e)
  BY <1>1, <1>5 DEF Count, NewLines, Content
<1>9. \A s, t : intraStepShiftFromEdit(r, s, t) = intraStepShiftFromEdit(e, s, t)
  BY <1>1, <1>2, <1>6 DEF intraStepShiftFromEdit
<1> QED BY <1>1, <1>2, <1>3, <1>4, <1>5, <1>6, <1>7, <1>8, <1>9 DEF r

\* Renumbering within a step (rebaseIntraStepSnapshotLineEdits), whatever the number of
\* its edits: sorted by line, each is moved by what the earlier ones add to the file, although
\* every shift is computed from the renumbered form of the edit that causes it.
THEOREM Rewriting ==
    ASSUME NEW n \in Nat, NEW m \in Nat, NEW es, NEW snap, snap = InLineOrder(es), InSequence(snap, m, n)
    PROVE  rebaseIntraStepSnapshotLineEdits(es) = [i \in 1..m |-> MovedBy(snap[i], Added(snap, i - 1))]
<1> DEFINE Sum(rw, i, target) ==
             SumFunction([j \in {k \in 1..(i-1) : snap[k].line > 0} |->
                            intraStepShiftFromEdit(rw[j], snap[j].line, target)])
           Moved(rw, i, target) == IF target > 0 THEN target + Sum(rw, i, target) ELSE target
           Body(rw, i) == IF snap[i].line <= 0 THEN snap[i]
                          ELSE [snap[i] EXCEPT !.line = Moved(rw, i, @), !.end = Moved(rw, i, @),
                                               !.dest = Moved(rw, i, @)]
           Solves(rw) == rw = [i \in 1..m |-> Body(rw, i)]
           res == [i \in 1..m |-> MovedBy(snap[i], Added(snap, i - 1))]
           chosen == CHOOSE rw : Solves(rw)
<1>1. DOMAIN snap = 1..m /\ \A i \in 1..m : snap[i] \in LineEdit /\ WellPlaced(snap[i], n) /\ snap[i].line \in 1..n
  BY DEF InSequence, WellPlaced
<1>2. rebaseIntraStepSnapshotLineEdits(es) = chosen
  BY <1>1 DEF rebaseIntraStepSnapshotLineEdits
\* An edit is computed from the moved forms of those before it.
<1>3. ASSUME NEW rw, NEW i \in 1..m, \A j \in 1..(i-1) : rw[j] = MovedBy(snap[j], Added(snap, j - 1))
      PROVE  Body(rw, i) = MovedBy(snap[i], Added(snap, i - 1))
  <2>1. {k \in 1..(i-1) : snap[k].line > 0} = 1..(i-1)
    BY <1>1
  <2>2. ASSUME NEW t \in Int, t >= snap[i].line PROVE Sum(rw, i, t) = Added(snap, i - 1)
    <3>1. ASSUME NEW j \in 1..(i-1)
          PROVE  intraStepShiftFromEdit(rw[j], snap[j].line, t) = computeSingleEditNetDelta(snap[j])
      <4>1. j \in 1..m /\ j < i
        OBVIOUS
      <4>2. snap[j].line + Added(snap, j - 1) >= 1 /\ Added(snap, j - 1) \in Int
        BY <4>1, SequenceAbove, AddedUp
      <4>3. intraStepShiftFromEdit(rw[j], snap[j].line, t) = ShiftOf(snap[j], t)
        BY <1>1, <1>3, <4>1, <4>2, MovedEdit DEF ShiftOf
      <4>4. From(snap[j]) + Count(snap[j]) <= snap[i].line
        BY <4>1 DEF InSequence
      <4>5. From(snap[j]) \in Int /\ Count(snap[j]) \in Int /\ snap[i].line \in Int
        <5>1. From(snap[j]) \in 1..(n + 1) /\ Count(snap[j]) \in Nat
          BY <1>1, <4>1, EditFits
        <5> QED BY <1>1, <5>1
      <4>6. t >= From(snap[j]) + Count(snap[j])
        BY <2>2, <4>4, <4>5
      <4> QED BY <1>1, <4>1, <4>3, <4>6, ShiftAround
    <3>2. [j \in 1..(i-1) |-> intraStepShiftFromEdit(rw[j], snap[j].line, t)]
            = [j \in 1..(i-1) |-> computeSingleEditNetDelta(snap[j])]
      BY <3>1, Zenon
    <3> QED BY <2>1, <3>2, Zenon DEF Added
  <2> DEFINE e == snap[i]
             d == Added(snap, i - 1)
  <2>3. e \in LineEdit /\ e.line \in 1..n /\ e.end \in {0} \cup e.line..n /\ e.dest = 0
    BY <1>1 DEF WellPlaced, LineEdit
  <2>4. Moved(rw, i, e.line) = e.line + d
    <3> HIDE DEF Sum, d
    <3>1. Sum(rw, i, e.line) = d
      BY <2>2, <2>3 DEF d
    <3> QED BY <2>3, <3>1
  <2>5. Moved(rw, i, e.end) = IF e.end > 0 THEN e.end + d ELSE e.end
    <3> HIDE DEF Sum, d
    <3>1. e.end > 0 => Sum(rw, i, e.end) = d
      BY <2>2, <2>3 DEF d
    <3> QED BY <2>3, <3>1
  <2>6. Moved(rw, i, e.dest) = e.dest
    <3> HIDE DEF Sum
    <3> QED BY <2>3
  <2> HIDE DEF Moved, d
  <2>7. Body(rw, i) = [e EXCEPT !.line = Moved(rw, i, @), !.end = Moved(rw, i, @), !.dest = Moved(rw, i, @)]
    BY <2>3
  <2>8. Body(rw, i) = [e EXCEPT !.line = @ + d, !.end = IF @ > 0 THEN @ + d ELSE @, !.dest = @]
    <3> HIDE DEF Body, e
    <3> QED BY <2>4, <2>5, <2>6, <2>7
  <2> HIDE DEF Body, e
  <2>9. [e EXCEPT !.line = @ + d, !.end = IF @ > 0 THEN @ + d ELSE @, !.dest = @] = MovedBy(e, d)
    BY <2>3 DEF MovedBy, LineEdit
  <2> QED BY <2>8, <2>9 DEF d, e
<1> HIDE DEF Body
<1>4. Solves(res)
  <2> DEFINE again == [i \in 1..m |-> Body(res, i)]
  <2>1. \A i \in 1..m : \A j \in 1..(i-1) : res[j] = MovedBy(snap[j], Added(snap, j - 1))
    OBVIOUS
  <2> HIDE DEF res
  <2>2. \A i \in 1..m : Body(res, i) = MovedBy(snap[i], Added(snap, i - 1))
    BY <1>3, <2>1
  <2>3. again = [i \in 1..m |-> MovedBy(snap[i], Added(snap, i - 1))]
    BY <2>2, Zenon
  <2> QED BY <2>3 DEF res
<1>5. Solves(chosen)
  <2> HIDE DEF Solves
  <2> QED BY <1>4
<1>6. \A i \in 1..m : chosen[i] = MovedBy(snap[i], Added(snap, i - 1))
  <2> DEFINE Right(i) == chosen[i] = MovedBy(snap[i], Added(snap, i - 1))
             P == {k \in Nat : \A i \in 1..m : i <= k => Right(i)}
  <2> HIDE DEF chosen
  <2>1. 0 \in P
    OBVIOUS
  <2>2. ASSUME NEW k \in Nat, k \in P PROVE k + 1 \in P
    <3>1. \A i \in 1..m : i <= k => Right(i)
      BY <2>2
    <3> SUFFICES ASSUME k + 1 \in 1..m PROVE Right(k + 1)
      BY <3>1
    <3>2. \A j \in 1..((k + 1)-1) : chosen[j] = MovedBy(snap[j], Added(snap, j - 1))
      BY <3>1
    <3>3. Body(chosen, k + 1) = MovedBy(snap[k + 1], Added(snap, (k + 1) - 1))
      BY <1>3, <3>2
    <3>4. chosen[k + 1] = Body(chosen, k + 1)
      BY <1>5
    <3> QED BY <3>3, <3>4
  <2>3. \A k \in Nat : k \in P
    <3> HIDE DEF P
    <3> QED BY <2>1, <2>2, CountingUp
  <2> QED BY <2>3
<1>7. chosen = res
  <2>1. chosen = [i \in 1..m |-> Body(chosen, i)]
    BY <1>5
  <2> HIDE DEF chosen
  <2> QED BY <1>6, <2>1
<1> QED BY <1>2, <1>7 DEF res

(***************************************************************************)
(* The files in between.                                                   *)
(***************************************************************************)
Texts == Seq(Nat \X Nat)

\* The content of an edit.
LEMMA ContentIsText ==
    ASSUME NEW e \in LineEdit
    PROVE  /\ NewLines(e) \in Texts
           /\ e.action # "delete" => Len(NewLines(e)) = e.new /\ \A i \in 1..e.new : NewLines(e)[i] = <<e.id, i>>
<1>1. e.id \in Nat /\ e.new \in Nat
  BY DEF LineEdit
<1>2. Content(e, e.new) \in Texts
  BY <1>1 DEF Content, Texts
<1>3. Len(Content(e, e.new)) = e.new /\ \A i \in 1..e.new : Content(e, e.new)[i] = <<e.id, i>>
  BY <1>1 DEF Content
<1>4. << >> \in Texts
  BY DEF Texts
<1> QED BY <1>2, <1>3, <1>4 DEF NewLines

\* The edits of a step, each as it is applied.
Rewritten(es, m) == [i \in 1..m |-> MovedBy(es[i], Added(es, i - 1))]

\* The files in between (Stages), step by step.
LEMMA StagesRun ==
    ASSUME NEW m \in Nat, NEW es, NEW ov, NEW f
    PROVE  LET rw == Rewritten(es, m)
               g == Stages(rw, ov, f)
           IN Len(rw) = m /\ g[0] = f /\ \A i \in 1..m : g[i] = ApplyEdit(rw[i], ov[i], g[i - 1])
<1> DEFINE rw == Rewritten(es, m)
           Body(g, i) == IF i = 0 THEN f ELSE ApplyEdit(rw[i], ov[i], g[i-1])
           Good(k) == \E g : g = [i \in 0..k |-> Body(g, i)]
           P == {k \in Nat : Good(k)}
<1>1. Len(rw) = m
  BY DEF Rewritten
<1> HIDE DEF rw
<1>2. Good(0)
  <2> DEFINE g == [i \in 0..0 |-> f]
  <2>1. g = [i \in 0..0 |-> Body(g, i)]
    OBVIOUS
  <2> QED BY <2>1
<1>3. ASSUME NEW k \in Nat, Good(k) PROVE Good(k + 1)
  <2>1. PICK g : g = [i \in 0..k |-> Body(g, i)]
    BY <1>3
  <2> DEFINE h == [i \in 0..(k + 1) |-> Body(g, i)]
  <2>2. \A i \in 0..k : i \in 0..(k + 1)
    OBVIOUS
  <2>3. \A i \in 0..(k + 1) : i # 0 => i - 1 \in 0..k
    OBVIOUS
  <2>4. \A i \in 0..k : h[i] = g[i]
    <3> HIDE DEF Body
    <3> QED BY <2>1, <2>2
  <2>5. \A i \in 0..(k + 1) : Body(g, i) = Body(h, i)
    <3> HIDE DEF h
    <3> QED BY <2>3, <2>4
  <2>6. h = [i \in 0..(k + 1) |-> Body(h, i)]
    <3>1. [i \in 0..(k + 1) |-> Body(g, i)] = [i \in 0..(k + 1) |-> Body(h, i)]
      <4> HIDE DEF Body, h
      <4> QED BY <2>5, Zenon
    <3> QED BY <3>1
  <2> QED BY <2>6
<1> HIDE DEF Good
<1>4. 0 \in P /\ \A k \in Nat : k \in P => k + 1 \in P
  BY <1>2, <1>3
<1>5. \A k \in Nat : k \in P
  <2> HIDE DEF P
  <2> QED BY <1>4, CountingUp
<1>6. Good(m)
  BY <1>5
<1> DEFINE chosen == CHOOSE g : g = [i \in 0..m |-> Body(g, i)]
<1>7. Stages(rw, ov, f) = chosen
  BY <1>1 DEF Stages
<1>8. chosen = [i \in 0..m |-> Body(chosen, i)]
  BY <1>6 DEF Good
<1> HIDE DEF chosen
<1>9. chosen[0] = f /\ \A i \in 1..m : chosen[i] = ApplyEdit(rw[i], ov[i], chosen[i - 1])
  <2>1. chosen[0] = Body(chosen, 0) /\ \A i \in 1..m : chosen[i] = Body(chosen, i)
    <3> HIDE DEF Body
    <3>1. 0 \in 0..m /\ \A i \in 1..m : i \in 0..m
      OBVIOUS
    <3> QED BY <1>8, <3>1
  <2>2. \A i \in 1..m : i # 0
    OBVIOUS
  <2> QED BY <2>1, <2>2
<1> QED BY <1>1, <1>7, <1>9 DEF rw

\* Line u is below everything the first k edits take or insert.
Clear(es, k, u) == \A j \in 1..k : From(es[j]) + Count(es[j]) <= u

\* None of the first k edits takes line t, except that its replacement begins there.
Stays(es, k, t) ==
    \A j \in 1..k : t \in TakenLines(es[j]) => es[j].action = "replace" /\ t = es[j].line /\ es[j].new >= 1

\* The numbers of the k-th edit of a step.
LEMMA Terms ==
    ASSUME NEW n \in Nat, NEW m \in Nat, NEW es, InSequence(es, m, n), NEW k \in 1..m
    PROVE  /\ es[k] \in LineEdit /\ WellPlaced(es[k], n)
           /\ es[k].line \in 1..n /\ From(es[k]) \in 1..(n + 1) /\ Count(es[k]) \in Nat
           /\ From(es[k]) + Count(es[k]) <= n + 1 /\ es[k].line <= From(es[k])
           /\ Len(NewLines(es[k])) \in Nat
           /\ computeSingleEditNetDelta(es[k]) = Len(NewLines(es[k])) - Count(es[k])
           /\ computeSingleEditNetDelta(es[k]) \in Int
           /\ TakenLines(es[k]) = From(es[k])..(From(es[k]) + Count(es[k]) - 1)
           /\ Added(es, k - 1) \in Int /\ Added(es, k) = Added(es, k - 1) + computeSingleEditNetDelta(es[k])
           /\ Clear(es, k - 1, es[k].line)
<1>1. es[k] \in LineEdit /\ WellPlaced(es[k], n)
  BY DEF InSequence
<1>2. es[k].line \in 1..n /\ From(es[k]) \in 1..(n + 1) /\ Count(es[k]) \in Nat
      /\ From(es[k]) + Count(es[k]) <= n + 1 /\ Len(NewLines(es[k])) \in Nat
      /\ computeSingleEditNetDelta(es[k]) = Len(NewLines(es[k])) - Count(es[k])
      /\ TakenLines(es[k]) = From(es[k])..(From(es[k]) + Count(es[k]) - 1)
  BY <1>1, EditFits DEF WellPlaced
<1>3. es[k].line <= From(es[k])
  BY <1>2 DEF From
<1>4. computeSingleEditNetDelta(es[k]) \in Int
  BY <1>2
<1>5. k - 1 \in 0..m
  OBVIOUS
<1>6. Added(es, k - 1) \in Int /\ Added(es, k) = Added(es, k - 1) + computeSingleEditNetDelta(es[k])
  BY <1>5, AddedUp
<1>8. Clear(es, k - 1, es[k].line)
  BY DEF Clear, InSequence
<1> QED BY <1>1, <1>2, <1>3, <1>4, <1>6, <1>8

\* And what it does to the line t.
LEMMA TermsAt ==
    ASSUME NEW n \in Nat, NEW m \in Nat, NEW es, InSequence(es, m, n), NEW k \in 1..m, NEW t \in Int
    PROVE  /\ Shift(es, k - 1, t) \in Int
           /\ Shift(es, k, t) = Shift(es, k - 1, t) + ShiftOf(es[k], t)
           /\ Clear(es, k, t) <=> From(es[k]) + Count(es[k]) <= t
<1>1. Shift(es, k - 1, t) \in Int /\ Shift(es, k, t) = Shift(es, k - 1, t) + ShiftOf(es[k], t)
  <2>1. k - 1 \in 0..m
    OBVIOUS
  <2> QED BY <2>1, ShiftUp
<1>2. Clear(es, k, t) => From(es[k]) + Count(es[k]) <= t
  BY DEF Clear
<1>3. ASSUME From(es[k]) + Count(es[k]) <= t, NEW j \in 1..k
      PROVE  From(es[j]) + Count(es[j]) <= t
  <2>1. CASE j = k BY <1>3, <2>1
  <2>2. CASE j # k
    <3>1. j \in 1..m /\ j < k
      BY <2>2
    <3>2. From(es[j]) + Count(es[j]) <= es[k].line
      BY <3>1 DEF InSequence
    <3>3. From(es[j]) \in 1..(n + 1) /\ Count(es[j]) \in Nat
      BY <3>1, Terms
    <3>4. From(es[k]) \in 1..(n + 1) /\ Count(es[k]) \in Nat /\ es[k].line \in 1..n /\ es[k].line <= From(es[k])
      BY Terms
    <3> QED BY <1>3, <3>2, <3>3, <3>4
  <2> QED BY <2>1, <2>2
<1> QED BY <1>1, <1>2, <1>3 DEF Clear

\* Lines below all edits are shifted by all they add.
LEMMA ClearShift ==
    ASSUME NEW n \in Nat, NEW m \in Nat, NEW es, InSequence(es, m, n), NEW t \in Int
    PROVE  \A k \in 0..m : Clear(es, k, t) => Shift(es, k, t) = Added(es, k)
<1> DEFINE P == {k \in 0..m : Clear(es, k, t) => Shift(es, k, t) = Added(es, k)}
<1>1. 0 \in P
  BY AddedUp, ShiftUp
<1>2. ASSUME NEW k \in 1..m, k - 1 \in P PROVE k \in P
  <2> SUFFICES ASSUME Clear(es, k, t) PROVE Shift(es, k, t) = Added(es, k)
    OBVIOUS
  <2>1. Clear(es, k - 1, t)
    BY DEF Clear
  <2>2. Shift(es, k - 1, t) = Added(es, k - 1)
    BY <1>2, <2>1
  <2> HIDE DEF P
  <2>3. /\ WellPlaced(es[k], n) /\ From(es[k]) \in 1..(n + 1) /\ Count(es[k]) \in Nat
        /\ Added(es, k) = Added(es, k - 1) + computeSingleEditNetDelta(es[k])
    BY Terms
  <2>4. /\ Shift(es, k, t) = Shift(es, k - 1, t) + ShiftOf(es[k], t)
        /\ From(es[k]) + Count(es[k]) <= t
    BY TermsAt
  <2>5. ShiftOf(es[k], t) = computeSingleEditNetDelta(es[k])
    BY <2>3, <2>4, ShiftAround
  <2> QED BY <2>2, <2>3, <2>4, <2>5
<1>3. \A k \in 0..m : k \in P
  <2> HIDE DEF P
  <2> QED BY <1>1, <1>2, CountingTo
<1> QED BY <1>3

\* What is clear of some edits is clear of them further down.
LEMMA ClearDown ==
    ASSUME NEW n \in Nat, NEW m \in Nat, NEW es, InSequence(es, m, n), NEW k \in 0..m,
           NEW t \in Int, NEW u \in Int, t <= u, Clear(es, k, t)
    PROVE  Clear(es, k, u)
<1> SUFFICES ASSUME NEW j \in 1..k PROVE From(es[j]) + Count(es[j]) <= u
  BY DEF Clear
<1>1. From(es[j]) + Count(es[j]) <= t
  BY DEF Clear
<1>2. j \in 1..m
  OBVIOUS
<1>3. From(es[j]) \in 1..(n + 1) /\ Count(es[j]) \in Nat
  BY <1>2, Terms
<1> QED BY <1>1, <1>3

\* A line that stays remains above all lines that are clear.
LEMMA StaysAbove ==
    ASSUME NEW n \in Nat, NEW m \in Nat, NEW es, InSequence(es, m, n), NEW t \in Int
    PROVE  \A k \in 0..m : \A u \in Int :
              Stays(es, k, t) /\ Clear(es, k, u) /\ t < u => t + Shift(es, k, t) < u + Added(es, k)
<1> DEFINE Good(k) == \A u \in Int : Stays(es, k, t) /\ Clear(es, k, u) /\ t < u
                                       => t + Shift(es, k, t) < u + Added(es, k)
           P == {k \in 0..m : Good(k)}
<1>1. 0 \in P
  BY AddedUp, ShiftUp
<1>2. ASSUME NEW k \in 1..m, k - 1 \in P PROVE k \in P
  <2> SUFFICES ASSUME NEW u \in Int, Stays(es, k, t), Clear(es, k, u), t < u
               PROVE  t + Shift(es, k, t) < u + Added(es, k)
    OBVIOUS
  <2>1. Stays(es, k - 1, t)
    BY DEF Stays
  <2>2. \A v \in Int : Clear(es, k - 1, v) /\ t < v => t + Shift(es, k - 1, t) < v + Added(es, k - 1)
    BY <1>2, <2>1
  <2> HIDE DEF P
  <2> DEFINE F == From(es[k])
             C == Count(es[k])
             N == computeSingleEditNetDelta(es[k])
             L == Len(NewLines(es[k]))
             before == Shift(es, k - 1, t)
             added == Added(es, k - 1)
  <2>3. /\ es[k] \in LineEdit /\ WellPlaced(es[k], n)
        /\ es[k].line \in 1..n /\ F \in 1..(n + 1) /\ C \in Nat /\ es[k].line <= F
        /\ L \in Nat /\ N = L - C /\ TakenLines(es[k]) = F..(F + C - 1)
        /\ added \in Int /\ Added(es, k) = added + N
        /\ Clear(es, k - 1, es[k].line)
    BY Terms
  <2>4. before \in Int /\ Shift(es, k, t) = before + ShiftOf(es[k], t) /\ F + C <= u
    <3>1. before \in Int /\ Shift(es, k, t) = before + ShiftOf(es[k], t)
      BY TermsAt
    <3>2. F + C <= u
      BY TermsAt
    <3> QED BY <3>1, <3>2
  <2>5. /\ t < F => ShiftOf(es[k], t) = 0
        /\ t >= F + C => ShiftOf(es[k], t) = N
        /\ es[k].action = "replace" /\ t = es[k].line => ShiftOf(es[k], t) = 0
    BY <2>3, ShiftAround
  <2>6. t = es[k].line => before = added
    BY <2>3, ClearShift
  <2>7. F <= t /\ t < F + C => es[k].action = "replace" /\ t = es[k].line /\ es[k].new >= 1
    <3>1. F <= t /\ t < F + C => t \in TakenLines(es[k])
      <4> HIDE DEF F, C
      <4> QED BY <2>3
    <3> QED BY <3>1 DEF Stays
  <2>8. es[k].action = "replace" => L = es[k].new /\ F = es[k].line
    BY <2>3, ContentIsText DEF From
  <2>9. Clear(es, k - 1, F) /\ Clear(es, k - 1, u)
    <3>1. es[k].line <= F /\ es[k].line <= u /\ F \in Int /\ es[k].line \in Int /\ k - 1 \in 0..m
      <4> HIDE DEF F, C
      <4> QED BY <2>3, <2>4
    <3> HIDE DEF F
    <3> QED BY <2>3, <3>1, ClearDown
  <2> HIDE DEF F, C, N, L, before, added
  <2>10. t < F => t + before < F + added
    BY <2>2, <2>3, <2>9 DEF before, added
  <2>11. t + before < u + added
    BY <2>2, <2>9 DEF before, added
  <2>12. CASE t < F
    BY <2>3, <2>4, <2>5, <2>10, <2>12
  <2>13. CASE t >= F + C
    BY <2>3, <2>4, <2>5, <2>11, <2>13
  <2>14. CASE F <= t /\ t < F + C
    <3>1. t = F /\ L >= 1 /\ ShiftOf(es[k], t) = 0 /\ before = added
      BY <2>5, <2>6, <2>7, <2>8, <2>14
    <3> QED BY <2>3, <2>4, <3>1
  <2> QED BY <2>3, <2>12, <2>13, <2>14
<1>3. \A k \in 0..m : k \in P
  <2> HIDE DEF P
  <2> QED BY <1>1, <1>2, CountingTo
<1> QED BY <1>3

\* The k-th edit, as it is applied.
LEMMA StepEdit ==
    ASSUME NEW n \in Nat, NEW m \in Nat, NEW es, InSequence(es, m, n), NEW k \in 1..m
    PROVE  LET r == MovedBy(es[k], Added(es, k - 1)) IN
           /\ r \in LineEdit /\ n + Added(es, k - 1) \in Nat /\ WellPlaced(r, n + Added(es, k - 1))
           /\ r.action = es[k].action /\ r.id = es[k].id /\ r.new = es[k].new /\ r.dest = 0
           /\ r.line = es[k].line + Added(es, k - 1)
           /\ r.end = (IF es[k].end = 0 THEN 0 ELSE es[k].end + Added(es, k - 1))
           /\ effectiveLineSpanCount(r) = effectiveLineSpanCount(es[k])
           /\ computeSingleEditNetDelta(r) = computeSingleEditNetDelta(es[k])
           /\ From(r) = From(es[k]) + Added(es, k - 1) /\ Count(r) = Count(es[k])
           /\ NewLines(r) = NewLines(es[k])
<1>1. es[k] \in LineEdit /\ WellPlaced(es[k], n) /\ Added(es, k - 1) \in Int
  BY Terms
<1>2. es[k].line + Added(es, k - 1) >= 1
  BY SequenceAbove
<1> QED BY <1>1, <1>2, MovedEdit

\* What such an edit makes of a text.
LEMMA EditedBy ==
    ASSUME NEW h \in Texts, NEW r \in LineEdit, WellPlaced(r, Len(h)), NEW F, F = From(r), NEW C, C = Count(r),
           NEW N, N = computeSingleEditNetDelta(r)
    PROVE  LET g == ApplyEdit(r, 0, h) IN
           /\ g \in Texts /\ Len(g) = Len(h) + N
           /\ \A t \in 1..(F - 1) : t \in 1..Len(g) /\ g[t] = h[t]
           /\ \A i \in 1..Len(NewLines(r)) : F - 1 + i \in 1..Len(g) /\ g[F - 1 + i] = NewLines(r)[i]
           /\ \A t \in (F + C)..Len(h) : t + N \in 1..Len(g) /\ g[t + N] = h[t]
<1>1. NewLines(r) \in Seq(Nat \X Nat) /\ h \in Seq(Nat \X Nat)
  BY ContentIsText DEF Texts
<1> DEFINE g == ApplyEdit(r, 0, h)
<1>2. /\ g \in Seq(Nat \X Nat) /\ Len(g) = Len(h) + computeSingleEditNetDelta(r)
      /\ \A t \in 1..(From(r) - 1) : t \in 1..Len(g) /\ g[t] = h[t]
      /\ \A i \in 1..Len(NewLines(r)) : From(r) - 1 + i \in 1..Len(g) /\ g[From(r) - 1 + i] = NewLines(r)[i]
      /\ \A t \in (From(r) + Count(r))..Len(h) :
            t + computeSingleEditNetDelta(r) \in 1..Len(g) /\ g[t + computeSingleEditNetDelta(r)] = h[t]
  BY <1>1, EditedText
<1> HIDE DEF g
<1>3. g \in Texts
  BY <1>2 DEF Texts
<1> QED BY <1>2, <1>3 DEF g

Running(es, m, f, g) ==
    /\ g[0] = f
    /\ \A i \in 1..m : g[i] = ApplyEdit(MovedBy(es[i], Added(es, i - 1)), 0, g[i - 1])

\* After k edits of a step, the text below them is as it was, further down.
LEMMA TextBelow ==
    ASSUME NEW n \in Nat, NEW m \in Nat, NEW es, InSequence(es, m, n),
           NEW f \in Texts, Len(f) = n, NEW g, Running(es, m, f, g)
    PROVE  \A k \in 0..m :
              /\ g[k] \in Texts /\ Len(g[k]) = n + Added(es, k)
              /\ \A u \in 1..n : Clear(es, k, u) =>
                    u + Added(es, k) \in 1..Len(g[k]) /\ g[k][u + Added(es, k)] = f[u]
<1> DEFINE Good(k) == /\ g[k] \in Texts /\ Len(g[k]) = n + Added(es, k)
                      /\ \A u \in 1..n : Clear(es, k, u) =>
                            u + Added(es, k) \in 1..Len(g[k]) /\ g[k][u + Added(es, k)] = f[u]
           P == {k \in 0..m : Good(k)}
<1>1. 0 \in P
  <2>1. Added(es, 0) = 0 /\ g[0] = f
    BY AddedUp DEF Running
  <2>2. Good(0)
    BY <2>1
  <2> QED BY <2>2
<1>2. ASSUME NEW k \in 1..m, k - 1 \in P PROVE k \in P
  <2> DEFINE r == MovedBy(es[k], Added(es, k - 1))
             F == From(es[k])
             C == Count(es[k])
             N == computeSingleEditNetDelta(es[k])
             added == Added(es, k - 1)
             h == g[k - 1]
  <2>1. /\ h \in Texts /\ Len(h) = n + added
        /\ \A u \in 1..n : Clear(es, k - 1, u) => u + added \in 1..Len(h) /\ h[u + added] = f[u]
    BY <1>2
  <2>2. /\ es[k] \in LineEdit /\ es[k].line \in 1..n /\ F \in 1..(n + 1) /\ C \in Nat /\ es[k].line <= F
        /\ added \in Int /\ Added(es, k) = added + N /\ N \in Int
        /\ Clear(es, k - 1, es[k].line)
    BY Terms
  <2>3. /\ r \in LineEdit /\ WellPlaced(r, Len(h)) /\ computeSingleEditNetDelta(r) = N
        /\ From(r) = F + added /\ Count(r) = C
    <3> HIDE DEF h
    <3> QED BY <2>1, StepEdit
  <2>4. g[k] = ApplyEdit(r, 0, h)
    BY DEF Running
  <2>5. NewLines(r) \in Texts
    BY <2>3, ContentIsText
  <2> HIDE DEF r, F, C, N, added, h, P
  <2>6. /\ g[k] \in Texts /\ Len(g[k]) = Len(h) + N
        /\ \A t \in (F + added + C)..Len(h) : t + N \in 1..Len(g[k]) /\ g[k][t + N] = h[t]
    <3> DEFINE G == F + added
    <3>1. G = From(r) /\ C = Count(r) /\ N = computeSingleEditNetDelta(r)
      BY <2>3
    <3> HIDE DEF G
    <3>2. /\ ApplyEdit(r, 0, h) \in Texts /\ Len(ApplyEdit(r, 0, h)) = Len(h) + N
          /\ \A t \in (G + C)..Len(h) :
                t + N \in 1..Len(ApplyEdit(r, 0, h)) /\ ApplyEdit(r, 0, h)[t + N] = h[t]
      BY <2>1, <2>3, <3>1, EditedBy
    <3> QED BY <2>4, <3>2 DEF G
  <2>7. ASSUME NEW u \in 1..n, Clear(es, k, u)
        PROVE  u + Added(es, k) \in 1..Len(g[k]) /\ g[k][u + Added(es, k)] = f[u]
    <3>1. F + C <= u
      BY <2>7, TermsAt DEF F, C
    <3>2. es[k].line <= u /\ k - 1 \in 0..m
      BY <2>2, <3>1
    <3>3. Clear(es, k - 1, u)
      BY <2>2, <3>2, ClearDown
    <3>4. u + added \in 1..Len(h) /\ h[u + added] = f[u]
      BY <2>1, <3>3
    <3>5. u + added \in (F + added + C)..Len(h)
      BY <2>2, <3>1, <3>4
    <3>6. (u + added) + N = u + Added(es, k)
      BY <2>2
    <3> QED BY <2>6, <3>4, <3>5, <3>6
  <2>8. Len(g[k]) = n + Added(es, k)
    BY <2>1, <2>2, <2>6
  <2> QED BY <2>6, <2>7, <2>8 DEF P
<1>3. \A k \in 0..m : k \in P
  <2> HIDE DEF P
  <2> QED BY <1>1, <1>2, CountingTo
<1> QED BY <1>3

\* A line that stays is where all the shifts together put it, or what
\* replaces it begins there.
LEMMA LinesStay ==
    ASSUME NEW n \in Nat, NEW m \in Nat, NEW es, InSequence(es, m, n),
           NEW f \in Texts, n = Len(f), NEW g, Running(es, m, f, g), NEW t \in 1..n
    PROVE  Stays(es, m, t) =>
              LET now == t + Shift(es, m, t) IN
              /\ now \in 1..Len(g[m])
              /\ (\A j \in 1..m : t \notin TakenLines(es[j])) => g[m][now] = f[t]
              /\ \A j \in 1..m : t \in TakenLines(es[j]) => g[m][now] = <<es[j].id, 1>>
<1> DEFINE now(k) == t + Shift(es, k, t)
           Free(k) == \A j \in 1..k : t \notin TakenLines(es[j])
           Good(k) == Stays(es, k, t) =>
                        /\ now(k) \in 1..Len(g[k])
                        /\ Free(k) => g[k][now(k)] = f[t]
                        /\ \A j \in 1..k : t \in TakenLines(es[j]) => g[k][now(k)] = <<es[j].id, 1>>
           P == {k \in 0..m : Good(k)}
<1>1. 0 \in P
  <2>1. Shift(es, 0, t) = 0 /\ g[0] = f
    BY ShiftUp DEF Running
  <2>2. Good(0)
    BY <2>1
  <2> QED BY <2>2
<1>2. ASSUME NEW k \in 1..m, k - 1 \in P PROVE k \in P
  <2> SUFFICES ASSUME Stays(es, k, t)
               PROVE  /\ now(k) \in 1..Len(g[k])
                      /\ Free(k) => g[k][now(k)] = f[t]
                      /\ \A j \in 1..k : t \in TakenLines(es[j]) => g[k][now(k)] = <<es[j].id, 1>>
    OBVIOUS
  <2> DEFINE r == MovedBy(es[k], Added(es, k - 1))
             F == From(es[k])
             C == Count(es[k])
             N == computeSingleEditNetDelta(es[k])
             added == Added(es, k - 1)
             before == Shift(es, k - 1, t)
             shift == ShiftOf(es[k], t)
             h == g[k - 1]
  <2>1. Stays(es, k - 1, t)
    BY DEF Stays
  <2>2. /\ t + before \in 1..Len(h)
        /\ Free(k - 1) => h[t + before] = f[t]
        /\ \A j \in 1..(k - 1) : t \in TakenLines(es[j]) => h[t + before] = <<es[j].id, 1>>
    BY <1>2, <2>1
  <2> HIDE DEF P
  <2>3. h \in Texts /\ Len(h) = n + added
    <3>1. k - 1 \in 0..m
      OBVIOUS
    <3> QED BY <3>1, TextBelow
  <2>4. /\ es[k] \in LineEdit /\ WellPlaced(es[k], n)
        /\ es[k].line \in 1..n /\ F \in 1..(n + 1) /\ C \in Nat /\ es[k].line <= F
        /\ TakenLines(es[k]) = F..(F + C - 1)
        /\ added \in Int /\ N \in Int /\ Clear(es, k - 1, es[k].line)
    <3>1. /\ es[k] \in LineEdit /\ WellPlaced(es[k], n)
          /\ es[k].line \in 1..n /\ es[k].line <= From(es[k]) /\ Clear(es, k - 1, es[k].line)
      BY Terms
    <3>2. From(es[k]) \in 1..(n + 1) /\ Count(es[k]) \in Nat
          /\ TakenLines(es[k]) = From(es[k])..(From(es[k]) + Count(es[k]) - 1)
      BY Terms
    <3>3. Added(es, k - 1) \in Int /\ computeSingleEditNetDelta(es[k]) \in Int
      BY Terms
    <3> QED BY <3>1, <3>2, <3>3
  <2>5. before \in Int /\ now(k) = t + (before + shift)
    BY TermsAt
  <2>6. /\ t < F => shift = 0
        /\ t >= F + C => shift = N
        /\ es[k].action = "replace" /\ t = es[k].line => shift = 0
    BY <2>4, ShiftAround
  <2>7. /\ r \in LineEdit /\ WellPlaced(r, Len(h)) /\ computeSingleEditNetDelta(r) = N
        /\ From(r) = F + added /\ Count(r) = C /\ r.id = es[k].id /\ r.action = es[k].action /\ r.new = es[k].new
    <3> HIDE DEF h
    <3> QED BY <2>3, StepEdit
  <2>8. g[k] = ApplyEdit(r, 0, h)
    BY DEF Running
  <2>9. /\ NewLines(r) \in Texts
        /\ r.action # "delete" => Len(NewLines(r)) = r.new /\ \A i \in 1..r.new : NewLines(r)[i] = <<r.id, i>>
    BY <2>7, ContentIsText
  <2>10. Clear(es, k - 1, F) /\ (es[k].line <= t => Clear(es, k - 1, t))
    <3>1. k - 1 \in 0..m /\ F \in Int /\ es[k].line \in Int
      BY <2>4
    <3> HIDE DEF F
    <3> QED BY <2>4, <3>1, ClearDown
  <2>11. es[k].line <= t => before = added
    <3>1. k - 1 \in 0..m /\ t \in Int
      OBVIOUS
    <3>2. Clear(es, k - 1, t) => Shift(es, k - 1, t) = Added(es, k - 1)
      BY <3>1, ClearShift
    <3> QED BY <2>10, <3>2
  <2>12. t < F => t + before < F + added
    <3>1. k - 1 \in 0..m /\ F \in Int
      BY <2>4
    <3> HIDE DEF F
    <3> QED BY <2>1, <2>10, <3>1, StaysAbove
  <2>13. \A j \in 1..k : j = k \/ j \in 1..(k - 1)
    OBVIOUS
  <2> HIDE DEF r, F, C, N, added, before, h, shift, now
  <2>14. /\ \A q \in 1..((F + added) - 1) : q \in 1..Len(g[k]) /\ g[k][q] = h[q]
         /\ \A i \in 1..Len(NewLines(r)) :
               (F + added) - 1 + i \in 1..Len(g[k]) /\ g[k][(F + added) - 1 + i] = NewLines(r)[i]
         /\ \A q \in (F + added + C)..Len(h) : q + N \in 1..Len(g[k]) /\ g[k][q + N] = h[q]
    <3> DEFINE G == F + added
    <3>1. G = From(r) /\ C = Count(r) /\ N = computeSingleEditNetDelta(r)
      BY <2>7
    <3> HIDE DEF G
    <3>2. LET x == ApplyEdit(r, 0, h) IN
          /\ x \in Texts /\ Len(x) = Len(h) + N
          /\ \A q \in 1..(G - 1) : q \in 1..Len(x) /\ x[q] = h[q]
          /\ \A i \in 1..Len(NewLines(r)) : G - 1 + i \in 1..Len(x) /\ x[G - 1 + i] = NewLines(r)[i]
          /\ \A q \in (G + C)..Len(h) : q + N \in 1..Len(x) /\ x[q + N] = h[q]
      BY <2>3, <2>7, <3>1, EditedBy
    <3>3. g[k] \in Texts
          /\ (\A q \in 1..(G - 1) : q \in 1..Len(g[k]) /\ g[k][q] = h[q])
          /\ (\A i \in 1..Len(NewLines(r)) : G - 1 + i \in 1..Len(g[k]) /\ g[k][G - 1 + i] = NewLines(r)[i])
          /\ (\A q \in (G + C)..Len(h) : q + N \in 1..Len(g[k]) /\ g[k][q + N] = h[q])
      BY <2>8, <3>2, Zenon
    <3> QED BY <3>3 DEF G
  <2>15. CASE t \notin TakenLines(es[k])
    <3>1. now(k) \in 1..Len(g[k]) /\ g[k][now(k)] = h[t + before]
      <4>1. t < F \/ t >= F + C
        BY <2>4, <2>15
      <4>2. CASE t < F
        <5>1. t + before \in 1..((F + added) - 1) /\ now(k) = t + before
          BY <2>2, <2>4, <2>5, <2>6, <2>12, <4>2
        <5> QED BY <2>14, <5>1
      <4>3. CASE t >= F + C
        <5>1. es[k].line <= t
          BY <2>4, <4>3
        <5>2. t + before \in (F + added + C)..Len(h) /\ now(k) = t + before + N
          BY <2>2, <2>4, <2>5, <2>6, <2>11, <4>3, <5>1
        <5> QED BY <2>14, <5>2
      <4> QED BY <4>1, <4>2, <4>3
    <3>2. Free(k) => Free(k - 1)
      BY <2>13
    <3>3. ASSUME NEW j \in 1..k, t \in TakenLines(es[j]) PROVE g[k][now(k)] = <<es[j].id, 1>>
      <4>1. j \in 1..(k - 1)
        BY <2>13, <2>15, <3>3
      <4> QED BY <2>2, <3>1, <3>3, <4>1
    <3> QED BY <2>2, <3>1, <3>2, <3>3
  <2>16. CASE t \in TakenLines(es[k])
    <3>1. es[k].action = "replace" /\ t = es[k].line /\ es[k].new >= 1
      BY <2>16 DEF Stays
    <3>2. F = t /\ before = added /\ shift = 0 /\ now(k) = (F + added) - 1 + 1
      <4>1. F = es[k].line
        BY <3>1 DEF F, From
      <4>2. before = added /\ shift = 0
        BY <2>4, <2>6, <2>11, <3>1
      <4>3. t \in Int /\ added \in Int
        BY <2>4
      <4> QED BY <2>5, <3>1, <4>1, <4>2, <4>3
    <3>3. 1 \in 1..Len(NewLines(r)) /\ NewLines(r)[1] = <<es[k].id, 1>>
      <4>1. es[k].new \in Nat
        BY <2>4 DEF LineEdit
      <4> QED BY <2>7, <2>9, <3>1, <4>1
    <3>4. now(k) \in 1..Len(g[k]) /\ g[k][now(k)] = <<es[k].id, 1>>
      BY <2>14, <3>2, <3>3
    <3>5. ASSUME NEW j \in 1..(k - 1) PROVE t \notin TakenLines(es[j])
      <4>1. j \in 1..m
        OBVIOUS
      <4>2. From(es[j]) + Count(es[j]) <= t /\ From(es[j]) \in 1..(n + 1) /\ Count(es[j]) \in Nat
            /\ TakenLines(es[j]) = From(es[j])..(From(es[j]) + Count(es[j]) - 1)
        <5>1. From(es[j]) \in 1..(n + 1) /\ Count(es[j]) \in Nat
              /\ TakenLines(es[j]) = From(es[j])..(From(es[j]) + Count(es[j]) - 1)
          BY <4>1, Terms
        <5>2. From(es[j]) + Count(es[j]) <= t
          BY <2>4, <3>1 DEF Clear
        <5> QED BY <5>1, <5>2
      <4> QED BY <4>2
    <3>6. ~Free(k)
      BY <2>16
    <3>7. ASSUME NEW j \in 1..k, t \in TakenLines(es[j]) PROVE g[k][now(k)] = <<es[j].id, 1>>
      BY <2>13, <3>4, <3>5, <3>7
    <3> QED BY <3>4, <3>6, <3>7
  <2> QED BY <2>15, <2>16
<1>3. \A k \in 0..m : k \in P
  <2> HIDE DEF P
  <2> QED BY <1>1, <1>2, CountingTo
<1>4. Good(m)
  <2>1. m \in 0..m
    OBVIOUS
  <2> HIDE DEF Good
  <2> QED BY <1>3, <2>1
<1> QED BY <1>4 DEF now

(***************************************************************************)
(* The shifts a step reports.                                              *)
(***************************************************************************)
\* FlattenSeq, one sequence after the other.
LEMMA FlattenRuns ==
    ASSUME NEW seqs, NEW m \in Nat \ {0}, Len(seqs) = m
    PROVE  \E g : /\ FlattenSeq(seqs) = g[m] /\ g[1] = seqs[1]
                  /\ \A i \in 2..m : g[i] = g[i - 1] \o seqs[i]
<1> DEFINE Body(g, i) == IF i = 1 THEN seqs[i] ELSE g[i-1] \o seqs[i]
           Good(k) == \E g : g = [i \in 1..k |-> Body(g, i)]
           P == {k \in Nat : Good(k)}
<1>1. Good(0)
  <2> DEFINE g == [i \in 1..0 |-> seqs]
  <2>1. g = [i \in 1..0 |-> Body(g, i)]
    OBVIOUS
  <2> QED BY <2>1
<1>2. ASSUME NEW k \in Nat, Good(k) PROVE Good(k + 1)
  <2>1. PICK g : g = [i \in 1..k |-> Body(g, i)]
    BY <1>2
  <2> DEFINE h == [i \in 1..(k + 1) |-> Body(g, i)]
  <2>2. \A i \in 1..k : i \in 1..(k + 1)
    OBVIOUS
  <2>3. \A i \in 1..(k + 1) : i # 1 => i - 1 \in 1..k
    OBVIOUS
  <2>4. \A i \in 1..k : h[i] = g[i]
    <3> HIDE DEF Body
    <3> QED BY <2>1, <2>2
  <2>5. \A i \in 1..(k + 1) : Body(g, i) = Body(h, i)
    <3> HIDE DEF h
    <3> QED BY <2>3, <2>4
  <2>6. h = [i \in 1..(k + 1) |-> Body(h, i)]
    <3>1. [i \in 1..(k + 1) |-> Body(g, i)] = [i \in 1..(k + 1) |-> Body(h, i)]
      <4> HIDE DEF Body, h
      <4> QED BY <2>5, Zenon
    <3> QED BY <3>1
  <2> QED BY <2>6
<1> HIDE DEF Good
<1>3. 0 \in P /\ \A k \in Nat : k \in P => k + 1 \in P
  BY <1>1, <1>2
<1>4. \A k \in Nat : k \in P
  <2> HIDE DEF P
  <2> QED BY <1>3, CountingUp
<1>5. Good(m)
  BY <1>4
<1> DEFINE chosen == CHOOSE g : g = [i \in 1..m |-> Body(g, i)]
<1>6. FlattenSeq(seqs) = chosen[m]
  BY DEF FlattenSeq
<1>7. chosen = [i \in 1..m |-> Body(chosen, i)]
  BY <1>5 DEF Good
<1> HIDE DEF chosen
<1>8. \A i \in 1..m : chosen[i] = Body(chosen, i)
  <2> HIDE DEF Body
  <2> QED BY <1>7
<1>9. 1 \in 1..m /\ \A i \in 2..m : i \in 1..m /\ i # 1
  OBVIOUS
<1> QED BY <1>6, <1>8, <1>9

\* Nothing before or after a sequence.
LEMMA ConcatNone ==
    ASSUME NEW T, NEW s \in Seq(T)
    PROVE  << >> \o s = s /\ s \o << >> = s
<1>1. \A i \in 1..Len(s) : (<< >> \o s)[i] = s[i]
  OBVIOUS
<1>2. << >> \o s \in Seq(T) /\ Len(<< >> \o s) = Len(s)
  OBVIOUS
<1>3. << >> \o s = s
  BY <1>1, <1>2
<1> QED BY <1>3

Deltas == [line : Int, delta : Int, lineInclusive : BOOLEAN]
Value(d, t) == IF Applies(d, t) THEN d.delta ELSE 0
Total(ds, t) == SumFunction([k \in DOMAIN ds |-> Value(ds[k], t)])

\* The sum of shifts, one by one.
LEMMA TotalUp ==
    ASSUME NEW t \in Int
    PROVE  /\ Total(<< >>, t) = 0
           /\ \A ds \in Seq(Deltas) : Total(ds, t) \in Int
           /\ \A ds \in Seq(Deltas) : \A d \in Deltas : Total(ds \o <<d>>, t) = Total(ds, t) + Value(d, t)
<1> DEFINE h(ds) == [k \in DOMAIN ds |-> Value(ds[k], t)]
<1>1. \A d \in Deltas : Value(d, t) \in Int
  BY DEF Value, Deltas
<1>2. Total(<< >>, t) = 0
  <2>1. DOMAIN h(<< >>) = {}
    OBVIOUS
  <2> HIDE DEF h
  <2>2. SumFunction(h(<< >>)) = 0
    BY <2>1, SumOfNone
  <2> QED BY <2>2 DEF Total, h
<1>3. ASSUME NEW ds \in Seq(Deltas) PROVE Total(ds, t) \in Int
  <2>1. h(ds) \in [1..Len(ds) -> Int] /\ IsFiniteSet(1..Len(ds))
    BY <1>1, FS_Interval
  <2> HIDE DEF h
  <2>2. SumFunction(h(ds)) \in Int
    BY <2>1, SumIsInt
  <2> QED BY <2>2 DEF Total, h
<1>4. ASSUME NEW ds \in Seq(Deltas), NEW d \in Deltas
      PROVE  Total(ds \o <<d>>, t) = Total(ds, t) + Value(d, t)
  <2> DEFINE n == Len(ds)
             es == ds \o <<d>>
  <2>1. n \in Nat /\ DOMAIN ds = 1..n /\ es \in Seq(Deltas) /\ Len(es) = n + 1 /\ DOMAIN es = 1..(n + 1)
        /\ (\A k \in 1..n : es[k] = ds[k] /\ ds[k] \in Deltas) /\ es[n + 1] = d
    OBVIOUS
  <2> HIDE DEF n, es
  <2>2. h(es) \in [1..(n + 1) -> Int] /\ h(ds) \in [1..n -> Int]
        /\ (\A k \in 1..n : h(ds)[k] = h(es)[k]) /\ h(es)[n + 1] = Value(d, t)
    <3>1. \A k \in 1..(n + 1) : es[k] \in Deltas
      BY <2>1
    <3> HIDE DEF Value
    <3> QED BY <1>1, <2>1, <3>1
  <2> HIDE DEF h
  <2>3. SumFunction(h(es)) = SumFunction(h(ds)) + h(es)[n + 1]
    BY <2>1, <2>2, SumsUp
  <2> QED BY <2>2, <2>3 DEF Total, h, es
<1> QED BY <1>2, <1>3, <1>4

\* The shift that edit e of a step reports.
Reported(e) ==
    IF computeSingleEditNetDelta(e) # 0
    THEN <<[line |-> e.line, delta |-> computeSingleEditNetDelta(e), lineInclusive |-> e.action = "insert_before"]>>
    ELSE << >>

\* All the shifts that a step reports move a line as its edits together do.
LEMMA ReportedShifts ==
    ASSUME NEW n \in Nat, NEW m \in Nat \ {0}, NEW es, InSequence(es, m, n), NEW t \in Int
    PROVE  Shifted(t, FlattenSeq([i \in 1..m |-> Reported(es[i])])) = t + Shift(es, m, t)
<1> DEFINE seqs == [i \in 1..m |-> Reported(es[i])]
<1>1. Len(seqs) = m /\ \A i \in 1..m : seqs[i] = Reported(es[i])
  OBVIOUS
<1> HIDE DEF seqs
<1>2. PICK g : /\ FlattenSeq(seqs) = g[m] /\ g[1] = seqs[1]
               /\ \A i \in 2..m : g[i] = g[i - 1] \o seqs[i]
  BY <1>1, FlattenRuns
\* An edit reports the shift that its own step reckons with.
<1>3. ASSUME NEW k \in 1..m, NEW ds \in Seq(Deltas)
      PROVE  ds \o Reported(es[k]) \in Seq(Deltas)
             /\ Total(ds \o Reported(es[k]), t) = Total(ds, t) + ShiftOf(es[k], t)
  <2> DEFINE e == es[k]
             net == computeSingleEditNetDelta(e)
             d == [line |-> e.line, delta |-> net, lineInclusive |-> e.action = "insert_before"]
  <2>1. net \in Int /\ e.line \in 1..n /\ WellPlaced(e, n) /\ Total(ds, t) \in Int
    BY Terms, TotalUp
  <2>2. ShiftOf(e, t) = IF e.line < t \/ (e.line = t /\ e.action = "insert_before") THEN net ELSE 0
    <3>1. CASE e.action = "insert_before"
      BY <2>1, <3>1 DEF ShiftOf, intraStepShiftFromEdit
    <3>2. CASE e.action \in {"insert_after", "delete", "replace"}
      BY <2>1, <3>2 DEF ShiftOf, intraStepShiftFromEdit
    <3> QED BY <2>1, <3>1, <3>2 DEF WellPlaced
  <2> HIDE DEF net
  <2>3. CASE net = 0
    <3>1. Reported(e) = << >>
      BY <2>3 DEF Reported, net
    <3>2. ds \o << >> = ds
      OBVIOUS
    <3>3. ShiftOf(e, t) = 0
      BY <2>2, <2>3
    <3> QED BY <2>1, <3>1, <3>2, <3>3
  <2>4. CASE net # 0
    <3>1. Reported(e) = <<d>>
      BY <2>4 DEF Reported, net
    <3>2. d \in Deltas
      BY <2>1 DEF Deltas
    <3>3. Value(d, t) = ShiftOf(e, t)
      <4>1. d.line = e.line /\ d.delta = net /\ d.lineInclusive = (e.action = "insert_before")
        OBVIOUS
      <4> HIDE DEF d
      <4>2. Applies(d, t) <=> e.line < t \/ (e.line = t /\ e.action = "insert_before")
        <5>1. CASE e.action = "insert_before"
          <6>1. d.lineInclusive
            BY <4>1, <5>1
          <6> QED BY <2>1, <4>1, <5>1, <6>1 DEF Applies
        <5>2. CASE e.action # "insert_before"
          <6>1. ~d.lineInclusive
            BY <4>1, <5>2
          <6> QED BY <2>1, <4>1, <5>2, <6>1 DEF Applies
        <5> QED BY <5>1, <5>2
      <4> QED BY <2>2, <4>1, <4>2 DEF Value
    <3> HIDE DEF d
    <3>4. ds \o <<d>> \in Seq(Deltas)
      BY <3>2
    <3>5. Total(ds \o <<d>>, t) = Total(ds, t) + Value(d, t)
      BY <3>2, TotalUp
    <3> QED BY <3>1, <3>3, <3>4, <3>5
  <2> QED BY <2>3, <2>4
<1> DEFINE Good(k) == g[k] \in Seq(Deltas) /\ Total(g[k], t) = Shift(es, k, t)
           P == {k \in 0..m : k = 0 \/ Good(k)}
<1>4. ASSUME NEW k \in 1..m, k - 1 \in P PROVE k \in P
  <2>1. Shift(es, k, t) = Shift(es, k - 1, t) + ShiftOf(es[k], t) /\ Shift(es, k - 1, t) \in Int
    BY TermsAt
  <2>2. CASE k = 1
    <3>1. Shift(es, k - 1, t) = 0
      BY <2>2, ShiftUp
    <3>2. << >> \in Seq(Deltas) /\ Total(<< >>, t) = 0
      BY TotalUp
    <3>3. Reported(es[k]) = << >> \o Reported(es[k])
      <4>1. Reported(es[k]) \in Seq(Deltas)
        <5>1. es[k].line \in 1..n /\ computeSingleEditNetDelta(es[k]) \in Int
          BY Terms
        <5> DEFINE d == [line |-> es[k].line, delta |-> computeSingleEditNetDelta(es[k]),
                         lineInclusive |-> es[k].action = "insert_before"]
        <5>2. d \in Deltas
          BY <5>1 DEF Deltas
        <5>3. Reported(es[k]) = << >> \/ Reported(es[k]) = <<d>>
          BY DEF Reported
        <5> HIDE DEF d
        <5>4. << >> \in Seq(Deltas) /\ <<d>> \in Seq(Deltas)
          BY <5>2
        <5> QED BY <5>3, <5>4
      <4> QED BY <4>1, ConcatNone
    <3>4. g[k] = Reported(es[k])
      BY <1>1, <1>2, <2>2
    <3>5. << >> \o Reported(es[k]) \in Seq(Deltas)
          /\ Total(<< >> \o Reported(es[k]), t) = 0 + ShiftOf(es[k], t)
      BY <1>3, <3>2
    <3>6. Good(k)
      BY <2>1, <3>1, <3>3, <3>4, <3>5
    <3> QED BY <3>6
  <2>3. CASE k # 1
    <3>1. k \in 2..m /\ k - 1 # 0
      BY <2>3
    <3>2. Good(k - 1)
      BY <1>4, <3>1
    <3>3. g[k] = g[k - 1] \o Reported(es[k])
      BY <1>1, <1>2, <3>1
    <3>4. g[k - 1] \o Reported(es[k]) \in Seq(Deltas)
          /\ Total(g[k - 1] \o Reported(es[k]), t) = Total(g[k - 1], t) + ShiftOf(es[k], t)
      BY <1>3, <3>2
    <3>5. Good(k)
      BY <2>1, <3>2, <3>3, <3>4
    <3> QED BY <3>5
  <2> QED BY <2>2, <2>3
<1>5. 0 \in P
  OBVIOUS
<1>6. \A k \in 0..m : k \in P
  <2> HIDE DEF P
  <2> QED BY <1>4, <1>5, CountingTo
<1>7. Good(m)
  BY <1>6
<1>8. Shifted(t, g[m]) = t + Total(g[m], t)
  BY DEF Shifted, Total, Value
<1> QED BY <1>2, <1>7, <1>8 DEF seqs

\* What the backend reports fills in the end of an edit that names one line only.
LEMMA Backfilled ==
    ASSUME NEW n \in Nat, NEW e \in LineEdit, WellPlaced(e, n), NEW span \in Nat, span = effectiveLineSpanCount(e)
    PROVE  e.end = 0 => /\ [e EXCEPT !.end = e.line + span - 1].action = e.action
                        /\ [e EXCEPT !.end = e.line + span - 1].line = e.line
                        /\ computeSingleEditNetDelta([e EXCEPT !.end = e.line + span - 1])
                             = computeSingleEditNetDelta(e)
<1> SUFFICES ASSUME e.end = 0
             PROVE  /\ [e EXCEPT !.end = e.line + span - 1].action = e.action
                    /\ [e EXCEPT !.end = e.line + span - 1].line = e.line
                    /\ computeSingleEditNetDelta([e EXCEPT !.end = e.line + span - 1])
                         = computeSingleEditNetDelta(e)
  OBVIOUS
<1> DEFINE b == [e EXCEPT !.end = e.line + span - 1]
<1>1. span = 1 /\ e.line \in 1..n
  BY DEF effectiveLineSpanCount, WellPlaced
<1>2. b.action = e.action /\ b.line = e.line /\ b.new = e.new /\ b.end = e.line + span - 1
  BY DEF LineEdit
<1> HIDE DEF b
<1>3. b.end = b.line
  BY <1>1, <1>2
<1>4. effectiveLineSpanCount(b) = 1
  BY <1>1, <1>2, <1>3 DEF effectiveLineSpanCount, AtLeast
<1>5. effectiveLineSpanCount(b) = effectiveLineSpanCount(e)
  BY <1>1, <1>4
<1>6. computeSingleEditNetDelta(b) = computeSingleEditNetDelta(e)
  BY <1>2, <1>5 DEF computeSingleEditNetDelta
<1> QED BY <1>2, <1>6 DEF b

\* What a finished step reports (computePositionalDeltas, after backfillLinesFromResolved) moves
\* any line number of the file before the step as the edits of the step together do.
THEOREM StepDeltas ==
    ASSUME NEW n \in Nat, NEW m \in Nat \ {0}, NEW es, InSequence(es, m, n), NEW f,
           NEW ov, \A i \in 1..m : ov[i] = 0, NEW t \in Int
    PROVE  LET rw == Rewritten(es, m)
               resolved == EditResolutions(rw, ov, f)
           IN Shifted(t, computePositionalDeltas(backfillLinesFromResolved(rw, resolved))) = t + Shift(es, m, t)
<1> DEFINE rw == Rewritten(es, m)
           resolved == EditResolutions(rw, ov, f)
           bf == backfillLinesFromResolved(rw, resolved)
<1>1. DOMAIN rw = 1..m /\ \A i \in 1..m : rw[i] = MovedBy(es[i], Added(es, i - 1))
  BY DEF Rewritten
<1> HIDE DEF rw
<1>2. \A i \in 1..m : /\ rw[i] \in LineEdit /\ n + Added(es, i - 1) \in Nat /\ WellPlaced(rw[i], n + Added(es, i - 1))
                      /\ rw[i].action = es[i].action /\ rw[i].line = es[i].line + Added(es, i - 1)
                      /\ computeSingleEditNetDelta(rw[i]) = computeSingleEditNetDelta(es[i])
                      /\ effectiveLineSpanCount(rw[i]) = effectiveLineSpanCount(es[i])
  BY <1>1, StepEdit
<1>3. \A i \in 1..m : rw[i].action \notin {"insert_before", "insert_after"} =>
                        resolved[i].affected = effectiveLineSpanCount(rw[i]) + ov[i]
  BY <1>1 DEF EditResolutions
<1> HIDE DEF resolved
<1>4. DOMAIN bf = 1..m
  BY <1>1 DEF backfillLinesFromResolved
<1>5. ASSUME NEW i \in 1..m
      PROVE  /\ bf[i].action = es[i].action /\ bf[i].line = es[i].line + Added(es, i - 1)
             /\ computeSingleEditNetDelta(bf[i]) = computeSingleEditNetDelta(es[i])
  <2> DEFINE e == rw[i]
  <2>1. e.line > 0 /\ e.end \in Nat
    BY <1>2 DEF LineEdit
  <2>2. bf[i] = IF e.action \in {"replace", "delete"} /\ e.end <= 0 /\ resolved[i].affected > 0
                THEN [e EXCEPT !.end = e.line + resolved[i].affected - 1] ELSE e
    BY <1>1, <2>1 DEF backfillLinesFromResolved
  <2>3. CASE e.action \in {"replace", "delete"} /\ e.end <= 0 /\ resolved[i].affected > 0
    <3> DEFINE span == effectiveLineSpanCount(e)
    <3>1. span \in Nat
      <4>1. effectiveLineSpanCount(es[i]) \in Nat \ {0}
        BY EditFits DEF InSequence
      <4> QED BY <1>2, <4>1
    <3>2. resolved[i].affected = span
      BY <1>3, <2>3, <3>1
    <3>3. e.end = 0
      BY <2>1, <2>3
    <3>4. bf[i] = [e EXCEPT !.end = e.line + span - 1]
      BY <2>2, <2>3, <3>2
    <3>5. e \in LineEdit /\ n + Added(es, i - 1) \in Nat /\ WellPlaced(e, n + Added(es, i - 1))
      BY <1>2
    <3> HIDE DEF e, bf
    <3>6. /\ [e EXCEPT !.end = e.line + span - 1].action = e.action
          /\ [e EXCEPT !.end = e.line + span - 1].line = e.line
          /\ computeSingleEditNetDelta([e EXCEPT !.end = e.line + span - 1])
               = computeSingleEditNetDelta(e)
      BY <3>1, <3>3, <3>5, Backfilled
    <3> QED BY <1>2, <3>4, <3>6 DEF e
  <2>4. CASE ~(e.action \in {"replace", "delete"} /\ e.end <= 0 /\ resolved[i].affected > 0)
    <3>1. bf[i] = e
      BY <2>2, <2>4
    <3> QED BY <1>2, <3>1
  <2> QED BY <2>3, <2>4
<1> HIDE DEF bf
<1> DEFINE cumulative(i) == SumFunction([j \in 1..(i-1) |-> computeSingleEditNetDelta(bf[j])])
           Delta(line, delta, inclusive) ==
             IF delta # 0 /\ line > 0
             THEN <<[line |-> line, delta |-> delta, lineInclusive |-> inclusive]>>
             ELSE << >>
           Original(i, line) == IF line > 0 THEN line - cumulative(i) ELSE 0
<1>6. computePositionalDeltas(bf)
        = FlattenSeq([i \in 1..m |-> Delta(Original(i, bf[i].line), computeSingleEditNetDelta(bf[i]),
                                           bf[i].action = "insert_before")])
  <2>1. \A i \in 1..m : bf[i].action # "move"
    <3>1. \A i \in 1..m : es[i].action # "move"
      BY DEF InSequence, WellPlaced
    <3> QED BY <1>5, <3>1
  <2> DEFINE span(i) == effectiveLineSpanCount(bf[i])
             plain(i) == Delta(Original(i, bf[i].line), computeSingleEditNetDelta(bf[i]),
                               bf[i].action = "insert_before")
             deltasOf(i) ==
               IF bf[i].action # "move" THEN plain(i)
               ELSE IF bf[i].line <= 0 \/ bf[i].dest <= 0 THEN <<>>
               ELSE Delta(Original(i, bf[i].line), -span(i), FALSE)
                      \o Delta(Original(i, effectiveDest(bf[i], bf[i].line)), span(i), FALSE)
  <2>2. computePositionalDeltas(bf) = FlattenSeq([i \in 1..m |-> deltasOf(i)])
    BY <1>4 DEF computePositionalDeltas
  <2>3. \A i \in 1..m : deltasOf(i) = plain(i)
    <3> HIDE DEF Delta, Original, plain
    <3> QED BY <2>1
  <2> HIDE DEF deltasOf, plain
  <2>4. [i \in 1..m |-> deltasOf(i)] = [i \in 1..m |-> plain(i)]
    BY <2>3, Zenon
  <2> QED BY <2>2, <2>4 DEF plain
<1>7. ASSUME NEW i \in 1..m
      PROVE  Delta(Original(i, bf[i].line), computeSingleEditNetDelta(bf[i]), bf[i].action = "insert_before")
               = Reported(es[i])
  <2>1. cumulative(i) = Added(es, i - 1)
    <3>1. \A j \in 1..(i-1) : computeSingleEditNetDelta(bf[j]) = computeSingleEditNetDelta(es[j])
      BY <1>5
    <3>2. [j \in 1..(i-1) |-> computeSingleEditNetDelta(bf[j])]
            = [j \in 1..(i-1) |-> computeSingleEditNetDelta(es[j])]
      BY <3>1, Zenon
    <3> QED BY <3>2, Zenon DEF Added
  <2> HIDE DEF cumulative
  <2>2. es[i].line \in 1..n /\ Added(es, i - 1) \in Int /\ es[i].line + Added(es, i - 1) >= 1
    BY Terms, SequenceAbove
  <2>3. Original(i, bf[i].line) = es[i].line
    BY <1>5, <2>1, <2>2
  <2> HIDE DEF Original
  <2>4. es[i].line > 0
    BY <2>2
  <2> QED BY <1>5, <2>3, <2>4 DEF Reported
<1> HIDE DEF Delta, Original
<1>8. [i \in 1..m |-> Delta(Original(i, bf[i].line), computeSingleEditNetDelta(bf[i]), bf[i].action = "insert_before")]
        = [i \in 1..m |-> Reported(es[i])]
  BY <1>7, Zenon
<1>9. Shifted(t, FlattenSeq([i \in 1..m |-> Reported(es[i])])) = t + Shift(es, m, t)
  BY ReportedShifts
<1> QED BY <1>6, <1>8, <1>9 DEF bf, resolved, rw

(***************************************************************************)
(* What the lines of the file are.                                         *)
(***************************************************************************)

\* The edits a batch can be written with, when it uses no moves.
WrittenEdit ==
    {w \in [action : {"insert_before", "insert_after", "replace", "delete", "read"},
            line : 1..FileLines, end : Nat, dest : {0}, new : Nat, id : Nat \ {0}] :
        /\ Inserts(w) => w.end = 0
        /\ w.action = "replace" => w.end \in {0} \cup w.line..FileLines /\ w.new >= 1
        /\ w.action \in {"delete", "read"} => w.end \in w.line..FileLines /\ w.new = 0}

\* Edits of one batch.
GoodEdits(A) ==
    /\ A \subseteq WrittenEdit
    /\ \A a, b \in A : /\ a.id = b.id => a = b
                       /\ a # b => Sensible(a, b)

SideOf(a) == CASE a.action = "insert_before" -> 0
               [] a.action = "insert_after" -> 2
               [] OTHER -> 1

\* The parts of an edit as it is written.
LEMMA WrittenFacts ==
    ASSUME NEW w \in WrittenEdit
    PROVE  /\ w.action \in {"insert_before", "insert_after", "replace", "delete", "read"}
           /\ w.line \in 1..FileLines /\ w.end \in Nat /\ w.dest = 0 /\ w.new \in Nat /\ w.id \in Nat \ {0}
           /\ Inserts(w) => w.end = 0
           /\ w.action = "replace" => w.end \in {0} \cup w.line..FileLines /\ w.new >= 1
           /\ w.action \in {"delete", "read"} => w.end \in w.line..FileLines /\ w.new = 0
           /\ LastLine(w) \in w.line..FileLines /\ w.line \in Block(w)
           /\ FileLines \in Nat
<1>1. /\ w.action \in {"insert_before", "insert_after", "replace", "delete", "read"}
      /\ w.line \in 1..FileLines /\ w.end \in Nat /\ w.dest = 0 /\ w.new \in Nat /\ w.id \in Nat \ {0}
      /\ Inserts(w) => w.end = 0
      /\ w.action = "replace" => w.end \in {0} \cup w.line..FileLines /\ w.new >= 1
      /\ w.action \in {"delete", "read"} => w.end \in w.line..FileLines /\ w.new = 0
  BY DEF WrittenEdit
<1>2. FileLines \in Nat
  BY LineRebaseAssumption
<1>3. LastLine(w) \in w.line..FileLines
  BY <1>1, <1>2 DEF LastLine, Inserts
<1>4. w.line \in Block(w)
  BY <1>1, <1>2, <1>3 DEF Block
<1> QED BY <1>1, <1>2, <1>3, <1>4

\* Some of the edits of a batch.
LEMMA GoodPart == ASSUME NEW B, GoodEdits(B), NEW A \in SUBSET B PROVE GoodEdits(A)
BY DEF GoodEdits

\* Content belongs to the edit it came with.
LEMMA Authors ==
    ASSUME NEW A, GoodEdits(A), NEW a \in A, NEW x, x[1] = a.id
    PROVE  Author(A, x) = a /\ Near(A, x) = a.line /\ Side(A, x) = SideOf(a) /\ x[1] # 0
<1>1. Author(A, x) \in A /\ Author(A, x).id = x[1]
  BY DEF Author
<1>2. Author(A, x) = a
  BY <1>1 DEF GoodEdits
<1>3. a.id # 0
  BY WrittenFacts DEF GoodEdits
<1> QED BY <1>2, <1>3 DEF Near, Side, SideOf

\* A line is one of the original or of the content of an edit.
LEMMA LineKinds ==
    ASSUME NEW A, GoodEdits(A), NEW x \in Wanted(A)
    PROVE  \/ \E l \in 1..FileLines : /\ x = OriginalLine(l) /\ \A e \in A : Takes(e) => l \notin Block(e)
                                      /\ x[1] = 0 /\ x[2] = l /\ Near(A, x) = l /\ Side(A, x) = 1
           \/ \E a \in A : \E i \in 1..a.new :
                 /\ x = <<a.id, i>> /\ x[1] = a.id /\ x[2] = i /\ x[1] # 0
                 /\ Near(A, x) = a.line /\ Side(A, x) = SideOf(a)
<1>1. CASE x \in {OriginalLine(l) : l \in {m \in 1..FileLines : \A e \in A : Takes(e) => m \notin Block(e)}}
  <2>1. PICK l \in 1..FileLines : x = OriginalLine(l) /\ \A e \in A : Takes(e) => l \notin Block(e)
    BY <1>1
  <2>2. x[1] = 0 /\ x[2] = l
    BY <2>1 DEF OriginalLine
  <2>3. Near(A, x) = l /\ Side(A, x) = 1
    BY <2>2 DEF Near, Side
  <2> QED BY <2>1, <2>2, <2>3
<1>2. CASE x \in UNION {Range(Content(e, e.new)) : e \in A}
  <2>1. PICK a \in A : x \in Range(Content(a, a.new))
    BY <1>2
  <2>2. PICK i \in 1..a.new : x = <<a.id, i>>
    BY <2>1 DEF Range, Content
  <2>3. x[1] = a.id /\ x[2] = i
    BY <2>2
  <2>4. Near(A, x) = a.line /\ Side(A, x) = SideOf(a) /\ x[1] # 0
    BY <2>3, Authors
  <2> QED BY <2>2, <2>3, <2>4
<1> QED BY <1>1, <1>2 DEF Wanted

\* Every line of the file has a place by an original line.
LEMMA LinePlace ==
    ASSUME NEW A, GoodEdits(A), NEW x \in Wanted(A)
    PROVE  Near(A, x) \in 1..FileLines /\ Side(A, x) \in {0, 1, 2} /\ x[1] \in Nat /\ x[2] \in Nat \ {0}
           /\ FileLines \in Nat
<1>1. FileLines \in Nat
  BY LineRebaseAssumption
<1>2. CASE \E l \in 1..FileLines : /\ x = OriginalLine(l) /\ \A e \in A : Takes(e) => l \notin Block(e)
                                   /\ x[1] = 0 /\ x[2] = l /\ Near(A, x) = l /\ Side(A, x) = 1
  BY <1>1, <1>2
<1>3. CASE \E a \in A : \E i \in 1..a.new :
                 /\ x = <<a.id, i>> /\ x[1] = a.id /\ x[2] = i /\ x[1] # 0
                 /\ Near(A, x) = a.line /\ Side(A, x) = SideOf(a)
  <2>1. PICK a \in A : \E i \in 1..a.new :
                 /\ x = <<a.id, i>> /\ x[1] = a.id /\ x[2] = i /\ x[1] # 0
                 /\ Near(A, x) = a.line /\ Side(A, x) = SideOf(a)
    BY <1>3
  <2>2. a.line \in 1..FileLines /\ a.new \in Nat /\ a.id \in Nat
    BY WrittenFacts DEF GoodEdits
  <2>3. SideOf(a) \in {0, 1, 2}
    BY DEF SideOf
  <2> QED BY <1>1, <2>1, <2>2, <2>3
<1> QED BY <1>2, <1>3, LineKinds

\* Its place does not depend on other edits.
LEMMA SamePlace ==
    ASSUME NEW B, GoodEdits(B), NEW A \in SUBSET B, NEW x \in Wanted(A)
    PROVE  Near(B, x) = Near(A, x) /\ Side(B, x) = Side(A, x)
<1>1. GoodEdits(A)
  BY GoodPart
<1>2. CASE x[1] = 0
  BY <1>2 DEF Near, Side
<1>3. CASE x[1] # 0
  <2>1. PICK a \in A : x[1] = a.id
    BY <1>1, <1>3, LineKinds
  <2>2. Author(A, x) = a
    BY <1>1, <2>1, Authors
  <2>3. Author(B, x) = a
    BY <2>1, Authors
  <2> QED BY <1>3, <2>2, <2>3 DEF Near, Side
<1> QED BY <1>2, <1>3

\* So the order of two lines does not depend on other edits either.
LEMMA SameOrder ==
    ASSUME NEW B, GoodEdits(B), NEW A \in SUBSET B, NEW x \in Wanted(A), NEW y \in Wanted(A)
    PROVE  Above(B, x, y) <=> Above(A, x, y)
BY SamePlace DEF Above

\* What is above a line that is at its own place: an original one, or the
\* first of those that replace it.
LEMMA AboveIt ==
    ASSUME NEW A, GoodEdits(A), NEW x \in Wanted(A), NEW p \in Wanted(A), Side(A, p) = 1,
           p[1] = 0 \/ p[2] = 1, Above(A, x, p)
    PROVE  Near(A, x) < Near(A, p) \/ (Near(A, x) = Near(A, p) /\ Side(A, x) = 0)
<1>1. /\ Near(A, x) \in Int /\ Near(A, p) \in Int /\ Side(A, x) \in {0, 1, 2}
      /\ x[1] \in Nat /\ p[1] \in Nat /\ x[2] \in Nat \ {0} /\ p[2] \in Nat \ {0}
  BY LinePlace
<1>2. p[1] = 0 => Near(A, p) = p[2] /\ (x[1] = 0 => Near(A, x) = x[2])
  BY DEF Near
<1> QED BY <1>1, <1>2 DEF Above

\* What is below a line that is at its own place.
LEMMA BelowIt ==
    ASSUME NEW A, GoodEdits(A), NEW x \in Wanted(A), NEW p \in Wanted(A), Side(A, p) = 1, Above(A, p, x)
    PROVE  /\ Near(A, x) > Near(A, p) \/ (Near(A, x) = Near(A, p) /\ Side(A, x) \in {1, 2})
           /\ p[1] = 0 => Near(A, x) > Near(A, p) \/ (Near(A, x) = Near(A, p) /\ Side(A, x) = 2)
<1>1. /\ Near(A, x) \in Int /\ Near(A, p) \in Int /\ Side(A, x) \in {0, 1, 2}
      /\ x[1] \in Nat /\ p[1] \in Nat /\ x[2] \in Nat \ {0} /\ p[2] \in Nat \ {0}
  BY LinePlace
<1>2. p[1] = 0 => Near(A, p) = p[2] /\ (x[1] = 0 => Near(A, x) = x[2])
  BY DEF Near
<1> QED BY <1>1, <1>2 DEF Above

\* The line x of the text stands for the one that edit w was written for:
\* it is that line, or the first of those that replaced it.
StandsFor(A, w, x) ==
    \/ x = OriginalLine(w.line)
    \/ /\ w.action = "insert_before"
       /\ \E r \in A : r.action = "replace" /\ r.line = w.line /\ x = <<r.id, 1>>

\* The line an edit stands on is at its own place.
LEMMA Stands ==
    ASSUME NEW A, GoodEdits(A), NEW w, NEW x \in Wanted(A), StandsFor(A, w, x)
    PROVE  Near(A, x) = w.line /\ Side(A, x) = 1 /\ (x[1] = 0 \/ x[2] = 1)
           /\ (w.action # "insert_before" => x[1] = 0 /\ x = OriginalLine(w.line))
<1>1. CASE x = OriginalLine(w.line)
  <2>1. x[1] = 0 /\ x[2] = w.line
    BY <1>1 DEF OriginalLine
  <2> QED BY <1>1, <2>1 DEF Near, Side
<1>2. CASE w.action = "insert_before" /\ \E r \in A : r.action = "replace" /\ r.line = w.line /\ x = <<r.id, 1>>
  <2>1. PICK r \in A : r.action = "replace" /\ r.line = w.line /\ x = <<r.id, 1>>
    BY <1>2
  <2>2. x[1] = r.id /\ x[2] = 1
    BY <2>1
  <2>3. Near(A, x) = r.line /\ Side(A, x) = SideOf(r)
    BY <2>2, Authors
  <2> QED BY <1>2, <2>1, <2>2, <2>3 DEF SideOf
<1> QED BY <1>1, <1>2 DEF StandsFor

(***************************************************************************)
(* One edit, and what it was written for.                                  *)
(***************************************************************************)

\* e is edit w with the line numbers of the text g.
StandsIn(A, w, e, g) ==
    /\ e.action = w.action /\ e.id = w.id /\ e.new = w.new
    /\ e.line \in 1..Len(g) /\ StandsFor(A, w, g[e.line])
    /\ e.end = 0 <=> w.end = 0
    /\ w.end # 0 => e.end \in 1..Len(g) /\ g[e.end] = OriginalLine(w.end)

\* The lines that an edit takes are the original ones it was written for.
LEMMA TakesBlock ==
    ASSUME NEW A, NEW w, w \notin A, GoodEdits(A \cup {w}), Takes(w),
           NEW g \in Texts, AsWritten(A, g), NEW e \in LineEdit, StandsIn(A, w, e, g)
    PROVE  LET last == IF e.end = 0 THEN e.line ELSE e.end IN
           /\ e.line <= last /\ last \in 1..Len(g) /\ g[last] = OriginalLine(LastLine(w))
           /\ \A t \in e.line..last : \E m \in Block(w) : g[t] = OriginalLine(m)
           /\ \A t \in 1..Len(g) : \A m \in Block(w) : g[t] = OriginalLine(m) => t \in e.line..last
<1> DEFINE last == IF e.end = 0 THEN e.line ELSE e.end
           p == g[e.line]
           q == g[last]
           near(x) == Near(A, x)
           side(x) == Side(A, x)
<1>1. Len(g) \in Nat /\ DOMAIN g = 1..Len(g)
  BY DEF Texts
<1>2. GoodEdits(A) /\ w \in WrittenEdit /\ w.action \in {"replace", "delete"}
  <2>1. GoodEdits(A) /\ w \in WrittenEdit
    BY GoodPart DEF GoodEdits
  <2> QED BY <2>1, WrittenFacts DEF Takes
<1>3. \A t \in 1..Len(g) : g[t] \in Wanted(A)
  BY <1>1 DEF AsWritten, Range
<1>4. \A t, u \in 1..Len(g) : t < u => Above(A, g[t], g[u])
  BY <1>1 DEF AsWritten
<1>5. e.line \in 1..Len(g) /\ last \in 1..Len(g)
  BY <1>1 DEF StandsIn, LineEdit
<1>6. w.line \in 1..FileLines /\ LastLine(w) \in w.line..FileLines /\ FileLines \in Nat
  BY <1>2, WrittenFacts
<1>7. p = OriginalLine(w.line) /\ q = OriginalLine(LastLine(w))
  <2>1. p = OriginalLine(w.line)
    BY <1>2 DEF StandsIn, StandsFor
  <2> QED BY <2>1 DEF StandsIn, LastLine
<1> HIDE DEF last
<1>8. p \in Wanted(A) /\ q \in Wanted(A)
  BY <1>3, <1>5
<1>9. p[1] = 0 /\ near(p) = w.line /\ side(p) = 1 /\ q[1] = 0 /\ near(q) = LastLine(w) /\ side(q) = 1
  BY <1>7 DEF OriginalLine, Near, Side
<1> HIDE DEF p, q
<1>10. ASSUME NEW t \in 1..Len(g), t < e.line
       PROVE  near(g[t]) < w.line \/ (near(g[t]) = w.line /\ side(g[t]) = 0)
  <2>1. Above(A, g[t], p) /\ g[t] \in Wanted(A)
    BY <1>3, <1>4, <1>5, <1>10 DEF p
  <2> QED BY <1>2, <1>8, <1>9, <2>1, AboveIt
<1>11. ASSUME NEW t \in 1..Len(g), t > e.line
       PROVE  near(g[t]) > w.line \/ (near(g[t]) = w.line /\ side(g[t]) = 2)
  <2>1. Above(A, p, g[t]) /\ g[t] \in Wanted(A)
    BY <1>1, <1>3, <1>4, <1>5, <1>11 DEF p
  <2> QED BY <1>2, <1>8, <1>9, <2>1, BelowIt
<1>12. ASSUME NEW t \in 1..Len(g), t < last
       PROVE  near(g[t]) < LastLine(w) \/ (near(g[t]) = LastLine(w) /\ side(g[t]) = 0)
  <2>1. Above(A, g[t], q) /\ g[t] \in Wanted(A)
    BY <1>3, <1>4, <1>5, <1>12 DEF q
  <2> QED BY <1>2, <1>8, <1>9, <2>1, AboveIt
<1>13. ASSUME NEW t \in 1..Len(g), t > last
       PROVE  near(g[t]) > LastLine(w) \/ (near(g[t]) = LastLine(w) /\ side(g[t]) = 2)
  <2>1. Above(A, q, g[t]) /\ g[t] \in Wanted(A)
    BY <1>1, <1>3, <1>4, <1>5, <1>13 DEF q
  <2> QED BY <1>2, <1>8, <1>9, <2>1, BelowIt
<1>14. \A l : near(OriginalLine(l)) = l /\ side(OriginalLine(l)) = 1
  BY DEF Near, Side, OriginalLine
<1>15. e.line <= last
  <2> SUFFICES ASSUME ~(e.line <= last) PROVE FALSE
    OBVIOUS
  <2>1. last < e.line
    BY <1>5
  <2>2. near(q) < w.line \/ (near(q) = w.line /\ side(q) = 0)
    BY <1>5, <1>10, <2>1 DEF q
  <2> QED BY <1>6, <1>9, <2>2
<1>16. ASSUME NEW t \in e.line..last PROVE \E m \in Block(w) : g[t] = OriginalLine(m)
  <2>1. t \in 1..Len(g) /\ g[t] \in Wanted(A)
    BY <1>1, <1>3, <1>5
  <2>2. t = e.line \/ t > e.line
    BY <1>5
  <2>3. t = last \/ t < last
    BY <1>5
  <2>4. near(g[t]) \in 1..FileLines /\ side(g[t]) \in {0, 1, 2}
    BY <1>2, <2>1, LinePlace
  <2>5. /\ near(g[t]) > w.line \/ (near(g[t]) = w.line /\ (t = e.line \/ side(g[t]) = 2))
        /\ near(g[t]) <= LastLine(w)
    <3>1. near(g[t]) > w.line \/ (near(g[t]) = w.line /\ (t = e.line \/ side(g[t]) = 2))
      BY <1>9, <1>11, <2>1, <2>2 DEF p
    <3>2. near(g[t]) <= LastLine(w)
      BY <1>6, <1>9, <1>12, <2>1, <2>3, <2>4 DEF q
    <3> QED BY <3>1, <3>2
  <2>6. near(g[t]) \in Block(w)
    BY <1>6, <2>4, <2>5 DEF Block
  <2>7. CASE \E l \in 1..FileLines : g[t] = OriginalLine(l) /\ near(g[t]) = l
    BY <2>6, <2>7
  <2>8. CASE \E a \in A : \E i \in 1..a.new :
                g[t][1] # 0 /\ near(g[t]) = a.line /\ side(g[t]) = SideOf(a)
    <3>1. PICK a \in A : g[t][1] # 0 /\ near(g[t]) = a.line /\ side(g[t]) = SideOf(a)
      BY <2>8
    <3>2. a \in WrittenEdit /\ a # w /\ Sensible(w, a)
      BY <3>1 DEF GoodEdits
    <3>3. CASE Inserts(a)
      <4>1. a.action = "insert_before" /\ a.line = w.line
        BY <2>6, <3>1, <3>2, <3>3 DEF Sensible
      <4>2. side(g[t]) = 0
        BY <3>1, <4>1 DEF SideOf
      <4>3. t # e.line
        BY <1>9, <3>1 DEF p
      <4> QED BY <1>6, <2>5, <3>1, <4>1, <4>2, <4>3
    <3>4. CASE ~Inserts(a)
      <4>1. Block(w) \cap Block(a) = {}
        BY <3>2, <3>4 DEF Sensible
      <4>2. a.line \in Block(a)
        BY <3>2, WrittenFacts
      <4> QED BY <2>6, <3>1, <4>1, <4>2
    <3> QED BY <3>3, <3>4
  <2> QED
    <3>1. \/ \E l \in 1..FileLines : g[t] = OriginalLine(l) /\ near(g[t]) = l
          \/ \E a \in A : \E i \in 1..a.new :
                g[t][1] # 0 /\ near(g[t]) = a.line /\ side(g[t]) = SideOf(a)
      BY <1>2, <2>1, LineKinds
    <3> QED BY <2>7, <2>8, <3>1
<1>17. ASSUME NEW t \in 1..Len(g), NEW m \in Block(w), g[t] = OriginalLine(m) PROVE t \in e.line..last
  <2>1. near(g[t]) = m /\ side(g[t]) = 1 /\ m \in w.line..LastLine(w)
    BY <1>14, <1>17 DEF Block
  <2>2. ~(t < e.line)
    BY <1>6, <1>10, <2>1
  <2>3. ~(t > last)
    BY <1>6, <1>13, <2>1
  <2> QED BY <1>5, <2>2, <2>3
<1> QED BY <1>5, <1>7, <1>15, <1>16, <1>17 DEF last, q

\* The lines wanted when one more edit has taken effect.
TakenBy(w) == IF Takes(w) THEN {OriginalLine(m) : m \in Block(w)} ELSE {}

\* The lines of the file after one more edit.
LEMMA WantedWith ==
    ASSUME NEW A, NEW w, GoodEdits(A \cup {w})
    PROVE  Wanted(A \cup {w}) = (Wanted(A) \ TakenBy(w)) \cup Range(Content(w, w.new))
<1> DEFINE kept(E) == {m \in 1..FileLines : \A e \in E : Takes(e) => m \notin Block(e)}
           content(E) == UNION {Range(Content(e, e.new)) : e \in E}
<1>1. content(A \cup {w}) = content(A) \cup Range(Content(w, w.new))
  OBVIOUS
<1>2. \A l, m : OriginalLine(l) = OriginalLine(m) => l = m
  BY DEF OriginalLine
<1>3. \A x \in content(A) : x \notin TakenBy(w)
  <2> SUFFICES ASSUME NEW a \in A, NEW x \in Range(Content(a, a.new)), NEW m, x = OriginalLine(m)
               PROVE  FALSE
    BY DEF TakenBy
  <2>0. PICK i : x = <<a.id, i>>
    BY DEF Range, Content
  <2>1. x[1] = a.id
    BY <2>0
  <2>2. x[1] = 0
    BY DEF OriginalLine
  <2>3. a.id # 0
    BY WrittenFacts DEF GoodEdits
  <2> QED BY <2>1, <2>2, <2>3
<1>4. \A m \in 1..FileLines : m \in kept(A \cup {w}) <=> m \in kept(A) /\ OriginalLine(m) \notin TakenBy(w)
  <2>1. ASSUME NEW m \in 1..FileLines
        PROVE  OriginalLine(m) \in TakenBy(w) <=> Takes(w) /\ m \in Block(w)
    BY <1>2 DEF TakenBy
  <2> QED BY <2>1
<1>5. {OriginalLine(l) : l \in kept(A \cup {w})} = {OriginalLine(l) : l \in kept(A)} \ TakenBy(w)
  <2>1. \A m \in kept(A \cup {w}) : m \in 1..FileLines
    OBVIOUS
  <2>2. \A m \in kept(A) : m \in 1..FileLines
    OBVIOUS
  <2> HIDE DEF kept
  <2> QED BY <1>4, <2>1, <2>2
<1>6. \A E : Wanted(E) = {OriginalLine(l) : l \in kept(E)} \cup content(E)
  BY DEF Wanted
<1> HIDE DEF kept, content
<1> QED BY <1>1, <1>3, <1>5, <1>6

\* An edit at its place does to the file what it was written to do.
LEMMA OneEdit ==
    ASSUME NEW A, NEW w, w \notin A, GoodEdits(A \cup {w}), w.action # "read",
           \A a \in A : a.line = w.line => a.id < w.id,
           NEW g \in Texts, AsWritten(A, g),
           NEW e \in LineEdit, WellPlaced(e, Len(g)), StandsIn(A, w, e, g)
    PROVE  AsWritten(A \cup {w}, ApplyEdit(e, 0, g))
<1> DEFINE B == A \cup {w}
           h == ApplyEdit(e, 0, g)
           F == From(e)
           C == Count(e)
           N == computeSingleEditNetDelta(e)
           L == Len(NewLines(e))
<1>1. Len(g) \in Nat /\ DOMAIN g = 1..Len(g)
  BY DEF Texts
<1>2. /\ h \in Texts /\ Len(h) = Len(g) + N
      /\ \A t \in 1..(F - 1) : t \in 1..Len(h) /\ h[t] = g[t]
      /\ \A i \in 1..L : F - 1 + i \in 1..Len(h) /\ h[F - 1 + i] = NewLines(e)[i]
      /\ \A t \in (F + C)..Len(g) : t + N \in 1..Len(h) /\ h[t + N] = g[t]
  BY EditedBy
<1>3. /\ F \in 1..(Len(g) + 1) /\ C \in Nat /\ F + C <= Len(g) + 1 /\ L \in Nat /\ N = L - C
  BY <1>1, EditFits
<1>4. /\ GoodEdits(A) /\ GoodEdits(B) /\ A \in SUBSET B /\ w \in B /\ w \in WrittenEdit
      /\ \A a \in A : a \in WrittenEdit
  BY GoodPart DEF GoodEdits
<1>5. /\ w.action \in {"insert_before", "insert_after", "replace", "delete"}
      /\ w.line \in 1..FileLines /\ FileLines \in Nat /\ w.new \in Nat /\ w.id \in Nat \ {0}
      /\ w.action = "delete" => w.new = 0
  BY <1>4, WrittenFacts
<1>6. L = w.new /\ \A i \in 1..L : NewLines(e)[i] = <<w.id, i>>
  <2>1. CASE w.action = "delete"
    <3>1. NewLines(e) = << >>
      BY <2>1 DEF StandsIn, NewLines
    <3> QED BY <1>5, <2>1, <3>1
  <2>2. CASE w.action # "delete"
    BY <2>2, ContentIsText DEF StandsIn
  <2> QED BY <2>1, <2>2
<1>7. /\ \A t \in 1..Len(g) : g[t] \in Wanted(A)
      /\ \A x \in Wanted(A) : \E t \in 1..Len(g) : x = g[t]
      /\ \A t, u \in 1..Len(g) : t < u => Above(A, g[t], g[u])
  BY <1>1 DEF AsWritten, Range
<1>8. e.line \in 1..Len(g) /\ StandsFor(A, w, g[e.line]) /\ e.action = w.action
  BY DEF StandsIn
<1> DEFINE p == g[e.line]
           near(x) == Near(A, x)
           side(x) == Side(A, x)
<1>9. near(p) = w.line /\ side(p) = 1 /\ (p[1] = 0 \/ p[2] = 1) /\ (w.action # "insert_before" => p[1] = 0)
  BY <1>4, <1>7, <1>8, Stands
<1> HIDE DEF h, F, C, N, L, p
<1>10. ASSUME NEW t \in 1..Len(g), t < e.line
       PROVE  near(g[t]) < w.line \/ (near(g[t]) = w.line /\ side(g[t]) = 0)
  <2>1. Above(A, g[t], p) /\ g[t] \in Wanted(A) /\ p \in Wanted(A)
    BY <1>7, <1>8, <1>10 DEF p
  <2> QED BY <1>4, <1>9, <2>1, AboveIt
<1>11. ASSUME NEW t \in 1..Len(g), t > e.line
       PROVE  /\ near(g[t]) > w.line \/ (near(g[t]) = w.line /\ side(g[t]) \in {1, 2})
              /\ w.action # "insert_before" => near(g[t]) > w.line \/ (near(g[t]) = w.line /\ side(g[t]) = 2)
  <2>1. Above(A, p, g[t]) /\ g[t] \in Wanted(A) /\ p \in Wanted(A)
    BY <1>1, <1>7, <1>8, <1>11 DEF p
  <2>2. near(g[t]) > near(p) \/ (near(g[t]) = near(p) /\ side(g[t]) \in {1, 2})
    BY <1>4, <1>9, <2>1, BelowIt
  <2>3. p[1] = 0 => near(g[t]) > near(p) \/ (near(g[t]) = near(p) /\ side(g[t]) = 2)
    BY <1>4, <1>9, <2>1, BelowIt
  <2> QED BY <1>9, <2>2, <2>3
\* What is written for the same line came earlier.
<1>12. ASSUME NEW x \in Wanted(A), near(x) = w.line, side(x) # 1 PROVE x[1] < w.id /\ x[1] \in Nat
  <2>1. \/ side(x) = 1
        \/ \E a \in A : x[1] = a.id /\ near(x) = a.line
    BY <1>4, LineKinds
  <2>2. PICK a \in A : x[1] = a.id /\ near(x) = a.line
    BY <1>12, <2>1
  <2>3. a.id \in Nat
    BY <1>4, WrittenFacts
  <2> QED BY <1>12, <2>2, <2>3
<1>13. ASSUME NEW i \in 1..L
       PROVE  LET y == <<w.id, i>> IN
              y[1] = w.id /\ y[2] = i /\ Near(B, y) = w.line /\ Side(B, y) = SideOf(w)
  <2> DEFINE y == <<w.id, i>>
  <2>1. y[1] = w.id /\ y[2] = i
    OBVIOUS
  <2> HIDE DEF y, B
  <2>2. Near(B, y) = w.line /\ Side(B, y) = SideOf(w)
    BY <1>4, <2>1, Authors
  <2> QED BY <2>1, <2>2 DEF y
<1>14. \A x \in Wanted(A) : Near(B, x) = near(x) /\ Side(B, x) = side(x)
  <2> HIDE DEF B
  <2> QED BY <1>4, SamePlace
<1>15. \A x \in Wanted(A) : near(x) \in Int /\ side(x) \in {0, 1, 2} /\ x[1] \in Nat
  BY <1>4, LinePlace
<1> HIDE DEF B, near, side
<1>16. ASSUME NEW t \in 1..(F - 1), NEW i \in 1..L PROVE Above(B, g[t], <<w.id, i>>)
  <2> DEFINE x == g[t]
             y == <<w.id, i>>
  <2> SUFFICES Above(B, x, y)
    OBVIOUS
  <2>1. t \in 1..Len(g) /\ x \in Wanted(A)
    BY <1>1, <1>3, <1>7
  <2>2. y[1] = w.id /\ Near(B, y) = w.line /\ Side(B, y) = SideOf(w)
        /\ Near(B, x) = near(x) /\ Side(B, x) = side(x)
        /\ near(x) \in Int /\ side(x) \in {0, 1, 2} /\ x[1] \in Nat
    BY <1>13, <1>14, <1>15, <2>1
  <2>3. near(x) = w.line /\ side(x) # 1 => x[1] < w.id
    BY <1>12, <2>1
  <2>4. t < e.line => near(x) < w.line \/ (near(x) = w.line /\ side(x) = 0)
    BY <1>10, <2>1
  <2>5. CASE w.action \in {"insert_before", "replace", "delete"}
    <3>1. t < e.line
      BY <1>8, <1>3, <2>1, <2>5 DEF F, From
    <3>2. SideOf(w) \in {0, 1}
      BY <2>5 DEF SideOf
    <3> HIDE DEF x, y
    <3>3. CASE near(x) < w.line
      BY <2>2, <3>3 DEF Above
    <3>4. CASE near(x) = w.line /\ side(x) = 0
      <4>1. x[1] < w.id
        BY <2>3, <3>4
      <4> QED BY <2>2, <3>2, <3>4, <4>1 DEF Above
    <3> QED BY <2>4, <3>1, <3>3, <3>4
  <2>6. CASE w.action = "insert_after"
    <3>1. t < e.line \/ t = e.line
      BY <1>8, <1>3, <2>1, <2>6 DEF F, From
    <3>2. SideOf(w) = 2
      BY <2>6 DEF SideOf
    <3>3. t = e.line => near(x) = w.line /\ side(x) = 1
      BY <1>9 DEF p
    <3> HIDE DEF x, y
    <3>4. CASE near(x) < w.line
      BY <2>2, <3>4 DEF Above
    <3>5. CASE near(x) = w.line /\ side(x) \in {0, 1}
      BY <2>2, <3>2, <3>5 DEF Above
    <3> QED BY <2>4, <3>1, <3>3, <3>4, <3>5
  <2> QED BY <1>5, <2>5, <2>6
<1>17. ASSUME NEW t \in (F + C)..Len(g), NEW i \in 1..L PROVE Above(B, <<w.id, i>>, g[t])
  <2> DEFINE x == g[t]
             y == <<w.id, i>>
  <2> SUFFICES Above(B, y, x)
    OBVIOUS
  <2>1. t \in 1..Len(g) /\ x \in Wanted(A)
    <3>1. t \in 1..Len(g)
      BY <1>1, <1>3
    <3> QED BY <1>7, <3>1
  <2>2. y[1] = w.id /\ Near(B, y) = w.line /\ Side(B, y) = SideOf(w)
        /\ Near(B, x) = near(x) /\ Side(B, x) = side(x)
        /\ near(x) \in Int /\ side(x) \in {0, 1, 2} /\ x[1] \in Nat
    BY <1>13, <1>14, <1>15, <2>1
  <2>3. near(x) = w.line /\ side(x) # 1 => x[1] < w.id
    BY <1>12, <2>1
  <2>4. t > e.line => /\ near(x) > w.line \/ (near(x) = w.line /\ side(x) \in {1, 2})
                      /\ w.action # "insert_before" => near(x) > w.line \/ (near(x) = w.line /\ side(x) = 2)
    BY <1>11, <2>1
  <2>5. CASE w.action = "insert_before"
    <3>1. t > e.line \/ t = e.line
      BY <1>8, <1>3, <2>1, <2>5 DEF F, From
    <3>2. SideOf(w) = 0
      BY <2>5 DEF SideOf
    <3>3. t = e.line => near(x) = w.line /\ side(x) = 1
      BY <1>9 DEF p
    <3> HIDE DEF x, y
    <3>4. CASE near(x) > w.line
      BY <1>5, <2>2, <3>4 DEF Above
    <3>5. CASE near(x) = w.line /\ side(x) \in {1, 2}
      BY <2>2, <3>2, <3>5 DEF Above
    <3> QED BY <2>4, <3>1, <3>3, <3>4, <3>5
  <2>6. CASE w.action \in {"insert_after", "replace", "delete"}
    <3>1. t > e.line
      <4>1. CASE w.action = "insert_after"
        BY <1>3, <1>8, <2>1, <4>1 DEF F, From
      <4>2. CASE w.action \in {"replace", "delete"}
        <5>1. C \in Nat \ {0} /\ F = e.line
          BY <1>8, <4>2, EditFits DEF C, Count, F, From
        <5> QED BY <1>3, <1>8, <2>1, <5>1
      <4> QED BY <2>6, <4>1, <4>2
    <3>2. SideOf(w) = IF w.action = "insert_after" THEN 2 ELSE 1
      BY <2>6 DEF SideOf
    <3> HIDE DEF x, y
    <3>3. CASE near(x) > w.line
      BY <1>5, <2>2, <3>3 DEF Above
    <3>4. CASE near(x) = w.line /\ side(x) = 2
      <4>1. x[1] < w.id
        BY <2>3, <3>4
      <4> QED BY <1>5, <2>2, <3>2, <3>4, <4>1 DEF Above
    <3>5. near(x) > w.line \/ (near(x) = w.line /\ side(x) = 2)
      BY <2>4, <2>6, <3>1
    <3> QED BY <3>3, <3>4, <3>5
  <2> QED BY <1>5, <2>5, <2>6
<1>18. \A x, y \in Wanted(A) : Above(A, x, y) => Above(B, x, y)
  BY <1>4, SameOrder
\* Where a line of the new text comes from.
<1>19. ASSUME NEW q \in 1..Len(h)
       PROVE  \/ q \in 1..(F - 1) /\ h[q] = g[q]
              \/ \E i \in 1..L : q = F - 1 + i /\ h[q] = <<w.id, i>>
              \/ \E t \in (F + C)..Len(g) : q = t + N /\ h[q] = g[t]
  <2>1. CASE q < F
    <3>1. q \in 1..(F - 1)
      BY <1>3, <2>1
    <3> QED BY <1>2, <3>1
  <2>2. CASE F <= q /\ q < F + L
    <3> DEFINE i == q - F + 1
    <3>1. i \in 1..L /\ q = F - 1 + i
      BY <1>3, <2>2
    <3> HIDE DEF i
    <3>2. h[q] = <<w.id, i>>
      <4>1. h[F - 1 + i] = NewLines(e)[i]
        BY <1>2, <3>1
      <4> QED BY <1>6, <3>1, <4>1
    <3> QED BY <3>1, <3>2
  <2>3. CASE F + L <= q
    <3> DEFINE t == q - N
    <3>1. t \in (F + C)..Len(g) /\ q = t + N
      BY <1>1, <1>2, <1>3, <2>3
    <3> HIDE DEF t
    <3>2. h[q] = g[t]
      BY <1>2, <3>1
    <3> QED BY <3>1, <3>2
  <2> QED BY <1>3, <2>1, <2>2, <2>3
<1>20. ASSUME NEW q \in 1..Len(h), NEW r \in 1..Len(h), q < r PROVE Above(B, h[q], h[r])
  <2>1. CASE q \in 1..(F - 1) /\ h[q] = g[q]
    <3>1. q \in 1..Len(g) /\ g[q] \in Wanted(A)
      BY <1>1, <1>3, <1>7, <2>1
    <3>2. CASE r \in 1..(F - 1) /\ h[r] = g[r]
      <4>1. r \in 1..Len(g) /\ g[r] \in Wanted(A)
        BY <1>1, <1>3, <1>7, <3>2
      <4> QED BY <1>7, <1>18, <1>20, <2>1, <3>1, <3>2, <4>1
    <3>3. CASE \E i \in 1..L : r = F - 1 + i /\ h[r] = <<w.id, i>>
      BY <1>16, <2>1, <3>3
    <3>4. CASE \E t \in (F + C)..Len(g) : r = t + N /\ h[r] = g[t]
      <4>1. PICK t \in (F + C)..Len(g) : h[r] = g[t]
        BY <3>4
      <4>2. t \in 1..Len(g) /\ q < t
        BY <1>1, <1>3, <2>1
      <4>3. g[t] \in Wanted(A) /\ Above(A, g[q], g[t])
        BY <1>7, <3>1, <4>2
      <4> QED BY <1>18, <2>1, <3>1, <4>1, <4>3
    <3> QED BY <1>19, <3>2, <3>3, <3>4
  <2>2. CASE \E i \in 1..L : q = F - 1 + i /\ h[q] = <<w.id, i>>
    <3>1. PICK i \in 1..L : q = F - 1 + i /\ h[q] = <<w.id, i>>
      BY <2>2
    <3>2. CASE r \in 1..(F - 1) /\ h[r] = g[r]
      BY <1>3, <1>20, <3>1, <3>2
    <3>3. CASE \E j \in 1..L : r = F - 1 + j /\ h[r] = <<w.id, j>>
      <4>1. PICK j \in 1..L : r = F - 1 + j /\ h[r] = <<w.id, j>>
        BY <3>3
      <4>2. i < j
        BY <1>3, <1>20, <3>1, <4>1
      <4>3. Above(B, <<w.id, i>>, <<w.id, j>>)
        <5>1. Near(B, <<w.id, i>>) = w.line /\ Side(B, <<w.id, i>>) = SideOf(w)
              /\ Near(B, <<w.id, j>>) = w.line /\ Side(B, <<w.id, j>>) = SideOf(w)
          BY <1>13
        <5>2. <<w.id, i>>[1] = w.id /\ <<w.id, j>>[1] = w.id /\ <<w.id, i>>[2] = i /\ <<w.id, j>>[2] = j
          OBVIOUS
        <5> QED BY <4>2, <5>1, <5>2 DEF Above
      <4> QED BY <3>1, <4>1, <4>3
    <3>4. CASE \E t \in (F + C)..Len(g) : r = t + N /\ h[r] = g[t]
      BY <1>17, <3>1, <3>4
    <3> QED BY <1>19, <3>2, <3>3, <3>4
  <2>3. CASE \E t \in (F + C)..Len(g) : q = t + N /\ h[q] = g[t]
    <3>1. PICK t \in (F + C)..Len(g) : q = t + N /\ h[q] = g[t]
      BY <2>3
    <3>2. t \in 1..Len(g)
      BY <1>1, <1>3
    <3>3. g[t] \in Wanted(A) /\ q >= F + L
      BY <1>3, <1>7, <3>1, <3>2
    <3>4. CASE r \in 1..(F - 1) /\ h[r] = g[r]
      BY <1>3, <1>20, <3>3, <3>4
    <3>5. CASE \E i \in 1..L : r = F - 1 + i /\ h[r] = <<w.id, i>>
      BY <1>3, <1>20, <3>3, <3>5
    <3>6. CASE \E u \in (F + C)..Len(g) : r = u + N /\ h[r] = g[u]
      <4>1. PICK u \in (F + C)..Len(g) : r = u + N /\ h[r] = g[u]
        BY <3>6
      <4>2. u \in 1..Len(g) /\ t < u
        BY <1>1, <1>3, <1>20, <3>1, <4>1
      <4>3. g[u] \in Wanted(A) /\ Above(A, g[t], g[u])
        BY <1>7, <3>2, <4>2
      <4> QED BY <1>18, <3>1, <3>3, <4>1, <4>3
    <3> QED BY <1>19, <3>4, <3>5, <3>6
  <2> QED BY <1>19, <2>1, <2>2, <2>3
\* The lines that are taken.
<1>21. \A t \in 1..Len(g) : t \in F..(F + C - 1) <=> g[t] \in TakenBy(w)
  <2>1. CASE Takes(w)
    <3> DEFINE last == IF e.end = 0 THEN e.line ELSE e.end
    <3>1. /\ e.line <= last /\ last \in 1..Len(g)
          /\ \A t \in e.line..last : \E m \in Block(w) : g[t] = OriginalLine(m)
          /\ \A t \in 1..Len(g) : \A m \in Block(w) : g[t] = OriginalLine(m) => t \in e.line..last
      BY <2>1, TakesBlock
    <3>2. F = e.line /\ F + C - 1 = last
      <4>1. w.action \in {"replace", "delete"}
        BY <1>5, <2>1 DEF Takes
      <4>2. F = e.line /\ C = effectiveLineSpanCount(e)
        BY <1>8, <4>1 DEF F, From, C, Count
      <4>3. effectiveLineSpanCount(e) = last - e.line + 1
        BY <1>1, <1>8, <3>1 DEF effectiveLineSpanCount, AtLeast
      <4> QED BY <1>1, <1>8, <3>1, <4>2, <4>3
    <3> HIDE DEF last
    <3> QED BY <2>1, <3>1, <3>2 DEF TakenBy
  <2>2. CASE ~Takes(w)
    <3>1. C = 0
      BY <1>5, <1>8, <2>2 DEF Takes, C, Count
    <3> QED BY <1>3, <2>2, <3>1 DEF TakenBy
  <2> QED BY <2>1, <2>2
<1>22. Range(Content(w, w.new)) = {<<w.id, i>> : i \in 1..L}
  BY <1>6 DEF Range, Content
<1>23. Wanted(B) = (Wanted(A) \ TakenBy(w)) \cup {<<w.id, i>> : i \in 1..L}
  BY <1>22, WantedWith DEF B
<1>24. DOMAIN h = 1..Len(h)
  BY <1>2 DEF Texts
<1>25. Range(h) = Wanted(B)
  <2>1. ASSUME NEW q \in 1..Len(h) PROVE h[q] \in Wanted(B)
    <3>1. CASE q \in 1..(F - 1) /\ h[q] = g[q]
      <4>1. q \in 1..Len(g) /\ q \notin F..(F + C - 1)
        BY <1>1, <1>3, <3>1
      <4> QED BY <1>7, <1>21, <1>23, <3>1, <4>1
    <3>2. CASE \E i \in 1..L : q = F - 1 + i /\ h[q] = <<w.id, i>>
      BY <1>23, <3>2
    <3>3. CASE \E t \in (F + C)..Len(g) : q = t + N /\ h[q] = g[t]
      <4>1. PICK t \in (F + C)..Len(g) : h[q] = g[t]
        BY <3>3
      <4>2. t \in 1..Len(g) /\ t \notin F..(F + C - 1)
        BY <1>1, <1>3
      <4> QED BY <1>7, <1>21, <1>23, <4>1, <4>2
    <3> QED BY <1>19, <3>1, <3>2, <3>3
  <2>2. ASSUME NEW x \in Wanted(B) PROVE \E q \in 1..Len(h) : x = h[q]
    <3>1. CASE x \in {<<w.id, i>> : i \in 1..L}
      BY <1>2, <1>6, <3>1
    <3>2. CASE x \in Wanted(A) \ TakenBy(w)
      <4>1. PICK t \in 1..Len(g) : x = g[t]
        BY <1>7, <3>2
      <4>2. t \notin F..(F + C - 1)
        BY <1>21, <3>2, <4>1
      <4>3. t \in 1..(F - 1) \/ t \in (F + C)..Len(g)
        BY <1>1, <1>3, <4>2
      <4> QED BY <1>2, <4>1, <4>3
    <3> QED BY <1>23, <3>1, <3>2
  <2> QED BY <1>24, <2>1, <2>2 DEF Range
<1>26. AsWritten(B, h)
  BY <1>20, <1>24, <1>25 DEF AsWritten
<1> QED BY <1>26 DEF B, h

(***************************************************************************)
(* A step.  ws are its edits as written, cs the same with the line numbers *)
(* of the file f, and A the edits that took effect before.                 *)
(***************************************************************************)
With(A, ws, m) == A \cup {ws[k] : k \in 1..m}

Ready(A, ws, cs, m, f) ==
    /\ f \in Texts /\ AsWritten(A, f)
    /\ DOMAIN ws = 1..m /\ DOMAIN cs = 1..m
    /\ GoodEdits(With(A, ws, m))
    /\ \A k \in 1..m : cs[k] \in LineEdit /\ ws[k].action # "read" /\ StandsIn(A, ws[k], cs[k], f)
    /\ \A k \in 1..m : ws[k] \notin A /\ \A a \in A : a.id < ws[k].id
    /\ \A k, l \in 1..m : k < l =>
          ws[k].id < ws[l].id /\ (ws[k].line # ws[l].line \/ ws[k].action = "insert_before")

\* Lines at their own places are in the order of these.
LEMMA PlaceOrder ==
    ASSUME NEW A, GoodEdits(A), NEW g \in Texts, AsWritten(A, g), NEW t \in 1..Len(g), NEW u \in 1..Len(g),
           Side(A, g[t]) = 1, g[t][1] = 0 \/ g[t][2] = 1, Side(A, g[u]) = 1,
           Near(A, g[t]) <= Near(A, g[u])
    PROVE  t <= u
<1> SUFFICES ASSUME u < t PROVE FALSE
  BY DEF Texts
<1>1. DOMAIN g = 1..Len(g)
  BY DEF Texts
<1>2. g[t] \in Wanted(A) /\ g[u] \in Wanted(A) /\ Above(A, g[u], g[t])
  BY <1>1 DEF AsWritten, Range
<1>3. Near(A, g[u]) < Near(A, g[t]) \/ (Near(A, g[u]) = Near(A, g[t]) /\ Side(A, g[u]) = 0)
  BY <1>2, AboveIt
<1>4. Near(A, g[u]) \in Int /\ Near(A, g[t]) \in Int
  BY <1>2, LinePlace
<1> QED BY <1>3, <1>4

\* An original line is at its own place.
LEMMA OriginalPlace ==
    ASSUME NEW A, NEW l
    PROVE  LET x == OriginalLine(l) IN x[1] = 0 /\ x[2] = l /\ Near(A, x) = l /\ Side(A, x) = 1
BY DEF OriginalLine, Near, Side

\* An edit with the line numbers of a file is one that the file can take.
LEMMA StandsWell ==
    ASSUME NEW A, NEW w, w \notin A, GoodEdits(A \cup {w}), w.action # "read",
           NEW g \in Texts, AsWritten(A, g), NEW e \in LineEdit, StandsIn(A, w, e, g)
    PROVE  WellPlaced(e, Len(g))
<1>1. Len(g) \in Nat
  BY DEF Texts
<1>2. w \in WrittenEdit
  BY DEF GoodEdits
<1>3. e.action \in {"insert_before", "insert_after", "delete", "replace"} /\ e.new \in Nat /\ e.line \in 1..Len(g)
      /\ e.action = w.action /\ e.end \in Nat
  BY DEF LineEdit, StandsIn
<1>4. CASE Takes(w)
  <2> DEFINE last == IF e.end = 0 THEN e.line ELSE e.end
  <2>1. e.line <= last /\ last \in 1..Len(g)
    BY <1>4, TakesBlock
  <2> QED BY <1>1, <1>3, <2>1 DEF WellPlaced
<1>5. CASE ~Takes(w)
  <2>1. Inserts(w)
    BY <1>3, <1>5 DEF Takes, Inserts
  <2>2. w.end = 0
    BY <1>2, <2>1, WrittenFacts
  <2>3. e.end = 0
    BY <2>2 DEF StandsIn
  <2> QED BY <1>3, <2>3 DEF WellPlaced
<1> QED BY <1>4, <1>5

\* The lines it takes, by what they are.
LEMMA StandsTakes ==
    ASSUME NEW A, NEW w, w \notin A, GoodEdits(A \cup {w}), w.action # "read",
           NEW g \in Texts, AsWritten(A, g), NEW e \in LineEdit, StandsIn(A, w, e, g)
    PROVE  /\ \A t \in TakenLines(e) : t \in 1..Len(g) /\ Takes(w) /\ \E m \in Block(w) : g[t] = OriginalLine(m)
           /\ Takes(w) => e.line \in TakenLines(e)
<1>1. CASE Takes(w)
  <2> DEFINE last == IF e.end = 0 THEN e.line ELSE e.end
  <2>1. e.line <= last /\ last \in 1..Len(g) /\ \A t \in e.line..last : \E m \in Block(w) : g[t] = OriginalLine(m)
    BY <1>1, TakesBlock
  <2>2. e.line \in 1..Len(g) /\ Len(g) \in Nat /\ e.end \in Nat
    BY DEF StandsIn, Texts, LineEdit
  <2>3. e.line + effectiveLineSpanCount(e) - 1 = last
    BY <2>1, <2>2 DEF effectiveLineSpanCount, AtLeast
  <2>4. TakenLines(e) = e.line..last
    <3>1. e.action \in {"delete", "replace"}
      BY <1>1 DEF Takes, StandsIn, LineEdit
    <3> QED BY <2>3, <3>1 DEF TakenLines
  <2> HIDE DEF last
  <2> QED BY <1>1, <2>1, <2>2, <2>4
<1>2. CASE ~Takes(w)
  <2>1. TakenLines(e) = {}
    BY <1>2 DEF Takes, StandsIn, TakenLines
  <2> QED BY <1>2, <2>1
<1> QED BY <1>1, <1>2

\* A line that stands for another edit's line is taken only when a
\* replacement of that very line begins there.
LEMMA StandsBeside ==
    ASSUME NEW A, NEW w, w \notin A, GoodEdits(A \cup {w}), NEW v \in WrittenEdit, Sensible(w, v), w.action # "read",
           NEW g \in Texts, AsWritten(A, g), NEW e \in LineEdit, StandsIn(A, w, e, g),
           NEW t \in TakenLines(e), StandsFor(A, v, g[t])
    PROVE  w.action = "replace" /\ v.action = "insert_before" /\ v.line = w.line
           /\ t = e.line /\ e.action = "replace" /\ e.new >= 1 /\ e.id = w.id
<1>1. GoodEdits(A) /\ w \in WrittenEdit
  BY GoodPart DEF GoodEdits
<1>2. PICK m \in Block(w) : t \in 1..Len(g) /\ Takes(w) /\ g[t] = OriginalLine(m) /\ e.line \in TakenLines(e)
  BY <1>1, StandsTakes
<1>3. \A l : OriginalLine(l) = OriginalLine(m) => l = m
  BY DEF OriginalLine
<1>4. v.line = m
  <2>1. CASE g[t] = OriginalLine(v.line)
    BY <1>2, <1>3, <2>1
  <2>2. CASE \E r \in A : g[t] = <<r.id, 1>>
    <3>1. PICK r \in A : g[t] = <<r.id, 1>>
      BY <2>2
    <3>2. g[t][1] = r.id /\ r.id # 0
      BY <1>1, <3>1, WrittenFacts DEF GoodEdits
    <3>3. g[t][1] = 0
      BY <1>2, OriginalPlace
    <3> QED BY <3>2, <3>3
  <2> QED BY <2>1, <2>2 DEF StandsFor
<1>5. v.line \in Block(w)
  BY <1>4
<1>6. Inserts(v)
  <2>1. v.line \in Block(v)
    BY <1>1, WrittenFacts
  <2> QED BY <1>1, <1>2, <1>5, <2>1 DEF Sensible
<1>7. w.action = "replace" /\ v.action = "insert_before" /\ v.line = w.line
  BY <1>1, <1>2, <1>5, <1>6 DEF Sensible
<1>8. g[e.line] = OriginalLine(w.line) /\ e.line \in 1..Len(g) /\ g[t] = OriginalLine(w.line)
  BY <1>2, <1>4, <1>7 DEF StandsIn, StandsFor
<1>9. t = e.line
  <2>1. w.line \in Int /\ Len(g) \in Nat
    BY <1>1, WrittenFacts DEF Texts
  <2>2. Side(A, g[t]) = 1 /\ g[t][1] = 0 /\ Near(A, g[t]) = w.line
        /\ Side(A, g[e.line]) = 1 /\ g[e.line][1] = 0 /\ Near(A, g[e.line]) = w.line
    BY <1>8, OriginalPlace
  <2>3. t <= e.line /\ e.line <= t
    BY <1>1, <1>2, <1>8, <2>1, <2>2, PlaceOrder
  <2> QED BY <1>2, <1>8, <2>1, <2>3
<1>10. e.action = "replace" /\ e.new >= 1 /\ e.id = w.id
  BY <1>1, <1>7, WrittenFacts DEF StandsIn
<1> QED BY <1>7, <1>9, <1>10

\* And the line that it ends at is not taken.
LEMMA EndBeside ==
    ASSUME NEW A, NEW w, w \notin A, GoodEdits(A \cup {w}), NEW v \in WrittenEdit, Sensible(w, v), w.action # "read",
           NEW g \in Texts, AsWritten(A, g), NEW e \in LineEdit, StandsIn(A, w, e, g),
           NEW t \in TakenLines(e), v.end # 0
    PROVE  g[t] # OriginalLine(v.end)
<1> SUFFICES ASSUME g[t] = OriginalLine(v.end) PROVE FALSE
  OBVIOUS
<1>2. PICK m \in Block(w) : t \in 1..Len(g) /\ Takes(w) /\ g[t] = OriginalLine(m)
  BY StandsTakes
<1>3. v.end = m
  BY <1>2 DEF OriginalLine
<1>4. ~Inserts(v) /\ v.end \in Block(v)
  <2>1. /\ Inserts(v) => v.end = 0
        /\ v.action \in {"insert_before", "insert_after", "replace", "delete", "read"}
        /\ v.action = "replace" => v.end \in {0} \cup v.line..FileLines
        /\ v.action \in {"delete", "read"} => v.end \in v.line..FileLines
        /\ v.line \in 1..FileLines /\ FileLines \in Nat
    BY WrittenFacts
  <2>2. v.end \in v.line..FileLines
    BY <2>1 DEF Inserts
  <2> QED BY <2>1, <2>2 DEF Block, LastLine
<1> QED BY <1>2, <1>3, <1>4 DEF Sensible

\* Which line an edit stands for, and on which line it stands.
LEMMA StandsAt ==
    ASSUME NEW A, NEW w, GoodEdits(A), NEW g \in Texts, AsWritten(A, g), NEW e, StandsIn(A, w, e, g)
    PROVE  /\ g[e.line] \in Wanted(A) /\ e.line \in 1..Len(g)
           /\ Near(A, g[e.line]) = w.line /\ Side(A, g[e.line]) = 1 /\ (g[e.line][1] = 0 \/ g[e.line][2] = 1)
<1>1. DOMAIN g = 1..Len(g)
  BY DEF Texts
<1>2. e.line \in 1..Len(g) /\ StandsFor(A, w, g[e.line])
  BY DEF StandsIn
<1>3. g[e.line] \in Wanted(A)
  BY <1>1, <1>2 DEF AsWritten, Range
<1> QED BY <1>2, <1>3, Stands

\* Two edits stand on lines in the order in which they were written for them.
LEMMA SameLine ==
    ASSUME NEW A, NEW w, NEW v, GoodEdits(A), NEW g \in Texts, AsWritten(A, g),
           NEW c, StandsIn(A, w, c, g), NEW d, StandsIn(A, v, d, g), w.line \in Int, v.line \in Int
    PROVE  /\ c.line = d.line <=> w.line = v.line
           /\ w.line <= v.line => c.line <= d.line
<1>1. /\ c.line \in 1..Len(g) /\ d.line \in 1..Len(g) /\ Len(g) \in Nat
      /\ Near(A, g[c.line]) = w.line /\ Side(A, g[c.line]) = 1 /\ (g[c.line][1] = 0 \/ g[c.line][2] = 1)
      /\ Near(A, g[d.line]) = v.line /\ Side(A, g[d.line]) = 1 /\ (g[d.line][1] = 0 \/ g[d.line][2] = 1)
  BY StandsAt DEF Texts
<1>2. w.line <= v.line => c.line <= d.line
  BY <1>1, PlaceOrder
<1>3. v.line <= w.line => d.line <= c.line
  BY <1>1, PlaceOrder
<1>4. c.line = d.line => w.line = v.line
  BY <1>1
<1> QED BY <1>1, <1>2, <1>3, <1>4

\* Of two edits with the line numbers of a file, the second begins below
\* what the first one takes.
LEMMA TwoInOrder ==
    ASSUME NEW A, NEW w, NEW v, w \notin A, GoodEdits(A \cup {w, v}), v # w, w.action # "read",
           NEW g \in Texts, AsWritten(A, g), NEW c \in LineEdit, StandsIn(A, w, c, g),
           NEW d, StandsIn(A, v, d, g),
           c.line < d.line \/ (c.line = d.line /\ w.action = "insert_before")
    PROVE  From(c) + Count(c) <= d.line
<1>1. Len(g) \in Nat /\ d.line \in 1..Len(g) /\ StandsFor(A, v, g[d.line]) /\ c.line \in Nat
      /\ c.action = w.action
  BY DEF Texts, StandsIn, LineEdit
<1>2. GoodEdits(A \cup {w}) /\ v \in WrittenEdit /\ Sensible(w, v)
  BY GoodPart DEF GoodEdits
<1>3. WellPlaced(c, Len(g))
  BY <1>2, StandsWell
<1>4. From(c) \in 1..(Len(g) + 1) /\ Count(c) \in Nat /\ effectiveLineSpanCount(c) \in Nat \ {0}
  BY <1>1, <1>3, EditFits
<1>5. CASE c.action = "insert_before"
  BY <1>1, <1>5 DEF From, Count
<1>6. CASE c.action = "insert_after"
  BY <1>1, <1>6 DEF From, Count
<1>7. CASE c.action \in {"delete", "replace"}
  <2>1. c.line < d.line
    BY <1>1, <1>7
  <2>2. From(c) + Count(c) = c.line + effectiveLineSpanCount(c)
    BY <1>7 DEF From, Count
  <2>3. SUFFICES ASSUME d.line < c.line + effectiveLineSpanCount(c) PROVE FALSE
    BY <1>1, <1>4, <2>2
  <2>4. d.line \in TakenLines(c)
    BY <1>1, <1>4, <1>7, <2>1, <2>3 DEF TakenLines
  <2>5. d.line = c.line
    BY <1>1, <1>2, <2>4, StandsBeside
  <2> QED BY <1>1, <2>1, <2>5
<1> QED BY <1>3, <1>5, <1>6, <1>7 DEF WellPlaced

\* The edits of a step in the order in which they run.
LEMMA StepInSequence ==
    ASSUME NEW A, NEW ws, NEW cs, NEW m \in Nat \ {0}, NEW f, Ready(A, ws, cs, m, f),
           NEW p \in Bijection(1..m, 1..m), \A k, l \in 1..m : k < l => Earlier(cs, p[k], p[l]),
           NEW snap, snap = [k \in 1..m |-> cs[p[k]]]
    PROVE  InSequence(snap, m, Len(f))
<1>1. f \in Texts /\ AsWritten(A, f) /\ GoodEdits(A \cup {ws[k] : k \in 1..m})
  BY DEF Ready, With
<1>2. \A k \in 1..m : p[k] \in 1..m
  BY DEF Bijection, Injection
<1>3. ASSUME NEW k \in 1..m
      PROVE  ws[k] \notin A /\ cs[k] \in LineEdit /\ ws[k].action # "read" /\ StandsIn(A, ws[k], cs[k], f)
             /\ GoodEdits(A \cup {ws[k]}) /\ WellPlaced(cs[k], Len(f)) /\ ws[k].line \in Int /\ ws[k].id \in Int
  <2>1. ws[k] \notin A /\ cs[k] \in LineEdit /\ ws[k].action # "read" /\ StandsIn(A, ws[k], cs[k], f)
    BY DEF Ready
  <2>2. GoodEdits(A \cup {ws[k]})
    BY <1>1, GoodPart
  <2>3. WellPlaced(cs[k], Len(f))
    BY <1>1, <2>1, <2>2, StandsWell
  <2>4. ws[k] \in WrittenEdit
    BY <2>2 DEF GoodEdits
  <2>5. ws[k].line \in Int /\ ws[k].id \in Int
    BY <2>4, WrittenFacts
  <2> QED BY <2>1, <2>2, <2>3, <2>5
<1>4. \A i \in 1..m : snap[i] = cs[p[i]] /\ snap[i] \in LineEdit /\ WellPlaced(snap[i], Len(f))
  BY <1>2, <1>3
<1>5. ASSUME NEW j \in 1..m, NEW i \in 1..m, j < i
      PROVE  From(snap[j]) + Count(snap[j]) <= snap[i].line
  <2> DEFINE w == ws[p[j]]
             v == ws[p[i]]
             c == cs[p[j]]
             d == cs[p[i]]
  <2>1. p[j] \in 1..m /\ p[i] \in 1..m /\ Earlier(cs, p[j], p[i])
    BY <1>2, <1>5
  <2>2. c.line < d.line \/ (c.line = d.line /\ p[j] < p[i])
    BY <2>1 DEF Earlier
  <2>7. w \notin A /\ w.action # "read" /\ c \in LineEdit /\ StandsIn(A, w, c, f) /\ StandsIn(A, v, d, f)
        /\ w.line \in Int /\ v.line \in Int /\ w.id \in Int /\ v.id \in Int
    BY <1>3, <2>1
  <2>0. c.line \in Int
    <3> HIDE DEF c
    <3> QED BY <2>7 DEF LineEdit
  <2>3. p[j] # p[i]
    BY <2>0, <2>1, <2>2
  <2>4. w # v
    <3>1. w.id # v.id
      <4>1. \A k, l \in 1..m : k < l => ws[k].id < ws[l].id
        BY DEF Ready
      <4>2. p[j] < p[i] \/ p[i] < p[j]
        BY <2>1, <2>3
      <4>3. w.id < v.id \/ v.id < w.id
        BY <2>1, <4>1, <4>2
      <4> QED BY <2>7, <4>3
    <3> QED BY <3>1
  <2>5. c.line = d.line => w.action = "insert_before"
    <3>1. SUFFICES ASSUME c.line = d.line PROVE w.action = "insert_before"
      OBVIOUS
    <3>2. p[j] < p[i]
      BY <2>0, <2>2, <3>1
    <3>3. GoodEdits(A)
      BY <1>1, GoodPart
    <3>4. w.line = v.line
      <4> HIDE DEF w, v, c, d
      <4> QED BY <1>1, <2>7, <3>1, <3>3, SameLine
    <3> QED BY <2>1, <3>2, <3>4 DEF Ready
  <2>6. GoodEdits(A \cup {w, v})
    BY <1>1, <2>1, GoodPart
  <2>8. c.line < d.line \/ (c.line = d.line /\ w.action = "insert_before")
    BY <2>2, <2>5
  <2> HIDE DEF w, v, c, d
  <2>9. From(c) + Count(c) <= d.line
    BY <1>1, <2>4, <2>6, <2>7, <2>8, TwoInOrder
  <2> QED BY <1>4, <2>9 DEF c, d
<1>6. DOMAIN snap = 1..m
  OBVIOUS
<1> QED BY <1>4, <1>5, <1>6 DEF InSequence

\* It stands for that when more edits have taken effect, too.
LEMMA StandsMore ==
    ASSUME NEW B, NEW A \in SUBSET B, NEW w, NEW e, NEW g, StandsIn(A, w, e, g)
    PROVE  StandsIn(B, w, e, g)
BY DEF StandsIn, StandsFor

\* What an edit stands for is not changed by the edits above it.
LEMMA StandsOn ==
    ASSUME NEW A, NEW w, NEW m \in Nat, NEW es, NEW f \in Texts, InSequence(es, m, Len(f)),
           NEW g, Running(es, m, f, g), NEW k \in 1..m, StandsIn(A, w, es[k], f)
    PROVE  LET e == MovedBy(es[k], Added(es, k - 1))
               h == g[k - 1]
           IN
           /\ e \in LineEdit /\ WellPlaced(e, Len(h)) /\ StandsIn(A, w, e, h)
           /\ h \in Texts /\ g[k] = ApplyEdit(e, 0, h)
<1> DEFINE e == MovedBy(es[k], Added(es, k - 1))
           h == g[k - 1]
           a == Added(es, k - 1)
           n == Len(f)
           c == es[k]
<1>0. n \in Nat
  BY DEF Texts
<1>1. k - 1 \in 0..m
  OBVIOUS
<1>2. /\ h \in Texts /\ Len(h) = n + a
      /\ \A u \in 1..n : Clear(es, k - 1, u) => u + a \in 1..Len(h) /\ h[u + a] = f[u]
  BY <1>0, <1>1, TextBelow
<1>3. /\ e \in LineEdit /\ WellPlaced(e, n + a)
      /\ e.action = c.action /\ e.id = c.id /\ e.new = c.new
      /\ e.line = c.line + a /\ e.end = (IF c.end = 0 THEN 0 ELSE c.end + a)
  BY <1>0, StepEdit
<1>4. c \in LineEdit /\ WellPlaced(c, n) /\ c.line \in 1..n /\ a \in Int /\ Clear(es, k - 1, c.line)
  BY <1>0, Terms
<1>5. g[k] = ApplyEdit(e, 0, h)
  BY DEF Running
<1>6. c.end # 0 => c.end \in c.line..n
  BY <1>4 DEF WellPlaced
<1>7. c.end # 0 => Clear(es, k - 1, c.end)
  <2> SUFFICES ASSUME c.end # 0 PROVE Clear(es, k - 1, c.end)
    OBVIOUS
  <2>1. c.line <= c.end /\ c.line \in Int /\ c.end \in Int
    BY <1>4, <1>6
  <2> HIDE DEF c
  <2> QED BY <1>0, <1>1, <1>4, <2>1, ClearDown
<1>8. c.action = w.action /\ c.id = w.id /\ c.new = w.new /\ StandsFor(A, w, f[c.line])
      /\ (c.end = 0 <=> w.end = 0)
      /\ (w.end # 0 => c.end \in 1..Len(f) /\ f[c.end] = OriginalLine(w.end))
  BY DEF StandsIn
<1> HIDE DEF e, h, a, c
<1>10. e.line \in 1..Len(h) /\ h[e.line] = f[c.line]
  BY <1>0, <1>2, <1>3, <1>4
<1>11. c.end # 0 => e.end = c.end + a /\ c.end + a \in 1..Len(h) /\ h[c.end + a] = f[c.end]
  BY <1>0, <1>2, <1>3, <1>4, <1>6, <1>7
<1>12. e.end = 0 <=> w.end = 0
  <2>1. CASE c.end = 0
    BY <1>3, <1>8, <2>1
  <2>2. CASE c.end # 0
    BY <1>8, <1>11, <2>2
  <2> QED BY <2>1, <2>2
<1>13. w.end # 0 => e.end \in 1..Len(h) /\ h[e.end] = OriginalLine(w.end)
  BY <1>8, <1>11
<1>14. StandsIn(A, w, e, h)
  BY <1>3, <1>8, <1>10, <1>12, <1>13 DEF StandsIn
<1>15. e \in LineEdit /\ WellPlaced(e, Len(h))
  BY <1>2, <1>3
<1> QED BY <1>2, <1>5, <1>14, <1>15 DEF e, h

\* How a step runs: its edits in order, rewritten, and the files in between.
Unfolds(cs, m, f, ov, p, snap, g) ==
    /\ p \in Bijection(1..m, 1..m)
    /\ \A k, l \in 1..m : k < l => Earlier(cs, p[k], p[l])
    /\ snap = [k \in 1..m |-> cs[p[k]]]
    /\ InSequence(snap, m, Len(f))
    /\ rebaseIntraStepSnapshotLineEdits(cs) = Rewritten(snap, m)
    /\ g = Stages(Rewritten(snap, m), ov, f)
    /\ Running(snap, m, f, g)

\* The edits of a step, at their places, together do to the file what they
\* were written to do.
LEMMA StepWritten ==
    ASSUME NEW A, NEW ws, NEW cs, NEW m \in Nat, NEW f, Ready(A, ws, cs, m, f),
           NEW ov, NEW p, NEW snap, NEW g, Unfolds(cs, m, f, ov, p, snap, g)
    PROVE  AsWritten(With(A, ws, m), g[m])
<1> DEFINE done(k) == {ws[p[j]] : j \in 1..k}
           P == {k \in 0..m : AsWritten(A \cup done(k), g[k])}
           n == Len(f)
<1>1. f \in Texts /\ AsWritten(A, f) /\ GoodEdits(A \cup {ws[k] : k \in 1..m}) /\ n \in Nat /\ GoodEdits(A)
  <2>1. f \in Texts /\ AsWritten(A, f) /\ GoodEdits(A \cup {ws[k] : k \in 1..m}) /\ Len(f) \in Nat
    BY DEF Ready, Texts, With
  <2> QED BY <2>1, GoodPart
<1>0. /\ p \in Bijection(1..m, 1..m) /\ \A k, l \in 1..m : k < l => Earlier(cs, p[k], p[l])
      /\ \A k \in 1..m : snap[k] = cs[p[k]]
      /\ Running(snap, m, f, g)
  BY DEF Unfolds
<1>2. \A k \in 1..m : p[k] \in 1..m
  BY <1>0 DEF Bijection, Injection
<1>3. InSequence(snap, m, n)
  BY DEF Unfolds
<1>4. \A k \in 1..m : ws[k].line \in Int /\ ws[k].id \in Int /\ StandsIn(A, ws[k], cs[k], f) /\ cs[k].line \in Int
                      /\ ws[k].action # "read"
  <2> SUFFICES ASSUME NEW k \in 1..m
               PROVE  ws[k].line \in Int /\ ws[k].id \in Int /\ StandsIn(A, ws[k], cs[k], f) /\ cs[k].line \in Int
                      /\ ws[k].action # "read"
    OBVIOUS
  <2>1. ws[k] \in WrittenEdit
    BY <1>1 DEF GoodEdits
  <2>2. ws[k].line \in Int /\ ws[k].id \in Int
    BY <2>1, WrittenFacts
  <2>3. cs[k] \in LineEdit
    BY DEF Ready
  <2> QED BY <2>2, <2>3 DEF Ready, LineEdit
<1>5. \A k, l \in 1..m : k < l => ws[k].id < ws[l].id
  BY DEF Ready
<1>6. 0 \in P
  <2>1. A \cup done(0) = A
    <3>1. 1..0 = {}
      OBVIOUS
    <3>2. done(0) = {}
      BY <3>1
    <3> QED BY <3>2
  <2>2. g[0] = f
    BY <1>0 DEF Running
  <2>3. AsWritten(A \cup done(0), g[0])
    <3>1. AsWritten(A, f)
      BY <1>1
    <3> HIDE DEF done
    <3> QED BY <2>1, <2>2, <3>1, Zenon
  <2>4. 0 \in 0..m
    OBVIOUS
  <2> HIDE DEF done
  <2> QED BY <2>3, <2>4
<1>7. ASSUME NEW k \in 1..m, k - 1 \in P PROVE k \in P
  <2> DEFINE B == A \cup done(k - 1)
             w == ws[p[k]]
             e == MovedBy(snap[k], Added(snap, k - 1))
             h == g[k - 1]
  <2>1. AsWritten(B, h)
    BY <1>7
  <2>2. p[k] \in 1..m
    BY <1>2
  \* The edits that ran before.
  <2>3. ASSUME NEW a \in done(k - 1) PROVE a.id # w.id /\ (a.line = w.line => a.id < w.id)
    <3>1. PICK j \in 1..(k - 1) : a = ws[p[j]]
      BY <2>3
    <3>2. j \in 1..m /\ j < k
      OBVIOUS
    <3>3. p[j] \in 1..m /\ Earlier(cs, p[j], p[k])
      BY <1>0, <1>2, <3>2
    <3> DEFINE i == p[j]
               l == p[k]
    <3>4. /\ i \in 1..m /\ l \in 1..m
          /\ ws[i].line \in Int /\ ws[l].line \in Int /\ ws[i].id \in Int /\ ws[l].id \in Int
          /\ cs[i].line \in Int /\ cs[l].line \in Int
          /\ StandsIn(A, ws[i], cs[i], f) /\ StandsIn(A, ws[l], cs[l], f) /\ Earlier(cs, i, l)
      BY <1>4, <2>2, <3>3
    <3> HIDE DEF i, l
    <3>5. cs[i].line = cs[l].line <=> ws[i].line = ws[l].line
      <4> DEFINE w1 == ws[i]
                 w2 == ws[l]
                 c1 == cs[i]
                 c2 == cs[l]
      <4> SUFFICES c1.line = c2.line <=> w1.line = w2.line
        OBVIOUS
      <4>1. /\ StandsIn(A, w1, c1, f) /\ StandsIn(A, w2, c2, f)
            /\ w1.line \in Int /\ w2.line \in Int /\ GoodEdits(A) /\ f \in Texts /\ AsWritten(A, f)
        BY <1>1, <3>4
      <4> HIDE DEF w1, w2, c1, c2
      <4> QED BY <4>1, SameLine
    <3>6. i # l
      BY <3>4 DEF Earlier
    <3>7. ws[i].id # ws[l].id
      <4>1. i < l \/ l < i
        BY <3>4, <3>6
      <4>2. ws[i].id < ws[l].id \/ ws[l].id < ws[i].id
        BY <1>5, <3>4, <4>1
      <4> QED BY <3>4, <4>2
    <3>8. ws[i].line = ws[l].line => ws[i].id < ws[l].id
      BY <1>5, <3>4, <3>5 DEF Earlier
    <3> QED BY <3>1, <3>7, <3>8 DEF i, l
  <2>4. w \notin B
    <3>1. w \notin A
      BY <2>2 DEF Ready
    <3>2. w \notin done(k - 1)
      BY <2>3
    <3> QED BY <3>1, <3>2
  <2>5. B \cup {w} = A \cup done(k)
    <3>1. 1..k = 1..(k - 1) \cup {k}
      OBVIOUS
    <3>2. done(k) = done(k - 1) \cup {w}
      BY <3>1
    <3> QED BY <3>2
  <2>6. GoodEdits(B \cup {w})
    <3>1. done(k) \subseteq {ws[j] : j \in 1..m}
      BY <1>2
    <3>2. A \cup done(k) \in SUBSET (A \cup {ws[j] : j \in 1..m})
      BY <3>1
    <3>3. GoodEdits(A \cup done(k))
      <4> HIDE DEF done
      <4> QED BY <1>1, <3>2, GoodPart
    <3> QED BY <2>5, <3>3
  <2>7. \A a \in B : a.line = w.line => a.id < w.id
    <3>1. \A a \in A : a.id < w.id
      BY <2>2 DEF Ready
    <3> QED BY <2>3, <3>1
  <2>8. /\ e \in LineEdit /\ WellPlaced(e, Len(h)) /\ StandsIn(B, w, e, h)
        /\ h \in Texts /\ g[k] = ApplyEdit(e, 0, h)
    <3>1. snap[k] = cs[p[k]] /\ StandsIn(A, w, snap[k], f) /\ Running(snap, m, f, g)
      BY <1>0, <1>4, <2>2
    <3>2. A \subseteq B /\ f \in Texts /\ InSequence(snap, m, Len(f)) /\ k \in 1..m /\ m \in Nat
      BY <1>1, <1>3
    <3> HIDE DEF B, w, P, n, e, h
    <3>4. /\ e \in LineEdit /\ WellPlaced(e, Len(h)) /\ StandsIn(A, w, e, h)
          /\ h \in Texts /\ g[k] = ApplyEdit(e, 0, h)
      <4>1. e \in LineEdit
        BY <3>1, <3>2, StandsOn DEF e, h
      <4>2. WellPlaced(e, Len(h))
        BY <3>1, <3>2, StandsOn DEF e, h
      <4>3. StandsIn(A, w, e, h)
        BY <3>1, <3>2, StandsOn DEF e, h
      <4>4. h \in Texts
        BY <3>1, <3>2, StandsOn DEF e, h
      <4>5. g[k] = ApplyEdit(e, 0, h)
        BY <3>1, <3>2 DEF Running, e, h
      <4> QED BY <4>1, <4>2, <4>3, <4>4, <4>5
    <3>5. StandsIn(B, w, e, h)
      BY <3>2, <3>4, StandsMore
    <3> QED BY <3>4, <3>5
  <2>9. w.action # "read"
    BY <1>4, <2>2
  <2> HIDE DEF B, w, e, h
  <2>10. AsWritten(B \cup {w}, ApplyEdit(e, 0, h))
    BY <2>1, <2>4, <2>6, <2>7, <2>8, <2>9, OneEdit
  <2>11. AsWritten(A \cup done(k), g[k])
    BY <2>5, <2>8, <2>10
  <2> QED BY <2>11
<1>8. \A k \in 0..m : k \in P
  <2> HIDE DEF P
  <2> QED BY <1>6, <1>7, CountingTo
<1>9. done(m) = {ws[k] : k \in 1..m}
  <2>1. \A i \in 1..m : \E j \in 1..m : p[j] = i
    BY <1>0 DEF Bijection, Surjection
  <2> QED BY <1>2, <2>1
<1>10. m \in 0..m
  OBVIOUS
<1> QED BY <1>8, <1>9, <1>10 DEF With

\* The line x of the text is the last one of those that edit v names.
Ends(v, x) == v.end # 0 /\ x = OriginalLine(v.end)

\* The line that a pending edit was written for is where the shifts of the
\* step put it.
LEMMA LineFollows ==
    ASSUME NEW A, NEW ws, NEW cs, NEW m \in Nat, NEW f, Ready(A, ws, cs, m, f),
           NEW ov, NEW p, NEW snap, NEW g, Unfolds(cs, m, f, ov, p, snap, g),
           NEW v, v \notin With(A, ws, m), GoodEdits(With(A, ws, m) \cup {v}),
           NEW t \in 1..Len(f)
    PROVE  LET now == t + Shift(snap, m, t) IN
           /\ Shift(snap, m, t) \in Int
           /\ StandsFor(A, v, f[t]) => now \in 1..Len(g[m]) /\ StandsFor(With(A, ws, m), v, g[m][now])
           /\ Ends(v, f[t]) => now \in 1..Len(g[m]) /\ Ends(v, g[m][now])
<1> DEFINE B == With(A, ws, m)
           n == Len(f)
           now == t + Shift(snap, m, t)
           free == \A j \in 1..m : t \notin TakenLines(snap[j])
<1>0. /\ p \in [1..m -> 1..m] /\ \A k \in 1..m : snap[k] = cs[p[k]]
      /\ InSequence(snap, m, Len(f)) /\ Running(snap, m, f, g)
  BY DEF Unfolds, Bijection, Injection
<1>1. f \in Texts /\ AsWritten(A, f) /\ n \in Nat /\ t \in Int
  BY DEF Ready, Texts
<1>2. Shift(snap, m, t) \in Int
  <2>1. m \in 0..m
    OBVIOUS
  <2> QED BY <1>0, <1>1, <2>1, ShiftUp
<1>3. Stays(snap, m, t) =>
        /\ now \in 1..Len(g[m])
        /\ free => g[m][now] = f[t]
        /\ \A j \in 1..m : t \in TakenLines(snap[j]) => g[m][now] = <<snap[j].id, 1>>
  <2>1. m \in 0..m /\ n = Len(f)
    OBVIOUS
  <2>2. f \in Texts /\ n \in Nat /\ InSequence(snap, m, n) /\ t \in 1..n /\ Running(snap, m, f, g)
    BY <1>0, <1>1
  <2> HIDE DEF n
  <2>3. CASE Stays(snap, m, t)
    <3>1. now \in 1..Len(g[m])
      BY <2>1, <2>2, <2>3, LinesStay
    <3>2. ASSUME free PROVE g[m][now] = f[t]
      BY <2>1, <2>2, <2>3, <3>2, LinesStay
    <3>3. \A j \in 1..m : t \in TakenLines(snap[j]) => g[m][now] = <<snap[j].id, 1>>
      BY <2>1, <2>2, <2>3, LinesStay, SMTT(60)
    <3> QED BY <3>1, <3>2, <3>3
  <2> QED BY <2>3
<1>4. ASSUME NEW j \in 1..m, t \in TakenLines(snap[j])
      PROVE  LET w == ws[p[j]] IN
             /\ w \in B
             /\ StandsFor(A, v, f[t]) => w.action = "replace" /\ v.action = "insert_before" /\ v.line = w.line
                                         /\ t = snap[j].line /\ snap[j].action = "replace" /\ snap[j].new >= 1
                                         /\ snap[j].id = w.id
             /\ ~Ends(v, f[t])
  <2> DEFINE w == ws[p[j]]
             e == snap[j]
  <2>1. p[j] \in 1..m /\ e = cs[p[j]]
    BY <1>0
  <2>2. e \in LineEdit /\ w.action # "read" /\ StandsIn(A, w, e, f) /\ w \notin A /\ w \in B
    BY <2>1 DEF Ready, With
  <2>3. v # w /\ A \cup {w} \in SUBSET (B \cup {v})
    BY <2>2 DEF With
  <2>4. GoodEdits(A \cup {w}) /\ v \in WrittenEdit /\ Sensible(w, v)
    <3> HIDE DEF w
    <3> QED BY <2>2, <2>3, GoodPart DEF GoodEdits
  <2> HIDE DEF w, e
  <2>5. t \in TakenLines(e)
    BY <1>4 DEF e
  <2>6. ASSUME StandsFor(A, v, f[t])
        PROVE  w.action = "replace" /\ v.action = "insert_before" /\ v.line = w.line
               /\ t = e.line /\ e.action = "replace" /\ e.new >= 1 /\ e.id = w.id
    BY <1>1, <2>2, <2>4, <2>5, <2>6, StandsBeside
  <2>7. ASSUME v.end # 0 PROVE f[t] # OriginalLine(v.end)
    BY <1>1, <2>2, <2>4, <2>5, <2>7, EndBeside
  <2> QED BY <2>2, <2>6, <2>7 DEF w, e, Ends
<1> HIDE DEF now
<1>5. ASSUME StandsFor(A, v, f[t]) PROVE now \in 1..Len(g[m]) /\ StandsFor(B, v, g[m][now])
  <2>1. Stays(snap, m, t)
    BY <1>4, <1>5 DEF Stays
  <2>2. CASE free
    <3>1. g[m][now] = f[t]
      BY <1>3, <2>1, <2>2
    <3>2. StandsFor(B, v, f[t])
      BY <1>5 DEF StandsFor, With
    <3> QED BY <1>3, <2>1, <3>1, <3>2
  <2>3. CASE ~free
    <3>1. PICK j \in 1..m : t \in TakenLines(snap[j])
      BY <2>3
    <3>2. g[m][now] = <<snap[j].id, 1>>
      BY <1>3, <2>1, <3>1
    <3>3. /\ ws[p[j]] \in B /\ ws[p[j]].action = "replace" /\ v.action = "insert_before"
          /\ v.line = ws[p[j]].line /\ snap[j].id = ws[p[j]].id
      BY <1>4, <1>5, <3>1
    <3>4. StandsFor(B, v, g[m][now])
      BY <3>2, <3>3 DEF StandsFor
    <3> QED BY <1>3, <2>1, <3>4
  <2> QED BY <2>2, <2>3
<1>6. ASSUME Ends(v, f[t]) PROVE now \in 1..Len(g[m]) /\ Ends(v, g[m][now])
  <2>1. free
    BY <1>4, <1>6
  <2>2. Stays(snap, m, t)
    BY <2>1 DEF Stays
  <2> QED BY <1>3, <1>6, <2>1, <2>2
<1> QED BY <1>2, <1>5, <1>6 DEF now

(***************************************************************************)
(* The steps to come.                                                      *)
(***************************************************************************)
CurrentEdit == [action : {"insert_before", "insert_after", "replace", "delete", "read"},
                line : Nat \ {0}, end : Nat, dest : {0}, new : Nat, id : Nat]

Renumbered(d, deltas) ==
    IF d.action = "read" THEN rebaseReadOpLineParams(d, deltas) ELSE applyDeltasToLineEdit(d, deltas)

\* Where the lines that edit v was written for are: in f, and in h.
Following(A, B, v, f, h, deltas, moved) ==
    \A t \in 1..Len(f) :
        /\ moved[t] \in Int /\ Shifted(t, deltas) = moved[t]
        /\ StandsFor(A, v, f[t]) => moved[t] \in 1..Len(h) /\ StandsFor(B, v, h[moved[t]])
        /\ Ends(v, f[t]) => moved[t] \in 1..Len(h) /\ Ends(v, h[moved[t]])

\* A pending edit that stood in the file stands in the one that the step leaves.
LEMMA EditFollows ==
    ASSUME NEW A, NEW B, NEW v, GoodEdits(B \cup {v}),
           NEW f \in Texts, NEW h \in Texts, AsWritten(B, h),
           NEW d \in CurrentEdit, StandsIn(A, v, d, f),
           NEW deltas, NEW moved, Following(A, B, v, f, h, deltas, moved)
    PROVE  Renumbered(d, deltas) \in CurrentEdit /\ StandsIn(B, v, Renumbered(d, deltas), h)
<1> DEFINE r == Renumbered(d, deltas)
           start == moved[d.line]
           last == moved[d.end]
<1>0. d.line \in 1..Len(f) /\ StandsFor(A, v, f[d.line])
      /\ (v.end # 0 => d.end \in 1..Len(f) /\ f[d.end] = OriginalLine(v.end))
  BY DEF StandsIn
<1>1. d.line \in 1..Len(f) /\ (v.end # 0 => d.end \in 1..Len(f)) /\ (d.end = 0 <=> v.end = 0)
      /\ d.action = v.action /\ d.id = v.id /\ d.new = v.new
  BY DEF StandsIn
<1>2. start \in 1..Len(h) /\ Shifted(d.line, deltas) = start /\ StandsFor(B, v, h[start]) /\ Len(h) \in Nat
      /\ Len(f) \in Nat
  <2>1. Len(h) \in Nat /\ Len(f) \in Nat
    BY DEF Texts
  <2>2. start \in 1..Len(h) /\ Shifted(d.line, deltas) = start /\ StandsFor(B, v, h[start])
    BY <1>0 DEF Following
  <2> QED BY <2>1, <2>2
<1>3. v.end # 0 => last \in 1..Len(h) /\ Shifted(d.end, deltas) = last /\ h[last] = OriginalLine(v.end)
  BY <1>0 DEF Following, Ends
<1>4. d.line \in Nat \ {0} /\ d.end \in Nat /\ d.dest = 0 /\ d.new \in Nat /\ d.id \in Nat
      /\ d.action \in {"insert_before", "insert_after", "replace", "delete", "read"}
  BY DEF CurrentEdit
<1>5. d = [action |-> d.action, line |-> d.line, end |-> d.end, dest |-> d.dest, new |-> d.new, id |-> d.id]
  BY DEF CurrentEdit
<1>6. v.end # 0 /\ v.action = "read" => start <= last
  <2> SUFFICES ASSUME v.end # 0, v.action = "read" PROVE start <= last
    OBVIOUS
  <2>1. v \in WrittenEdit /\ GoodEdits(B)
    BY GoodPart DEF GoodEdits
  <2>2. v.line \in Int /\ v.end \in Int /\ v.line <= v.end
    BY <2>1, WrittenFacts
  <2>3. h[start] = OriginalLine(v.line)
    BY <1>2 DEF StandsFor
  <2>4. h[last] = OriginalLine(v.end) /\ last \in 1..Len(h)
    BY <1>3
  <2>5. /\ Side(B, h[start]) = 1 /\ h[start][1] = 0 /\ Near(B, h[start]) = v.line
        /\ Side(B, h[last]) = 1 /\ Near(B, h[last]) = v.end
    BY <2>3, <2>4, OriginalPlace
  <2> HIDE DEF start, last
  <2> QED BY <1>2, <2>1, <2>2, <2>4, <2>5, PlaceOrder
<1> HIDE DEF start, last
<1>7. r = [action |-> d.action, line |-> start, end |-> IF v.end = 0 THEN 0 ELSE last, dest |-> 0,
           new |-> d.new, id |-> d.id]
  <2>1. CASE d.action = "read"
    <3>1. v \in WrittenEdit /\ v.action = "read"
      BY <1>1, <2>1 DEF GoodEdits
    <3>2. v.end # 0
      BY <3>1, WrittenFacts
    <3>3. AtLeast(1, Shifted(d.line, deltas)) = start
      BY <1>2 DEF AtLeast
    <3>4. AtLeast(start, Shifted(d.end, deltas)) = last
      BY <1>2, <1>3, <1>6, <3>1, <3>2 DEF AtLeast
    <3>5. r = [d EXCEPT !.line = start, !.end = last]
      BY <2>1, <3>3, <3>4 DEF Renumbered, rebaseReadOpLineParams
    <3> HIDE DEF r
    <3> QED BY <1>4, <1>5, <3>2, <3>5
  <2>2. CASE d.action # "read"
    <3> DEFINE Moved(target) == IF target > 0 THEN Shifted(target, deltas) ELSE target
    <3>1. Moved(d.line) = start
      BY <1>2, <1>4
    <3>2. Moved(d.end) = IF v.end = 0 THEN 0 ELSE last
      BY <1>1, <1>3, <1>4
    <3>3. Moved(d.dest) = 0
      BY <1>4
    <3>4. r = [d EXCEPT !.line = Moved(@), !.end = Moved(@), !.dest = Moved(@)]
      BY <2>2 DEF Renumbered, applyDeltasToLineEdit
    <3> HIDE DEF r, Moved
    <3> QED BY <1>5, <3>1, <3>2, <3>3, <3>4
  <2> QED BY <2>1, <2>2
<1> HIDE DEF r
<1>8. r.action = d.action /\ r.line = start /\ r.end = (IF v.end = 0 THEN 0 ELSE last) /\ r.new = d.new /\ r.id = d.id
  BY <1>7
<1>9. r \in CurrentEdit
  <2>1. (IF v.end = 0 THEN 0 ELSE last) \in Nat
    BY <1>2, <1>3
  <2>2. start \in Nat \ {0}
    BY <1>2
  <2> QED BY <1>4, <1>7, <2>1, <2>2 DEF CurrentEdit
<1>10. r.end = 0 <=> v.end = 0
  BY <1>2, <1>3, <1>8
<1>11. StandsIn(B, v, r, h)
  BY <1>1, <1>2, <1>3, <1>8, <1>10 DEF StandsIn
<1> QED BY <1>9, <1>11 DEF r

\* Every step that is ready runs in this way.
LEMMA StepUnfolds ==
    ASSUME NEW A, NEW ws, NEW cs, NEW m \in Nat \ {0}, NEW f, Ready(A, ws, cs, m, f),
           NEW ov, \A i \in 1..m : ov[i] = 0
    PROVE  \E p, snap, g : Unfolds(cs, m, f, ov, p, snap, g)
<1>1. DOMAIN cs = 1..m /\ \A k \in 1..m : cs[k] \in LineEdit
  BY DEF Ready
<1>2. \A k \in 1..m : cs[k].line \in Nat \ {0}
  BY <1>1 DEF LineEdit
<1>3. PICK p \in Bijection(1..m, 1..m) :
            /\ InLineOrder(cs) = [k \in 1..m |-> cs[p[k]]]
            /\ \A k, l \in 1..m : k < l => Earlier(cs, p[k], p[l])
  BY <1>1, <1>2, LinesInOrder
<1> DEFINE snap == [k \in 1..m |-> cs[p[k]]]
           rw == Rewritten(snap, m)
           g == Stages(rw, ov, f)
<1>4. InSequence(snap, m, Len(f))
  BY <1>3, StepInSequence
<1>5. snap = InLineOrder(cs) /\ Len(f) \in Nat
  BY <1>3 DEF Ready, Texts
<1> HIDE DEF snap
<1>6. rebaseIntraStepSnapshotLineEdits(cs) = rw
  BY <1>4, <1>5, Rewriting DEF Rewritten
<1>7. Running(snap, m, f, g)
  <2>1. g[0] = f /\ \A i \in 1..m : g[i] = ApplyEdit(rw[i], ov[i], g[i - 1])
    BY StagesRun
  <2>2. \A i \in 1..m : rw[i] = MovedBy(snap[i], Added(snap, i - 1))
    BY DEF Rewritten
  <2> HIDE DEF rw, g
  <2> QED BY <2>1, <2>2 DEF Running
<1>8. Unfolds(cs, m, f, ov, p, snap, g)
  <2>1. snap = [k \in 1..m |-> cs[p[k]]] /\ rw = Rewritten(snap, m) /\ g = Stages(rw, ov, f)
    BY DEF snap
  <2> HIDE DEF rw, g
  <2> QED BY <1>3, <1>4, <1>6, <1>7, <2>1 DEF Unfolds
<1> HIDE DEF g
<1> QED BY <1>8

\* A step whose edits stand on the lines they were written for: the backend accepts all its
\* renumbered edits, each at the file that the earlier ones leave, and what they leave together is
\* the file that these edits and those before them say (apply_line_edits).
THEOREM StepRuns ==
    ASSUME NEW A, NEW ws, NEW cs, NEW m \in Nat \ {0}, NEW f, Ready(A, ws, cs, m, f),
           NEW ov, \A i \in 1..m : ov[i] = 0
    PROVE  LET edits == rebaseIntraStepSnapshotLineEdits(cs)
               h == apply_line_edits(edits, ov, f)
           IN /\ DOMAIN edits = 1..m
              /\ Accepted(edits, ov, f)
              /\ h \in Texts /\ AsWritten(With(A, ws, m), h)
<1> DEFINE edits == rebaseIntraStepSnapshotLineEdits(cs)
           h == apply_line_edits(edits, ov, f)
<1>1. PICK p, snap, g : Unfolds(cs, m, f, ov, p, snap, g)
  BY StepUnfolds
<1>2. /\ p \in Bijection(1..m, 1..m) /\ \A k, l \in 1..m : k < l => Earlier(cs, p[k], p[l])
      /\ \A k \in 1..m : snap[k] = cs[p[k]]
      /\ InSequence(snap, m, Len(f)) /\ edits = Rewritten(snap, m)
      /\ g = Stages(edits, ov, f) /\ Running(snap, m, f, g)
  BY <1>1 DEF Unfolds
<1>3. f \in Texts /\ Len(f) \in Nat
  BY DEF Ready, Texts
<1>4. DOMAIN edits = 1..m /\ Len(edits) = m /\ \A i \in 1..m : edits[i] = MovedBy(snap[i], Added(snap, i - 1))
  BY <1>2 DEF Rewritten
<1>5. h = g[m]
  BY <1>2, <1>4 DEF apply_line_edits
<1> HIDE DEF edits, h
<1>6. h \in Texts
  <2>1. m \in 0..m
    OBVIOUS
  <2> DEFINE n == Len(f)
  <2>2. n \in Nat /\ InSequence(snap, m, n) /\ n = Len(f)
    BY <1>2, <1>3
  <2> HIDE DEF n
  <2>3. \A k \in 0..m : g[k] \in Texts
    BY <1>2, <1>3, <2>2, TextBelow
  <2> QED BY <1>5, <2>1, <2>3
<1>7. AsWritten(With(A, ws, m), h)
  <2>1. AsWritten(With(A, ws, m), g[m])
    BY <1>1, StepWritten
  <2> QED BY <1>5, <2>1
<1>8. ASSUME NEW i \in 1..m
      PROVE  Acceptable(edits[i], g[i - 1])
  <2> DEFINE e == MovedBy(snap[i], Added(snap, i - 1))
             t == g[i - 1]
  <2>1. StandsIn(A, ws[p[i]], snap[i], f)
    <3>1. p[i] \in 1..m
      BY <1>2 DEF Bijection, Injection
    <3> QED BY <1>2, <3>1 DEF Ready
  <2>2. e \in LineEdit
    BY <1>2, <1>3, <2>1, StandsOn
  <2>3. WellPlaced(e, Len(t))
    BY <1>2, <1>3, <2>1, StandsOn
  <2>4. t \in Texts
    BY <1>2, <1>3, <2>1, StandsOn
  <2> HIDE DEF e, t
  <2>5. e.line \in 1..Len(t) /\ Len(t) \in Nat /\ e.end \in Nat /\ e.dest = 0 /\ e.action # "move"
    BY <2>2, <2>3, <2>4 DEF LineEdit, WellPlaced, Texts
  <2>6. Acceptable(e, t)
    BY <2>5 DEF Acceptable, resolve_single_edit_line
  <2> QED BY <1>4, <2>6 DEF e, t
<1>9. Accepted(edits, ov, f)
  <2>1. \A i \in DOMAIN edits : Acceptable(edits[i], Stages(edits, ov, f)[i - 1]) /\ ov[i] = 0
    BY <1>2, <1>4, <1>8
  <2> QED BY <2>1 DEF Accepted
<1> QED BY <1>4, <1>6, <1>7, <1>9 DEF edits, h

\* And for the steps to come.
LEMMA PendingFollow ==
    ASSUME NEW A, NEW ws, NEW cs, NEW m \in Nat \ {0}, NEW f, Ready(A, ws, cs, m, f),
           NEW ov, \A i \in 1..m : ov[i] = 0,
           NEW v, v \notin With(A, ws, m), GoodEdits(With(A, ws, m) \cup {v}), NEW d \in CurrentEdit, StandsIn(A, v, d, f)
    PROVE  LET edits == rebaseIntraStepSnapshotLineEdits(cs)
               h == apply_line_edits(edits, ov, f)
               resolved == EditResolutions(edits, ov, f)
               r == Renumbered(d, computePositionalDeltas(backfillLinesFromResolved(edits, resolved)))
           IN  r \in CurrentEdit /\ StandsIn(With(A, ws, m), v, r, h)
<1> DEFINE edits == rebaseIntraStepSnapshotLineEdits(cs)
           h == apply_line_edits(edits, ov, f)
           resolved == EditResolutions(edits, ov, f)
           deltas == computePositionalDeltas(backfillLinesFromResolved(edits, resolved))
           n == Len(f)
           B == With(A, ws, m)
<1>1. PICK p, snap, g : Unfolds(cs, m, f, ov, p, snap, g)
  BY StepUnfolds
<1>2. /\ p \in [1..m -> 1..m] /\ \A k \in 1..m : snap[k] = cs[p[k]]
      /\ InSequence(snap, m, Len(f)) /\ edits = Rewritten(snap, m)
      /\ g = Stages(edits, ov, f) /\ Running(snap, m, f, g)
  BY <1>1 DEF Unfolds, Bijection, Injection
<1>3. f \in Texts /\ n \in Nat
  BY DEF Ready, Texts
<1>4. h = g[m]
  BY <1>2 DEF apply_line_edits, Rewritten
<1>5. h \in Texts /\ AsWritten(B, h)
  BY StepRuns
<1>6. \A t \in Int : Shifted(t, deltas) = t + Shift(snap, m, t)
  <2> SUFFICES ASSUME NEW t \in Int PROVE Shifted(t, deltas) = t + Shift(snap, m, t)
    OBVIOUS
  <2>1. n \in Nat /\ InSequence(snap, m, n)
    BY <1>2, <1>3
  <2> HIDE DEF n
  <2>2. Shifted(t, computePositionalDeltas(backfillLinesFromResolved(Rewritten(snap, m),
               EditResolutions(Rewritten(snap, m), ov, f)))) = t + Shift(snap, m, t)
    BY <2>1, StepDeltas
  <2> QED BY <1>2, <2>2
<1> DEFINE moved == [t \in 1..n |-> t + Shift(snap, m, t)]
<1>7. Following(A, B, v, f, h, deltas, moved)
  <2> SUFFICES ASSUME NEW t \in 1..n
               PROVE  /\ moved[t] \in Int /\ Shifted(t, deltas) = moved[t]
                      /\ StandsFor(A, v, f[t]) => moved[t] \in 1..Len(h) /\ StandsFor(B, v, h[moved[t]])
                      /\ Ends(v, f[t]) => moved[t] \in 1..Len(h) /\ Ends(v, h[moved[t]])
    BY DEF Following
  <2>1. t \in Int /\ m \in Nat
    BY <1>3
  <2>2. moved[t] = t + Shift(snap, m, t) /\ Shifted(t, deltas) = moved[t]
    BY <1>6, <2>1
  <2> DEFINE now == t + Shift(snap, m, t)
  <2>3. Shift(snap, m, t) \in Int
    BY <1>1, <2>1, LineFollows
  <2>4. ASSUME StandsFor(A, v, f[t]) PROVE now \in 1..Len(g[m]) /\ StandsFor(B, v, g[m][now])
    BY <1>1, <2>1, <2>4, LineFollows
  <2>5. ASSUME Ends(v, f[t]) PROVE now \in 1..Len(g[m]) /\ Ends(v, g[m][now])
    BY <1>1, <2>1, <2>5, LineFollows
  <2> HIDE DEF moved, deltas, h, edits, B
  <2> QED BY <1>4, <2>1, <2>2, <2>3, <2>4, <2>5
<1> HIDE DEF moved, deltas, h, edits, B
<1>8. GoodEdits(B \cup {v})
  BY DEF B
<1>12. Renumbered(d, deltas) \in CurrentEdit
  BY <1>3, <1>5, <1>7, <1>8, EditFollows
<1>13. StandsIn(B, v, Renumbered(d, deltas), h)
  BY <1>3, <1>5, <1>7, <1>8, EditFollows
<1> QED BY <1>12, <1>13 DEF deltas, h, edits, B

(***************************************************************************)
(* The inductive invariant, of a file f, the steps st still to run, the    *)
(* same steps au as they were written, and the set A of edits that took    *)
(* effect.                                                                 *)
(***************************************************************************)
Todo(au) == UNION {Range(au[s]) : s \in DOMAIN au}

SameSteps(st, au) ==
    /\ st \in Seq(Seq(CurrentEdit)) /\ au \in Seq(Seq(WrittenEdit))
    /\ Len(st) = Len(au)
    /\ \A s \in 1..Len(au) : Len(st[s]) = Len(au[s]) /\ Len(au[s]) >= 1

\* Within a step.
StepInOrder(w) ==
    \A k, l \in 1..Len(w) : k < l =>
        /\ w[k].id < w[l].id
        /\ w[k].line # w[l].line \/ w[k].action = "insert_before"
        /\ w[k].action # "read" /\ w[l].action # "read"

\* One step after the other.
BatchInOrder(au, A) ==
    /\ \A s \in 1..Len(au) : StepInOrder(au[s])
    /\ \A s, r \in 1..Len(au) : s < r =>
          \A k \in 1..Len(au[s]) : \A l \in 1..Len(au[r]) : au[s][k].id < au[r][l].id
    /\ \A a \in A : \A s \in 1..Len(au) : \A k \in 1..Len(au[s]) : a.id < au[s][k].id

StepsStand(f, st, au, A) ==
    \A s \in 1..Len(au) : \A k \in 1..Len(au[s]) : StandsIn(A, au[s][k], st[s][k], f)

Sound(f, st, au, A) ==
    /\ SameSteps(st, au)
    /\ GoodEdits(A \cup Todo(au))
    /\ BatchInOrder(au, A)
    /\ f \in Texts /\ AsWritten(A, f)
    /\ StepsStand(f, st, au, A)

IInv == Sound(file, steps, authored, applied)

\* The steps after the first.
LEMMA TailSteps ==
    ASSUME NEW T, NEW q \in Seq(T), q # << >>
    PROVE  /\ Len(q) >= 1 /\ Head(q) = q[1] /\ Tail(q) \in Seq(T) /\ Len(Tail(q)) = Len(q) - 1
           /\ \A s \in 1..(Len(q) - 1) : Tail(q)[s] = q[s + 1] /\ s + 1 \in 1..Len(q)
OBVIOUS

\* A pending edit, as it was written and as it is now.
LEMMA Pending ==
    ASSUME NEW f, NEW st, NEW au, NEW A, Sound(f, st, au, A), NEW s \in 1..Len(au), NEW k \in 1..Len(au[s])
    PROVE  /\ au[s][k] \in WrittenEdit /\ st[s][k] \in CurrentEdit /\ au[s][k] \in Todo(au)
           /\ StandsIn(A, au[s][k], st[s][k], f)
<1>1. /\ st \in Seq(Seq(CurrentEdit)) /\ au \in Seq(Seq(WrittenEdit)) /\ Len(st) = Len(au)
      /\ Len(st[s]) = Len(au[s])
  BY DEF Sound, SameSteps
<1>2. st[s] \in Seq(CurrentEdit) /\ au[s] \in Seq(WrittenEdit)
  BY <1>1
<1>3. au[s][k] \in WrittenEdit /\ st[s][k] \in CurrentEdit
  BY <1>1, <1>2
<1>4. au[s][k] \in Todo(au)
  <2>1. s \in DOMAIN au /\ k \in DOMAIN au[s]
    BY <1>1, <1>2
  <2> QED BY <2>1 DEF Todo, Range
<1> QED BY <1>3, <1>4 DEF Sound, StepsStand

\* A step that changes nothing.
LEMMA StepDropped ==
    ASSUME NEW f, NEW st, NEW au, NEW A, Sound(f, st, au, A), st # << >>
    PROVE  Sound(f, Tail(st), Tail(au), A)
<1> DEFINE tst == Tail(st)
           tau == Tail(au)
<1>1. /\ st \in Seq(Seq(CurrentEdit)) /\ au \in Seq(Seq(WrittenEdit)) /\ Len(st) = Len(au)
      /\ \A s \in 1..Len(au) : Len(st[s]) = Len(au[s]) /\ Len(au[s]) >= 1
  BY DEF Sound, SameSteps
<1>2. au # << >>
  BY <1>1
<1>3. /\ tst \in Seq(Seq(CurrentEdit)) /\ Len(tst) = Len(st) - 1
      /\ \A s \in 1..(Len(st) - 1) : tst[s] = st[s + 1] /\ s + 1 \in 1..Len(st)
  BY <1>1, TailSteps
<1>4. /\ tau \in Seq(Seq(WrittenEdit)) /\ Len(tau) = Len(au) - 1
      /\ \A s \in 1..(Len(au) - 1) : tau[s] = au[s + 1] /\ s + 1 \in 1..Len(au)
  BY <1>1, <1>2, TailSteps
<1> HIDE DEF tst, tau
<1>5. \A s \in 1..Len(tau) : s + 1 \in 1..Len(au) /\ tau[s] = au[s + 1] /\ tst[s] = st[s + 1]
  BY <1>1, <1>3, <1>4
<1>6. SameSteps(tst, tau)
  BY <1>1, <1>3, <1>4, <1>5 DEF SameSteps
<1>7. GoodEdits(A \cup Todo(tau))
  <2>1. DOMAIN tau = 1..Len(tau) /\ DOMAIN au = 1..Len(au)
    BY <1>1, <1>4
  <2>2. \A s \in DOMAIN tau : \E r \in DOMAIN au : tau[s] = au[r]
    BY <1>5, <2>1
  <2>3. Todo(tau) \subseteq Todo(au)
    BY <2>2 DEF Todo
  <2>4. A \cup Todo(tau) \in SUBSET (A \cup Todo(au))
    BY <2>3
  <2> QED BY <2>4, GoodPart DEF Sound
<1>8. BatchInOrder(tau, A)
  <2>1. BatchInOrder(au, A)
    BY DEF Sound
  <2>2. \A s \in 1..Len(tau) : StepInOrder(tau[s])
    BY <1>5, <2>1 DEF BatchInOrder
  <2>3. ASSUME NEW s \in 1..Len(tau), NEW r \in 1..Len(tau), s < r,
               NEW k \in 1..Len(tau[s]), NEW l \in 1..Len(tau[r])
        PROVE  tau[s][k].id < tau[r][l].id
    <3>1. s + 1 \in 1..Len(au) /\ r + 1 \in 1..Len(au) /\ s + 1 < r + 1
      BY <1>5, <2>3
    <3> QED BY <1>5, <2>1, <3>1 DEF BatchInOrder
  <2>4. ASSUME NEW a \in A, NEW s \in 1..Len(tau), NEW k \in 1..Len(tau[s])
        PROVE  a.id < tau[s][k].id
    BY <1>5, <2>1 DEF BatchInOrder
  <2> QED BY <2>2, <2>3, <2>4 DEF BatchInOrder
<1>9. StepsStand(f, tst, tau, A)
  BY <1>5 DEF Sound, StepsStand
<1> QED BY <1>6, <1>7, <1>8, <1>9 DEF Sound, tst, tau

\* The first step is ready to run, when it edits.
LEMMA HeadReady ==
    ASSUME NEW f, NEW st, NEW au, NEW A, Sound(f, st, au, A), st # << >>, Head(st)[1].action # "read"
    PROVE  LET m == Len(Head(au)) IN
           m \in Nat \ {0} /\ Ready(A, Head(au), Head(st), m, f) /\ With(A, Head(au), m) \subseteq A \cup Todo(au)
<1> DEFINE ws == au[1]
           cs == st[1]
           m == Len(ws)
<1>1. /\ st \in Seq(Seq(CurrentEdit)) /\ au \in Seq(Seq(WrittenEdit)) /\ Len(st) = Len(au)
      /\ \A s \in 1..Len(au) : Len(st[s]) = Len(au[s]) /\ Len(au[s]) >= 1
  BY DEF Sound, SameSteps
<1>2. au # << >> /\ 1 \in 1..Len(au)
  BY <1>1
<1>3. Head(au) = ws /\ Head(st) = cs
  BY <1>1, <1>2, TailSteps
<1>4. ws \in Seq(WrittenEdit) /\ cs \in Seq(CurrentEdit) /\ Len(cs) = m /\ m \in Nat \ {0}
  BY <1>1, <1>2
<1>5. DOMAIN ws = 1..m /\ DOMAIN cs = 1..m
  BY <1>4
<1>6. \A k \in 1..m : ws[k] \in Todo(au) /\ ws[k] \in WrittenEdit /\ cs[k] \in CurrentEdit /\ StandsIn(A, ws[k], cs[k], f)
  BY <1>2, Pending
<1>7. With(A, ws, m) \in SUBSET (A \cup Todo(au))
  BY <1>6 DEF With
<1>8. GoodEdits(With(A, ws, m))
  BY <1>7, GoodPart DEF Sound
<1>9. \A a \in A : \A k \in 1..m : a.id < ws[k].id
  BY <1>2 DEF Sound, BatchInOrder
<1>10. \A k, l \in 1..m : k < l =>
         /\ ws[k].id < ws[l].id
         /\ ws[k].line # ws[l].line \/ ws[k].action = "insert_before"
         /\ ws[k].action # "read" /\ ws[l].action # "read"
  BY <1>2 DEF Sound, BatchInOrder, StepInOrder
<1> HIDE DEF ws, cs, m
<1>11. ws[1].action # "read"
  BY <1>3, <1>4, <1>6 DEF StandsIn
<1>12. ASSUME NEW k \in 1..m PROVE ws[k].action # "read" /\ cs[k] \in LineEdit /\ ws[k] \notin A
  <2>1. ws[k].action # "read"
    <3>1. 1 \in 1..m /\ (k = 1 \/ 1 < k)
      BY <1>4
    <3> QED BY <1>10, <1>11, <3>1
  <2> DEFINE c == cs[k]
  <2>2. c \in CurrentEdit /\ c.action # "read"
    BY <1>6, <2>1 DEF StandsIn
  <2>3. c \in LineEdit
    <3> HIDE DEF c
    <3> QED BY <2>2 DEF CurrentEdit, LineEdit
  <2>4. ws[k].id \in Int
    BY <1>6, WrittenFacts
  <2>5. ws[k] \notin A
    BY <1>9, <2>4
  <2> QED BY <2>1, <2>3, <2>5
<1>13. f \in Texts /\ AsWritten(A, f)
  BY DEF Sound
<1>14. Ready(A, ws, cs, m, f)
  BY <1>5, <1>6, <1>8, <1>9, <1>10, <1>12, <1>13 DEF Ready
<1>15. m = Len(ws)
  BY DEF m
<1> QED BY <1>3, <1>4, <1>7, <1>14, <1>15

\* The steps after it, when it has run.
LEMMA TailPending ==
    ASSUME NEW f, NEW st, NEW au, NEW A, Sound(f, st, au, A), st # << >>, Head(st)[1].action # "read",
           NEW s \in 1..Len(Tail(au)), NEW k \in 1..Len(Tail(au)[s])
    PROVE  LET v == Tail(au)[s][k]
               d == Tail(st)[s][k]
               B == With(A, Head(au), Len(Head(au)))
           IN v \notin B /\ GoodEdits(B \cup {v}) /\ d \in CurrentEdit /\ StandsIn(A, v, d, f)
<1> DEFINE ws == Head(au)
           m == Len(ws)
           B == With(A, ws, m)
           v == au[s + 1][k]
           d == st[s + 1][k]
<1>1. /\ st \in Seq(Seq(CurrentEdit)) /\ au \in Seq(Seq(WrittenEdit)) /\ Len(st) = Len(au)
  BY DEF Sound, SameSteps
<1>2. au # << >>
  BY <1>1
<1>3. /\ Head(au) = au[1] /\ Len(au) >= 1 /\ Len(Tail(au)) = Len(au) - 1
      /\ \A i \in 1..(Len(au) - 1) : Tail(au)[i] = au[i + 1] /\ i + 1 \in 1..Len(au)
  BY <1>1, <1>2, TailSteps
<1>4. \A i \in 1..(Len(st) - 1) : Tail(st)[i] = st[i + 1]
  BY <1>1, TailSteps
<1>5. s + 1 \in 1..Len(au) /\ 1 \in 1..Len(au) /\ 1 < s + 1 /\ Tail(au)[s] = au[s + 1] /\ Tail(st)[s] = st[s + 1]
  BY <1>1, <1>3, <1>4
<1>6. k \in 1..Len(au[s + 1])
  BY <1>5
<1>7. v \in WrittenEdit /\ d \in CurrentEdit /\ v \in Todo(au) /\ StandsIn(A, v, d, f)
  BY <1>5, <1>6, Pending
<1>8. B \subseteq A \cup Todo(au)
  BY HeadReady
<1>9. GoodEdits(B \cup {v})
  <2>1. B \cup {v} \in SUBSET (A \cup Todo(au))
    BY <1>7, <1>8
  <2> QED BY <2>1, GoodPart DEF Sound
<1>10. v.id \in Int
  BY <1>7, WrittenFacts
<1>11. v \notin A
  <2>1. \A a \in A : a.id < v.id
    BY <1>5, <1>6 DEF Sound, BatchInOrder
  <2> QED BY <1>10, <2>1
<1>12. \A j \in 1..m : v # ws[j]
  <2>1. \A j \in 1..m : ws[j].id < v.id
    BY <1>3, <1>5, <1>6 DEF Sound, BatchInOrder
  <2> QED BY <1>10, <2>1
<1>13. v \notin B
  BY <1>11, <1>12 DEF With
<1> QED BY <1>5, <1>7, <1>9, <1>13

\* A step that the backend applies.
LEMMA StepTaken ==
    ASSUME NEW f, NEW st, NEW au, NEW A, Sound(f, st, au, A), st # << >>, Head(st)[1].action # "read",
           NEW ov, \A i \in 1..Len(Head(au)) : ov[i] = 0
    PROVE  LET edits == rebaseIntraStepSnapshotLineEdits(Head(st))
               h == apply_line_edits(edits, ov, f)
               deltas == computePositionalDeltas(backfillLinesFromResolved(edits, EditResolutions(edits, ov, f)))
           IN Sound(h, rebaseSubsequentSteps(Tail(st), deltas), Tail(au), With(A, Head(au), Len(Head(au))))
<1> DEFINE edits == rebaseIntraStepSnapshotLineEdits(Head(st))
           h == apply_line_edits(edits, ov, f)
           resolved == EditResolutions(edits, ov, f)
           deltas == computePositionalDeltas(backfillLinesFromResolved(edits, resolved))
           ws == Head(au)
           m == Len(ws)
           B == With(A, ws, m)
           tau == Tail(au)
           tst == Tail(st)
           new == rebaseSubsequentSteps(tst, deltas)
<1>1. m \in Nat \ {0} /\ Ready(A, ws, Head(st), m, f) /\ B \subseteq A \cup Todo(au)
  BY HeadReady
<1>2. h \in Texts /\ AsWritten(B, h)
  BY <1>1, StepRuns
<1>3. Sound(f, tst, tau, A)
  BY StepDropped
<1>4. ASSUME NEW s \in 1..Len(tau), NEW k \in 1..Len(tau[s])
      PROVE  Renumbered(tst[s][k], deltas) \in CurrentEdit /\ StandsIn(B, tau[s][k], Renumbered(tst[s][k], deltas), h)
  <2> DEFINE v == tau[s][k]
             d == tst[s][k]
  <2>1. v \notin B /\ GoodEdits(B \cup {v}) /\ d \in CurrentEdit /\ StandsIn(A, v, d, f)
    BY TailPending
  <2> HIDE DEF v, d
  <2> SUFFICES Renumbered(d, deltas) \in CurrentEdit /\ StandsIn(B, v, Renumbered(d, deltas), h)
    BY DEF v, d
  <2>2. Renumbered(d, deltas) \in CurrentEdit
    BY <1>1, <2>1, PendingFollow
  <2>3. StandsIn(B, v, Renumbered(d, deltas), h)
    BY <1>1, <2>1, PendingFollow
  <2> QED BY <2>2, <2>3
<1>5. /\ tst \in Seq(Seq(CurrentEdit)) /\ tau \in Seq(Seq(WrittenEdit)) /\ Len(tst) = Len(tau)
      /\ \A s \in 1..Len(tau) : Len(tst[s]) = Len(tau[s]) /\ Len(tau[s]) >= 1
  BY <1>3 DEF Sound, SameSteps
<1>6. /\ DOMAIN tst = 1..Len(tau) /\ DOMAIN tau = 1..Len(tau)
      /\ \A s \in 1..Len(tau) : DOMAIN tst[s] = 1..Len(tau[s]) /\ Len(tau[s]) \in Nat /\ DOMAIN tau[s] = 1..Len(tau[s])
  <2>1. \A s \in 1..Len(tau) : tst[s] \in Seq(CurrentEdit) /\ tau[s] \in Seq(WrittenEdit)
    BY <1>5
  <2> QED BY <1>5, <2>1
<1>7. new = [s \in 1..Len(tau) |-> [k \in 1..Len(tau[s]) |-> Renumbered(tst[s][k], deltas)]]
  BY <1>6 DEF rebaseSubsequentSteps, Renumbered
<1> HIDE DEF edits, h, resolved, deltas, B, tst, tau, new
<1>8. SameSteps(new, tau)
  <2>1. Len(tau) \in Nat
    BY <1>5
  <2>2. ASSUME NEW s \in 1..Len(tau) PROVE new[s] \in Seq(CurrentEdit) /\ Len(new[s]) = Len(tau[s])
    <3>1. new[s] = [k \in 1..Len(tau[s]) |-> Renumbered(tst[s][k], deltas)]
      BY <1>7
    <3> QED BY <1>4, <1>6, <3>1
  <2>3. DOMAIN new = 1..Len(tau) /\ Len(new) = Len(tau)
    BY <1>7, <2>1
  <2>4. new \in Seq(Seq(CurrentEdit))
    BY <1>7, <2>1, <2>2
  <2> QED BY <1>5, <2>2, <2>3, <2>4 DEF SameSteps
<1>9. GoodEdits(B \cup Todo(tau))
  <2>1. Todo(tau) \subseteq Todo(au)
    <3>1. au \in Seq(Seq(WrittenEdit)) /\ au # << >>
      BY DEF Sound, SameSteps
    <3>2. Len(tau) = Len(au) - 1 /\ \A s \in 1..(Len(au) - 1) : tau[s] = au[s + 1] /\ s + 1 \in 1..Len(au)
      BY <3>1, TailSteps DEF tau
    <3>3. \A s \in DOMAIN tau : \E r \in DOMAIN au : tau[s] = au[r]
      <4> SUFFICES ASSUME NEW s \in DOMAIN tau PROVE s + 1 \in DOMAIN au /\ tau[s] = au[s + 1]
        OBVIOUS
      <4>1. s \in 1..(Len(au) - 1) /\ DOMAIN au = 1..Len(au)
        BY <1>6, <3>1, <3>2
      <4> QED BY <3>2, <4>1
    <3> QED BY <3>3 DEF Todo
  <2>2. B \cup Todo(tau) \in SUBSET (A \cup Todo(au))
    BY <1>1, <2>1 DEF B
  <2> QED BY <2>2, GoodPart DEF Sound
<1>10. BatchInOrder(tau, B)
  <2>1. BatchInOrder(tau, A)
    BY <1>3 DEF Sound
  <2>2. ASSUME NEW a \in B, NEW s \in 1..Len(tau), NEW k \in 1..Len(tau[s])
        PROVE  a.id < tau[s][k].id
    <3>1. CASE a \in A
      BY <2>1, <3>1 DEF BatchInOrder
    <3>2. CASE \E j \in 1..m : a = ws[j]
      <4>1. PICK j \in 1..m : a = ws[j]
        BY <3>2
      <4>2. au \in Seq(Seq(WrittenEdit)) /\ au # << >> /\ BatchInOrder(au, A)
        BY DEF Sound, SameSteps
      <4>3. /\ ws = au[1] /\ Len(tau) = Len(au) - 1 /\ 1 \in 1..Len(au)
            /\ \A i \in 1..(Len(au) - 1) : tau[i] = au[i + 1] /\ i + 1 \in 1..Len(au)
        BY <4>2, TailSteps DEF tau
      <4>4. s + 1 \in 1..Len(au) /\ 1 < s + 1 /\ tau[s] = au[s + 1]
        BY <4>2, <4>3
      <4>5. ws[j].id < au[s + 1][k].id
        BY <4>2, <4>3, <4>4 DEF BatchInOrder
      <4> QED BY <4>1, <4>4, <4>5
    <3> QED BY <3>1, <3>2 DEF B, With
  <2> QED BY <2>1, <2>2 DEF BatchInOrder
<1>11. StepsStand(h, new, tau, B)
  BY <1>4, <1>7 DEF StepsStand
<1>12. Sound(h, new, tau, B)
  BY <1>2, <1>8, <1>9, <1>10, <1>11 DEF Sound
<1> QED BY <1>12 DEF edits, h, resolved, deltas, B, tst, tau, new

\* Every edit of a step is among those that run, by its identity.
LEMMA StepIds ==
    ASSUME NEW A, NEW ws, NEW cs, NEW m \in Nat \ {0}, NEW f, Ready(A, ws, cs, m, f)
    PROVE  LET edits == rebaseIntraStepSnapshotLineEdits(cs) IN
           DOMAIN edits = 1..m /\ \A k \in 1..m : \E i \in 1..m : edits[i].id = ws[k].id
<1> DEFINE edits == rebaseIntraStepSnapshotLineEdits(cs)
           ov == [i \in 1..m |-> 0]
<1>1. PICK p, snap, g : Unfolds(cs, m, f, ov, p, snap, g)
  <2>1. \A i \in 1..m : ov[i] = 0
    OBVIOUS
  <2> HIDE DEF ov
  <2> QED BY <2>1, StepUnfolds
<1>2. /\ p \in Bijection(1..m, 1..m) /\ \A k \in 1..m : snap[k] = cs[p[k]]
      /\ InSequence(snap, m, Len(f)) /\ edits = Rewritten(snap, m)
  BY <1>1 DEF Unfolds
<1> HIDE DEF edits
<1>3. ASSUME NEW k \in 1..m PROVE \E i \in 1..m : edits[i].id = ws[k].id
  <2>1. PICK i \in 1..m : p[i] = k
    BY <1>2 DEF Bijection, Surjection
  <2>2. Len(f) \in Nat /\ StandsIn(A, ws[k], cs[k], f)
    BY DEF Ready, Texts
  <2>3. edits[i] = MovedBy(snap[i], Added(snap, i - 1)) /\ snap[i] = cs[k]
    BY <1>2, <2>1 DEF Rewritten
  <2>4. edits[i].id = snap[i].id
    <3> DEFINE n == Len(f)
    <3>1. n \in Nat /\ InSequence(snap, m, n) /\ m \in Nat
      BY <1>2, <2>2
    <3> HIDE DEF n
    <3>2. MovedBy(snap[i], Added(snap, i - 1)).id = snap[i].id
      BY <3>1, StepEdit
    <3> QED BY <2>3, <3>2
  <2> QED BY <2>2, <2>3, <2>4 DEF StandsIn
<1>4. DOMAIN edits = 1..m
  BY <1>2 DEF Rewritten
<1> QED BY <1>3, <1>4 DEF edits

\* A replacement of all its lines takes effect as it was written.
LEMMA Unshortened ==
    ASSUME NEW w \in WrittenEdit, NEW z, z = 0
    PROVE  [w EXCEPT !.new = @ - z] = w
<1>1. w.new \in Nat
  BY WrittenFacts
<1>2. w.new - z = w.new
  BY <1>1
<1>3. w = [action |-> w.action, line |-> w.line, end |-> w.end, dest |-> w.dest, new |-> w.new, id |-> w.id]
  BY DEF WrittenEdit
<1> QED BY <1>2, <1>3

\* An edit step keeps the invariant.
LEMMA EditStepSound ==
    ASSUME ~Overlapping, IInv, EditStep
    PROVE  IInv'
<1> DEFINE ws == Head(authored)
           m == Len(ws)
           edits == rebaseIntraStepSnapshotLineEdits(Head(steps))
           h(ov) == apply_line_edits(edits, ov, file)
           deltas(ov) == computePositionalDeltas(backfillLinesFromResolved(edits, EditResolutions(edits, ov, file)))
           Taken(k) == CHOOSE i \in DOMAIN edits : edits[i].id = ws[k].id
<1>1. steps # << >> /\ Head(steps)[1].action # "read" /\ authored' = Tail(authored)
  BY DEF EditStep
<1>2. PICK ov \in [DOMAIN edits -> {0}] :
         /\ file' = h(ov)
         /\ steps' = rebaseSubsequentSteps(Tail(steps), deltas(ov))
         /\ applied' = applied \cup {[ws[k] EXCEPT !.new = @ - ov[Taken(k)]] : k \in DOMAIN ws}
  BY DEF EditStep
<1>3. m \in Nat \ {0} /\ Ready(applied, ws, Head(steps), m, file)
  BY <1>1, HeadReady DEF IInv
<1>4. DOMAIN edits = 1..m /\ \A k \in 1..m : \E i \in 1..m : edits[i].id = ws[k].id
  <2> HIDE DEF ws, m
  <2> DEFINE cs == Head(steps)
  <2> HIDE DEF cs
  <2>1. Ready(applied, ws, cs, m, file) /\ edits = rebaseIntraStepSnapshotLineEdits(cs)
    BY <1>3 DEF cs
  <2> HIDE DEF edits
  <2>2. DOMAIN edits = 1..m
    BY <1>3, <2>1, StepIds
  <2>3. \A k \in 1..m : \E i \in 1..m : edits[i].id = ws[k].id
    BY <1>3, <2>1, StepIds
  <2> QED BY <2>2, <2>3
<1>5. \A i \in 1..m : ov[i] = 0
  BY <1>4
<1>6. applied' = With(applied, ws, m)
  <2>1. DOMAIN ws = 1..m /\ GoodEdits(With(applied, ws, m))
    BY <1>3 DEF Ready
  <2>2. ASSUME NEW k \in 1..m PROVE [ws[k] EXCEPT !.new = @ - ov[Taken(k)]] = ws[k]
    <3>1. Taken(k) \in 1..m
      BY <1>4
    <3>2. ov[Taken(k)] = 0
      BY <1>5, <3>1
    <3>3. ws[k] \in WrittenEdit
      BY <2>1 DEF GoodEdits, With
    <3> HIDE DEF Taken, ws
    <3> QED BY <3>2, <3>3, Unshortened
  <2>3. {[ws[k] EXCEPT !.new = @ - ov[Taken(k)]] : k \in DOMAIN ws} = {ws[k] : k \in 1..m}
    <3> DEFINE taken(k) == [ws[k] EXCEPT !.new = @ - ov[Taken(k)]]
    <3>1. DOMAIN ws = 1..m /\ \A k \in 1..m : taken(k) = ws[k]
      BY <2>1, <2>2
    <3> HIDE DEF taken
    <3>2. {taken(k) : k \in DOMAIN ws} = {ws[k] : k \in 1..m}
      BY <3>1
    <3> QED BY <3>2 DEF taken
  <2> QED BY <1>2, <2>3 DEF With
<1>7. Sound(file, steps, authored, applied)
  BY DEF IInv
<1>8. Sound(h(ov), rebaseSubsequentSteps(Tail(steps), deltas(ov)), Tail(authored), With(applied, ws, m))
  <2> HIDE DEF IInv
  <2> QED BY <1>1, <1>5, <1>7, StepTaken
<1>9. Sound(file', steps', authored', applied')
  BY <1>1, <1>2, <1>6, <1>8
<1> QED BY <1>9 DEF IInv

\* So does every step.
LEMMA StepKeeps ==
    ASSUME ~Overlapping, IInv, [Next]_vars
    PROVE  IInv'
<1>1. CASE EditStep
  BY <1>1, EditStepSound
<1>2. CASE ReadStep \/ StepFails
  <2>1. /\ steps # << >> /\ steps' = Tail(steps) /\ authored' = Tail(authored)
        /\ file' = file /\ applied' = applied
    BY <1>2 DEF ReadStep, StepFails
  <2>2. Sound(file, Tail(steps), Tail(authored), applied)
    BY <2>1, StepDropped DEF IInv
  <2>3. Sound(file', steps', authored', applied')
    BY <2>1, <2>2
  <2> QED BY <2>3 DEF IInv
<1>3. CASE UNCHANGED vars
  <2>1. file' = file /\ steps' = steps /\ authored' = authored /\ applied' = applied
    BY <1>3 DEF vars
  <2>2. Sound(file', steps', authored', applied')
    BY <2>1 DEF IInv
  <2> QED BY <2>2 DEF IInv
<1> QED BY <1>1, <1>2, <1>3 DEF Next

\* What the invariant says of the properties.
LEMMA TargetsKept == IInv => TargetsFollow
<1> SUFFICES ASSUME IInv, NEW s \in DOMAIN steps, NEW k \in DOMAIN steps[s]
             PROVE  LET Follows(written, now) ==
                          written # 0 /\ (\E t \in DOMAIN file : file[t] = OriginalLine(written)) =>
                              now \in DOMAIN file /\ file[now] = OriginalLine(written)
                    IN /\ Follows(authored[s][k].line, steps[s][k].line)
                       /\ Follows(authored[s][k].end, steps[s][k].end)
                       /\ Follows(authored[s][k].dest, steps[s][k].dest)
  BY DEF TargetsFollow
<1> DEFINE v == authored[s][k]
           d == steps[s][k]
<1>1. /\ steps \in Seq(Seq(CurrentEdit)) /\ authored \in Seq(Seq(WrittenEdit)) /\ Len(steps) = Len(authored)
      /\ \A r \in 1..Len(authored) : Len(steps[r]) = Len(authored[r])
  BY DEF IInv, Sound, SameSteps
<1>2. s \in 1..Len(authored)
  BY <1>1
<1>3. steps[s] \in Seq(CurrentEdit)
  BY <1>1
<1>4. k \in 1..Len(authored[s])
  BY <1>1, <1>2, <1>3
<1>5. v \in WrittenEdit /\ StandsIn(applied, v, d, file)
  BY <1>2, <1>4, Pending DEF IInv
<1>6. file \in Texts /\ AsWritten(applied, file) /\ GoodEdits(applied) /\ DOMAIN file = 1..Len(file)
  BY GoodPart DEF IInv, Sound, Texts
<1> HIDE DEF v, d
<1>7. ASSUME NEW t \in DOMAIN file, file[t] = OriginalLine(v.line)
      PROVE  d.line \in DOMAIN file /\ file[d.line] = OriginalLine(v.line)
  <2>1. d.line \in DOMAIN file /\ StandsFor(applied, v, file[d.line])
    BY <1>5, <1>6 DEF StandsIn
  <2>2. OriginalLine(v.line) \in Wanted(applied)
    BY <1>6, <1>7 DEF AsWritten, Range
  <2>3. \A e \in applied : Takes(e) => v.line \notin Block(e)
    <3> DEFINE x == OriginalLine(v.line)
    <3>1. x[1] = 0 /\ x[2] = v.line
      BY OriginalPlace
    <3> HIDE DEF x
    <3>2. PICK l \in 1..FileLines : x[2] = l /\ \A e \in applied : Takes(e) => l \notin Block(e)
      BY <1>6, <2>2, <3>1, LineKinds DEF x
    <3> QED BY <3>1, <3>2
  <2>4. \A r \in applied : r.action = "replace" => r.line # v.line
    <3>1. \A r \in applied : r.line \in Block(r)
      BY <1>6, WrittenFacts DEF GoodEdits
    <3> QED BY <2>3, <3>1 DEF Takes
  <2>5. file[d.line] = OriginalLine(v.line)
    BY <2>1, <2>4 DEF StandsFor
  <2> QED BY <2>1, <2>5
<1>8. v.end # 0 => d.end \in DOMAIN file /\ file[d.end] = OriginalLine(v.end)
  BY <1>5, <1>6 DEF StandsIn
<1>9. v.dest = 0
  BY <1>5, WrittenFacts
<1> QED BY <1>7, <1>8, <1>9 DEF v, d

\* The first step is accepted by the backend.
LEMMA StepsKept == IInv => StepsApplicable
<1> SUFFICES ASSUME IInv, steps # << >>, Head(steps)[1].action # "read"
             PROVE  LET edits == rebaseIntraStepSnapshotLineEdits(Head(steps)) IN
                    Accepted(edits, [i \in DOMAIN edits |-> 0], file)
  BY DEF StepsApplicable
<1> DEFINE ws == Head(authored)
           m == Len(ws)
           edits == rebaseIntraStepSnapshotLineEdits(Head(steps))
           ov == [i \in 1..m |-> 0]
<1>1. m \in Nat \ {0} /\ Ready(applied, ws, Head(steps), m, file)
  BY HeadReady DEF IInv
<1>2. DOMAIN edits = 1..m
  BY <1>1, StepIds
<1>3. Accepted(edits, ov, file)
  <2>1. \A i \in 1..m : ov[i] = 0
    OBVIOUS
  <2> HIDE DEF ov, m, ws
  <2> QED BY <1>1, <2>1, StepRuns
<1>4. [i \in DOMAIN edits |-> 0] = ov
  BY <1>2
<1> HIDE DEF edits, ov
<1> QED BY <1>3, <1>4 DEF edits

(***************************************************************************)
(* The batch as it is written.                                             *)
(***************************************************************************)

\* An edit of the batch.
LEMMA PlanEdits ==
    ASSUME "move" \notin Actions, NEW e \in Edits
    PROVE  /\ e.action \in {"insert_before", "insert_after", "replace", "delete", "read"}
           /\ e.line \in 1..FileLines /\ e.end \in Nat /\ e.dest = 0 /\ e.new \in Nat
           /\ Inserts(e) => e.end = 0
           /\ e.action = "replace" => e.end \in {0} \cup e.line..FileLines /\ e.new >= 1
           /\ e.action \in {"delete", "read"} => e.end \in e.line..FileLines /\ e.new = 0
<1> DEFINE S1 == {Edit(a, l, 0, 0, n) : a \in Actions \cap {"insert_before", "insert_after"},
                                        l \in 1..FileLines, n \in 1..MaxNew}
           S2 == UNION {{Edit(a, l, k, 0, n) : k \in l..FileLines, n \in 1..MaxNew} :
                            a \in Actions \cap {"replace"}, l \in 1..FileLines}
           S3 == {Edit(a, l, 0, 0, n) : a \in Actions \cap {"replace"}, l \in 1..FileLines, n \in 1..MaxNew}
           S4 == UNION {{Edit(a, l, k, 0, 0) : k \in l..FileLines} :
                            a \in Actions \cap {"delete", "read"}, l \in 1..FileLines}
           S5 == UNION {{Edit("move", l, k, d, 0) : k \in l..FileLines, d \in 1..FileLines} :
                            a \in Actions \cap {"move"}, l \in 1..FileLines}
<1>1. FileLines \in Nat /\ MaxNew \in Nat
  BY LineRebaseAssumption
<1>2. e \in S1 \/ e \in S2 \/ e \in S3 \/ e \in S4 \/ e \in S5
  BY DEF Edits
<1>3. CASE e \in S1
  <2>1. PICK a \in {"insert_before", "insert_after"}, l \in 1..FileLines, n \in 1..MaxNew : e = Edit(a, l, 0, 0, n)
    BY <1>3
  <2>2. e.action = a /\ e.line = l /\ e.end = 0 /\ e.dest = 0 /\ e.new = n
    BY <2>1 DEF Edit
  <2> QED BY <1>1, <2>1, <2>2 DEF Inserts
<1>4. CASE e \in S2
  <2>1. PICK l \in 1..FileLines : \E k \in l..FileLines, n \in 1..MaxNew : e = Edit("replace", l, k, 0, n)
    BY <1>4
  <2>2. PICK k \in l..FileLines, n \in 1..MaxNew : e = Edit("replace", l, k, 0, n)
    BY <2>1
  <2>3. e.action = "replace" /\ e.line = l /\ e.end = k /\ e.dest = 0 /\ e.new = n
    BY <2>2 DEF Edit
  <2> QED BY <1>1, <2>3 DEF Inserts
<1>5. CASE e \in S3
  <2>1. PICK l \in 1..FileLines, n \in 1..MaxNew : e = Edit("replace", l, 0, 0, n)
    BY <1>5
  <2>2. e.action = "replace" /\ e.line = l /\ e.end = 0 /\ e.dest = 0 /\ e.new = n
    BY <2>1 DEF Edit
  <2> QED BY <1>1, <2>2 DEF Inserts
<1>6. CASE e \in S4
  <2>1. PICK a \in {"delete", "read"}, l \in 1..FileLines : \E k \in l..FileLines : e = Edit(a, l, k, 0, 0)
    BY <1>6
  <2>2. PICK k \in l..FileLines : e = Edit(a, l, k, 0, 0)
    BY <2>1
  <2>3. e.action = a /\ e.line = l /\ e.end = k /\ e.dest = 0 /\ e.new = 0
    BY <2>2 DEF Edit
  <2> QED BY <1>1, <2>1, <2>3 DEF Inserts
<1>7. CASE e \in S5
  BY <1>7
<1> QED BY <1>2, <1>3, <1>4, <1>5, <1>6, <1>7

\* The edits of the batch, each with its identity.
LEMMA IdentifiedPlan ==
    ASSUME "move" \notin Actions, NEW plan \in Batches
    PROVE  LET q == Identified(plan) IN
           /\ Len(plan) \in Nat \ {0} /\ Len(q) = Len(plan) /\ q \in Seq(WrittenEdit) /\ q \in Seq(CurrentEdit)
           /\ \A i \in 1..Len(q) : /\ q[i].id = i
                                   /\ q[i].line = plan[i].line /\ q[i].action = plan[i].action
           /\ \A i, j \in 1..Len(q) : i # j => Sensible(q[i], q[j])
<1> DEFINE q == Identified(plan)
<1>1. PICK m \in 1..MaxEdits : plan \in [1..m -> Edits]
  BY DEF Batches
<1>2. m \in Nat \ {0} /\ Len(plan) = m /\ DOMAIN plan = 1..m
  BY <1>1, LineRebaseAssumption
<1>3. \A i, j \in 1..m : i # j => Sensible(plan[i], plan[j])
  BY <1>2 DEF Batches
<1>4. ASSUME NEW i \in 1..m
      PROVE  /\ q[i].action = plan[i].action /\ q[i].line = plan[i].line /\ q[i].end = plan[i].end
             /\ q[i].dest = plan[i].dest /\ q[i].new = plan[i].new /\ q[i].id = i
             /\ q[i] = [action |-> plan[i].action, line |-> plan[i].line, end |-> plan[i].end,
                        dest |-> plan[i].dest, new |-> plan[i].new, id |-> i]
  BY <1>2 DEF Identified
<1>5. DOMAIN q = 1..m
  BY <1>2 DEF Identified
<1> HIDE DEF q
<1>6. ASSUME NEW i \in 1..m PROVE q[i] \in WrittenEdit /\ q[i] \in CurrentEdit
  <2> DEFINE e == plan[i]
             w == q[i]
  <2>1. e \in Edits /\ i \in Nat \ {0}
    BY <1>1
  <2>2. /\ w.action = e.action /\ w.line = e.line /\ w.end = e.end
        /\ w.dest = e.dest /\ w.new = e.new /\ w.id = i
        /\ w = [action |-> e.action, line |-> e.line, end |-> e.end, dest |-> e.dest, new |-> e.new, id |-> i]
    BY <1>4
  <2> HIDE DEF e, w
  <2>3. /\ e.action \in {"insert_before", "insert_after", "replace", "delete", "read"}
        /\ e.line \in 1..FileLines /\ e.end \in Nat /\ e.dest = 0 /\ e.new \in Nat
        /\ Inserts(e) => e.end = 0
        /\ e.action = "replace" => e.end \in {0} \cup e.line..FileLines /\ e.new >= 1
        /\ e.action \in {"delete", "read"} => e.end \in e.line..FileLines /\ e.new = 0
    BY <2>1, PlanEdits
  <2>4. w \in [action : {"insert_before", "insert_after", "replace", "delete", "read"},
               line : 1..FileLines, end : Nat, dest : {0}, new : Nat, id : Nat \ {0}]
    BY <2>1, <2>2, <2>3
  <2>5. Inserts(w) => w.end = 0
    BY <2>2, <2>3 DEF Inserts
  <2>6. w \in WrittenEdit
    BY <2>2, <2>3, <2>4, <2>5 DEF WrittenEdit
  <2>7. e.line \in Nat \ {0}
    BY <2>3, LineRebaseAssumption
  <2>8. w \in CurrentEdit
    BY <2>1, <2>2, <2>3, <2>7 DEF CurrentEdit
  <2> QED BY <2>6, <2>8 DEF w
<1>7. ASSUME NEW i \in 1..m, NEW j \in 1..m, i # j PROVE Sensible(q[i], q[j])
  <2>1. Sensible(plan[i], plan[j])
    BY <1>3, <1>7
  <2>2. Takes(q[i]) <=> Takes(plan[i])
    BY <1>4 DEF Takes
  <2>3. Inserts(q[j]) <=> Inserts(plan[j])
    BY <1>4 DEF Inserts
  <2>4. Block(q[i]) = Block(plan[i]) /\ Block(q[j]) = Block(plan[j])
    BY <1>4 DEF Block, LastLine
  <2>5. /\ q[i].action = plan[i].action /\ q[i].line = plan[i].line
        /\ q[j].action = plan[j].action /\ q[j].line = plan[j].line /\ q[j].dest = plan[j].dest
    BY <1>4
  <2> QED BY <2>1, <2>2, <2>3, <2>4, <2>5 DEF Sensible
<1>8. Len(q) = m
  BY <1>2, <1>5
<1>9. q = [i \in 1..m |-> q[i]]
  BY <1>4, <1>5 DEF q, Identified
<1>10. q \in Seq(WrittenEdit) /\ q \in Seq(CurrentEdit)
  BY <1>2, <1>6, <1>9
<1> QED BY <1>2, <1>4, <1>7, <1>8, <1>10 DEF q

\* A batch of n edits, cut into c steps: step s is made of the edits after last[s-1] up to last[s].
Sliced(last, c, n, cut) ==
    /\ last \in [0..c -> 0..n] /\ last[0] = 0
    /\ \A s, r \in 0..c : s < r => last[s] < last[r]
    /\ \A s \in 1..c : \A x \in cut : ~(last[s - 1] < x /\ x < last[s])

\* Steps cuts the batch right after the edits of cut, and nowhere else.
LEMMA Slices ==
    ASSUME NEW n \in Nat \ {0}, NEW q, Len(q) = n, NEW cut \in SUBSET (1..(n - 1))
    PROVE  \E c \in Nat \ {0} : \E last :
              /\ Sliced(last, c, n, cut)
              /\ Steps(q, cut) = [s \in 1..c |-> SubSeq(q, last[s - 1] + 1, last[s])]
<1> DEFINE E == cut \cup {n}
           c == Cardinality(E)
           R == {e \in E \X E : e[1] < e[2]}
           r == Rank(R, E)
           LastOf(s) == CHOOSE i \in E : Cardinality({j \in E : j <= i}) = s
           last == [s \in 0..c |-> IF s = 0 THEN 0 ELSE LastOf(s)]
<1>1. E \in SUBSET (1..n) /\ n \in E
  OBVIOUS
<1>2. IsFiniteSet(E)
  <2>1. IsFiniteSet(1..n)
    BY FS_Interval
  <2> QED BY <1>1, <2>1, FS_Subset
<1>3. c \in Nat /\ (c = 0 <=> E = {})
  BY <1>2, FS_CardinalityType, FS_EmptySet
<1>4. c \in Nat \ {0}
  BY <1>1, <1>3
<1>5. Steps(q, cut) = [s \in 1..c |-> SubSeq(q, IF s = 1 THEN 1 ELSE LastOf(s - 1) + 1, LastOf(s))]
  BY DEF Steps
<1>6. \A x, y \in E : <<x, y>> \in R <=> x < y
  OBVIOUS
<1>7. R \subseteq E \X E
  OBVIOUS
<1>8. \A x \in E : x \in 1..n
  BY <1>1
<1>9. \A x \in cut : x \in E
  OBVIOUS
<1> HIDE DEF R, E
<1>10. StrictOrder(R, E)
  BY <1>6, <1>7, <1>8 DEF StrictOrder
<1>11. r \in Bijection(E, 1..c) /\ \A x, y \in E : x < y => r[x] < r[y]
  BY <1>2, <1>6, <1>10, RanksOrder
<1>12. ASSUME NEW i \in E PROVE Cardinality({j \in E : j <= i}) = r[i]
  <2>1. {j \in E : j <= i} = Below(R, E, i) \cup {i}
    BY <1>6, <1>8 DEF Below
  <2>2. i \notin Below(R, E, i)
    BY <1>6, <1>8 DEF Below
  <2>3. IsFiniteSet(Below(R, E, i))
    <3>1. Below(R, E, i) \in SUBSET E
      BY DEF Below
    <3> QED BY <1>2, <3>1, FS_Subset
  <2>4. Cardinality(Below(R, E, i) \cup {i}) = Cardinality(Below(R, E, i)) + 1
    BY <2>2, <2>3, FS_AddElement
  <2> QED BY <2>1, <2>4 DEF Rank
<1> HIDE DEF r, c
<1>13. r \in [E -> 1..c] /\ \A s \in 1..c : \E i \in E : r[i] = s
  BY <1>11 DEF Bijection, Injection, Surjection
<1>14. ASSUME NEW s \in 1..c PROVE LastOf(s) \in E /\ r[LastOf(s)] = s
  <2>1. \E i \in E : Cardinality({j \in E : j <= i}) = s
    BY <1>12, <1>13
  <2>2. LastOf(s) \in E /\ Cardinality({j \in E : j <= LastOf(s)}) = s
    BY <2>1
  <2> QED BY <1>12, <2>2
<1> HIDE DEF LastOf
<1>15. ASSUME NEW s \in 1..c, NEW u \in 1..c, s < u PROVE LastOf(s) < LastOf(u)
  <2> DEFINE x == LastOf(s)
             y == LastOf(u)
  <2>1. x \in E /\ y \in E /\ r[x] = s /\ r[y] = u
    BY <1>14
  <2> HIDE DEF x, y
  <2>2. x # y /\ ~(y < x)
    BY <1>4, <1>11, <1>15, <2>1
  <2>3. x \in 1..n /\ y \in 1..n
    BY <1>8, <2>1
  <2>4. x < y
    BY <2>2, <2>3
  <2> QED BY <2>4 DEF x, y
<1>16. \A s \in 1..c : LastOf(s) \in 1..n
  BY <1>8, <1>14
<1>17. last[0] = 0 /\ \A s \in 1..c : last[s] = LastOf(s)
  BY <1>4
<1>18. last \in [0..c -> 0..n]
  BY <1>4, <1>16
<1> HIDE DEF last
<1>19. ASSUME NEW s \in 0..c, NEW u \in 0..c, s < u PROVE last[s] < last[u]
  <2>1. u \in 1..c /\ last[u] \in 1..n /\ last[u] = LastOf(u)
    BY <1>4, <1>16, <1>17, <1>19
  <2>2. CASE s = 0
    BY <1>17, <2>1, <2>2
  <2>3. CASE s # 0
    <3>1. s \in 1..c
      BY <1>4, <2>3
    <3> QED BY <1>15, <1>17, <1>19, <2>1, <3>1
  <2> QED BY <2>2, <2>3
<1>20. ASSUME NEW s \in 1..c, NEW x \in cut, last[s - 1] < x, x < last[s] PROVE FALSE
  <2>1. x \in E /\ r[x] \in 1..c
    BY <1>9, <1>13
  <2>2. r[x] < s
    BY <1>11, <1>14, <1>17, <1>20, <2>1
  <2>3. s # 1
    BY <1>4, <2>1, <2>2
  <2>4. s - 1 \in 1..c
    BY <1>4, <2>3
  <2>5. s - 1 < r[x]
    BY <1>11, <1>14, <1>17, <1>20, <2>1, <2>4
  <2> QED BY <1>4, <2>1, <2>2, <2>5
<1>21. Sliced(last, c, n, cut)
  BY <1>17, <1>18, <1>19, <1>20 DEF Sliced
<1>22. Steps(q, cut) = [s \in 1..c |-> SubSeq(q, last[s - 1] + 1, last[s])]
  <2> DEFINE A(s) == SubSeq(q, IF s = 1 THEN 1 ELSE LastOf(s - 1) + 1, LastOf(s))
             B(s) == SubSeq(q, last[s - 1] + 1, last[s])
  <2>1. ASSUME NEW s \in 1..c PROVE A(s) = B(s)
    <3>1. (IF s = 1 THEN 1 ELSE LastOf(s - 1) + 1) = last[s - 1] + 1
      <4>1. CASE s = 1
        BY <1>17, <4>1
      <4>2. CASE s # 1
        <5>1. s - 1 \in 1..c
          BY <1>4, <4>2
        <5> QED BY <1>17, <4>2, <5>1
      <4> QED BY <4>1, <4>2
    <3> QED BY <1>17, <3>1
  <2> HIDE DEF A, B
  <2>2. [s \in 1..c |-> A(s)] = [s \in 1..c |-> B(s)]
    BY <2>1
  <2> QED BY <1>5, <2>2 DEF A, B
<1> QED BY <1>4, <1>21, <1>22

\* A part of a sequence.
LEMMA Section ==
    ASSUME NEW T, NEW q \in Seq(T), NEW a \in 0..Len(q), NEW b \in 0..Len(q), a < b
    PROVE  /\ SubSeq(q, a + 1, b) \in Seq(T) /\ Len(SubSeq(q, a + 1, b)) = b - a
           /\ \A k \in 1..(b - a) : SubSeq(q, a + 1, b)[k] = q[a + k] /\ a + k \in 1..Len(q)
OBVIOUS

\* The file before any edit.
LEMMA FirstText ==
    LET f == [l \in 1..FileLines |-> OriginalLine(l)] IN
    f \in Texts /\ Len(f) = FileLines /\ AsWritten({}, f)
<1> DEFINE f == [l \in 1..FileLines |-> OriginalLine(l)]
<1>1. FileLines \in Nat
  BY LineRebaseAssumption
<1>2. \A l \in 1..FileLines : f[l] = OriginalLine(l) /\ OriginalLine(l) \in Nat \X Nat
  BY <1>1 DEF OriginalLine
<1>3. f \in Texts /\ Len(f) = FileLines /\ DOMAIN f = 1..FileLines
  BY <1>1, <1>2 DEF Texts
<1>4. Range(f) = Wanted({})
  <2>1. Range(f) = {OriginalLine(l) : l \in 1..FileLines}
    BY <1>3 DEF Range
  <2>2. Wanted({}) = {OriginalLine(l) : l \in 1..FileLines}
    BY DEF Wanted
  <2> QED BY <2>1, <2>2
<1>5. ASSUME NEW t \in 1..FileLines, NEW u \in 1..FileLines, t < u PROVE Above({}, f[t], f[u])
  <2>1. Near({}, f[t]) = t /\ Near({}, f[u]) = u
    BY <1>2, OriginalPlace
  <2> HIDE DEF f
  <2> QED BY <1>5, <2>1 DEF Above
<1> HIDE DEF f
<1>6. AsWritten({}, f)
  BY <1>3, <1>4, <1>5 DEF AsWritten
<1> QED BY <1>3, <1>6 DEF f

\* Before any edit, an edit stands where it was written.
LEMMA StandsAtFirst ==
    ASSUME NEW w \in WrittenEdit, NEW f, f = [l \in 1..FileLines |-> OriginalLine(l)]
    PROVE  StandsIn({}, w, w, f)
<1>1. w.line \in 1..FileLines /\ (w.end # 0 => w.end \in 1..FileLines) /\ Len(f) = FileLines
  <2>1. LastLine(w) \in w.line..FileLines /\ w.line \in 1..FileLines /\ w.end \in Nat
    BY WrittenFacts
  <2>2. Len(f) = FileLines
    BY FirstText
  <2> QED BY <2>1, <2>2, LineRebaseAssumption DEF LastLine
<1>2. \A l \in 1..FileLines : f[l] = OriginalLine(l)
  OBVIOUS
<1>3. w.line \in 1..Len(f) /\ f[w.line] = OriginalLine(w.line)
  BY <1>1, <1>2
<1>4. w.end # 0 => w.end \in 1..Len(f) /\ f[w.end] = OriginalLine(w.end)
  BY <1>1, <1>2
<1> QED BY <1>3, <1>4 DEF StandsIn, StandsFor

\* The batch, as it is written, satisfies the invariant.
LEMMA InitSound ==
    ASSUME "move" \notin Actions, ~SharedLines, Init
    PROVE  IInv
<1>1. PICK plan \in Batches : \E cut \in Cuts(plan) : steps = Steps(Identified(plan), cut)
  BY DEF Init
<1>2. PICK cut \in Cuts(plan) : steps = Steps(Identified(plan), cut)
  BY <1>1
<1>3. file = [l \in 1..FileLines |-> OriginalLine(l)] /\ authored = steps /\ applied = {}
  BY DEF Init
<1> DEFINE q == Identified(plan)
           n == Len(plan)
<1>4. n \in Nat \ {0} /\ Len(q) = n /\ q \in Seq(WrittenEdit) /\ q \in Seq(CurrentEdit)
  BY IdentifiedPlan
<1>5. \A i \in 1..n : q[i].id = i /\ q[i].line = plan[i].line /\ q[i].action = plan[i].action
  BY <1>4, IdentifiedPlan
<1>6. \A i, j \in 1..n : i # j => Sensible(q[i], q[j])
  BY <1>4, IdentifiedPlan
<1>7. DOMAIN plan = 1..n
  <2>1. PICK m \in 1..MaxEdits : plan \in [1..m -> Edits]
    BY DEF Batches
  <2> QED BY <2>1, LineRebaseAssumption
<1>8. cut \in SUBSET (1..(n - 1))
  BY DEF Cuts
<1>9. ASSUME NEW i \in 1..n, NEW j \in 1..n, i < j, \A x \in cut : ~(i <= x /\ x < j)
      PROVE  /\ q[i].line # q[j].line \/ q[i].action = "insert_before"
             /\ q[i].action # "read" /\ q[j].action # "read"
  <2>1. Together(cut, i, j)
    BY <1>8, <1>9 DEF Together
  <2>2. /\ "read" \notin {plan[i].action, plan[j].action}
        /\ plan[i].line # plan[j].line \/ plan[i].action = "insert_before"
    BY <1>7, <1>9, <2>1 DEF Cuts
  <2>3. plan[i].action # "read" /\ plan[j].action # "read"
    BY <2>2
  <2> HIDE DEF q, n
  <2> QED BY <1>5, <2>2, <2>3
<1>10. steps = Steps(q, cut)
  BY <1>2
<1> HIDE DEF q, n
<1>11. \E c \in Nat \ {0} : \E last :
          Sliced(last, c, n, cut) /\ Steps(q, cut) = [s \in 1..c |-> SubSeq(q, last[s - 1] + 1, last[s])]
  BY <1>4, <1>8, Slices
<1>12. PICK c \in Nat \ {0} : \E last :
          Sliced(last, c, n, cut) /\ Steps(q, cut) = [s \in 1..c |-> SubSeq(q, last[s - 1] + 1, last[s])]
  BY <1>11
<1>13. PICK last : Sliced(last, c, n, cut) /\ Steps(q, cut) = [s \in 1..c |-> SubSeq(q, last[s - 1] + 1, last[s])]
  BY <1>12
<1> DEFINE a(s) == last[s - 1]
           b(s) == last[s]
<1>14. ASSUME NEW s \in 1..c
       PROVE  a(s) \in 0..n /\ b(s) \in 0..n /\ a(s) < b(s) /\ \A x \in cut : ~(a(s) < x /\ x < b(s))
  <2>1. s \in 0..c /\ s - 1 \in 0..c /\ s - 1 < s
    BY <1>12
  <2> QED BY <1>13, <2>1 DEF Sliced
<1>15. ASSUME NEW s \in 1..c, NEW r \in 1..c, s < r PROVE b(s) <= a(r)
  <2>1. s \in 0..c /\ r - 1 \in 0..c /\ (s = r - 1 \/ s < r - 1)
    BY <1>12, <1>15
  <2>2. last[s] \in 0..n
    BY <1>14
  <2>3. s < r - 1 => last[s] < last[r - 1]
    BY <1>13, <2>1 DEF Sliced
  <2>4. last[r - 1] \in 0..n
    BY <1>14
  <2> QED BY <1>4, <2>1, <2>2, <2>3, <2>4
<1>16. steps = [s \in 1..c |-> SubSeq(q, a(s) + 1, b(s))]
  BY <1>10, <1>13
<1> HIDE DEF a, b
<1>17. ASSUME NEW s \in 1..c
       PROVE  /\ steps[s] \in Seq(WrittenEdit) /\ steps[s] \in Seq(CurrentEdit)
              /\ Len(steps[s]) = b(s) - a(s) /\ Len(steps[s]) >= 1
              /\ \A k \in 1..(b(s) - a(s)) : steps[s][k] = q[a(s) + k] /\ a(s) + k \in 1..n
  <2>1. a(s) \in 0..Len(q) /\ b(s) \in 0..Len(q) /\ a(s) < b(s) /\ steps[s] = SubSeq(q, a(s) + 1, b(s))
    BY <1>4, <1>14, <1>16
  <2>2. steps[s] \in Seq(WrittenEdit)
    BY <1>4, <2>1, Section
  <2>3. steps[s] \in Seq(CurrentEdit)
    BY <1>4, <2>1, Section
  <2>4. Len(steps[s]) = b(s) - a(s)
    BY <1>4, <2>1, Section
  <2>5. \A k \in 1..(b(s) - a(s)) : steps[s][k] = q[a(s) + k] /\ a(s) + k \in 1..n
    <3> DEFINE x == a(s)
               y == b(s)
    <3>1. x \in 0..Len(q) /\ y \in 0..Len(q) /\ x < y /\ steps[s] = SubSeq(q, x + 1, y)
      BY <2>1
    <3> HIDE DEF x, y
    <3>2. \A k \in 1..(y - x) : steps[s][k] = q[x + k] /\ x + k \in 1..n
      BY <1>4, <3>1, Section
    <3> QED BY <3>2 DEF x, y
  <2>6. b(s) - a(s) >= 1
    BY <1>4, <2>1
  <2> QED BY <2>2, <2>3, <2>4, <2>5, <2>6
<1>18. Len(steps) = c /\ DOMAIN steps = 1..c
  BY <1>12, <1>16
<1>19. steps \in Seq(Seq(CurrentEdit)) /\ steps \in Seq(Seq(WrittenEdit))
  <2>1. steps = [s \in 1..c |-> steps[s]]
    BY <1>16
  <2>2. \A s \in 1..c : steps[s] \in Seq(WrittenEdit) /\ steps[s] \in Seq(CurrentEdit)
    BY <1>17
  <2> HIDE DEF a, b
  <2> QED BY <1>12, <2>1, <2>2
<1>20. SameSteps(steps, authored)
  BY <1>3, <1>17, <1>18, <1>19 DEF SameSteps
<1>21. \A w \in Todo(authored) : \E i \in 1..n : w = q[i]
  <2> SUFFICES ASSUME NEW s \in 1..c, NEW w \in Range(steps[s]) PROVE \E i \in 1..n : w = q[i]
    BY <1>3, <1>18 DEF Todo
  <2>1. DOMAIN steps[s] = 1..(b(s) - a(s))
    BY <1>17
  <2>2. PICK k \in 1..(b(s) - a(s)) : w = steps[s][k]
    BY <2>1 DEF Range
  <2> QED BY <1>17, <2>2
<1>22. GoodEdits({} \cup Todo(authored))
  <2>1. Todo(authored) \subseteq WrittenEdit
    <3>1. \A i \in 1..n : q[i] \in WrittenEdit
      BY <1>4
    <3> QED BY <1>21, <3>1
  <2>2. ASSUME NEW v \in Todo(authored), NEW w \in Todo(authored)
        PROVE  (v.id = w.id => v = w) /\ (v # w => Sensible(v, w))
    <3>1. PICK i \in 1..n : v = q[i]
      BY <1>21
    <3>2. PICK j \in 1..n : w = q[j]
      BY <1>21
    <3>3. v.id = i /\ w.id = j
      BY <1>5, <3>1, <3>2
    <3> QED BY <1>6, <3>1, <3>2, <3>3
  <2>3. {} \cup Todo(authored) = Todo(authored)
    OBVIOUS
  <2> QED BY <2>1, <2>2, <2>3 DEF GoodEdits
<1>23. ASSUME NEW s \in 1..c PROVE StepInOrder(authored[s])
  <2> SUFFICES ASSUME NEW k \in 1..Len(steps[s]), NEW l \in 1..Len(steps[s]), k < l
               PROVE  /\ steps[s][k].id < steps[s][l].id
                      /\ steps[s][k].line # steps[s][l].line \/ steps[s][k].action = "insert_before"
                      /\ steps[s][k].action # "read" /\ steps[s][l].action # "read"
    BY <1>3 DEF StepInOrder
  <2> DEFINE i == a(s) + k
             j == a(s) + l
  <2>1. k \in 1..(b(s) - a(s)) /\ l \in 1..(b(s) - a(s))
    BY <1>17
  <2>2. steps[s][k] = q[i] /\ i \in 1..n /\ steps[s][l] = q[j] /\ j \in 1..n
    BY <1>17, <2>1
  <2>3. i < j
    BY <1>4, <1>14
  <2>4. ASSUME NEW x \in cut PROVE ~(i <= x /\ x < j)
    <3>1. ~(a(s) < x /\ x < b(s)) /\ x \in 1..(n - 1)
      BY <1>8, <1>14
    <3> QED BY <1>4, <1>14, <2>1, <3>1
  <2> HIDE DEF i, j
  <2> QED BY <1>5, <1>9, <2>2, <2>3, <2>4
<1>24. ASSUME NEW s \in 1..c, NEW r \in 1..c, s < r, NEW k \in 1..Len(authored[s]), NEW l \in 1..Len(authored[r])
       PROVE  authored[s][k].id < authored[r][l].id
  <2>1. k \in 1..(b(s) - a(s)) /\ l \in 1..(b(r) - a(r))
    BY <1>3, <1>17
  <2>2. /\ authored[s][k].id = a(s) + k
        /\ authored[r][l].id = a(r) + l
    BY <1>3, <1>5, <1>17, <2>1
  <2>3. a(s) \in Int /\ b(s) \in Int /\ a(r) \in Int /\ b(s) <= a(r)
    BY <1>14, <1>15, <1>24
  <2> QED BY <2>1, <2>2, <2>3
<1>25. BatchInOrder(authored, {})
  BY <1>3, <1>18, <1>23, <1>24 DEF BatchInOrder
<1>26. file \in Texts /\ AsWritten({}, file)
  BY <1>3, FirstText
<1>27. StepsStand(file, steps, authored, {})
  <2> SUFFICES ASSUME NEW s \in 1..c, NEW k \in 1..Len(steps[s]) PROVE StandsIn({}, steps[s][k], steps[s][k], file)
    BY <1>3, <1>18 DEF StepsStand
  <2>1. steps[s][k] \in WrittenEdit
    BY <1>17
  <2> QED BY <1>3, <2>1, StandsAtFirst
<1> QED BY <1>3, <1>20, <1>22, <1>25, <1>26, <1>27 DEF IInv, Sound

-----------------------------------------------------------------------------

\* The invariant: at all times the file is what the edits that took effect say
\* of the original, and every edit still to run carries, after all renumbering, the
\* numbers that the lines it was written for have in the file as it is
\* (rebaseSubsequentSteps), in an order in which its step can run them
\* (rebaseIntraStepSnapshotLineEdits).  Without any one of the three assumptions this
\* is false, and TLC finds TargetsFollow violated (README.md, section 5).
THEOREM BatchesRun ==
    ASSUME "move" \notin Actions, ~SharedLines, ~Overlapping
    PROVE  Spec => []IInv
<1>1. Init => IInv
  BY InitSound
<1>2. IInv /\ [Next]_vars => IInv'
  BY StepKeeps
<1> QED BY <1>1, <1>2, PTL DEF Spec

\* After every step the file is what the edits that took effect say when each is
\* read against the file the model had seen, in whatever steps they ran and whichever
\* other steps failed (executeUnifiedBatch, apply_line_edits).
THEOREM EditsTakeEffect ==
    ASSUME "move" \notin Actions, ~SharedLines, ~Overlapping
    PROVE  Spec => []FileAsAuthored
<1>1. IInv => FileAsAuthored
  BY DEF IInv, Sound, FileAsAuthored
<1> QED BY <1>1, BatchesRun, PTL

\* A step that has not run yet names, after all renumbering, the very lines its
\* author named, wherever these are now (rebaseSubsequentSteps).
THEOREM PendingEditsFollow ==
    ASSUME "move" \notin Actions, ~SharedLines, ~Overlapping
    PROVE  Spec => []TargetsFollow
BY TargetsKept, BatchesRun, PTL

\* Renumbering never makes the backend refuse a step whose line numbers were good
\* when it was written (rebaseIntraStepSnapshotLineEdits, Accepted).
THEOREM PendingStepsApply ==
    ASSUME "move" \notin Actions, ~SharedLines, ~Overlapping
    PROVE  Spec => []StepsApplicable
BY StepsKept, BatchesRun, PTL
=============================================================================
