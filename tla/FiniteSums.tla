------------------------------ MODULE FiniteSums ------------------------------
(***************************************************************************)
(* Facts about sums over finite sets, which the budgets, quantities and    *)
(* position counts of the models are: SumFunctionOnSet is the fold that    *)
(* MapThenSumSet and FoldFunction stand for too.  Induction is stated over *)
(* a SET of numbers or of sets rather than over a predicate, so that the   *)
(* lemmas can be cited.                                                    *)
(***************************************************************************)
EXTENDS Integers, Functions, FiniteSetTheorems, TLAPS

\* A set of numbers that holds 0 and, with each of its numbers, the next one
\* holds them all.
LEMMA CountUp ==
  ASSUME NEW P, 0 \in P, \A n \in Nat : n \in P => n + 1 \in P
  PROVE  \A n \in Nat : n \in P
<1> SUFFICES ASSUME Nat \ P # {} PROVE FALSE
  OBVIOUS
<1> DEFINE less == OpToRel(<, Nat)
<1>1. IsWellFoundedOn(less, Nat)
  BY NatLessThanWellFounded
<1>2. PICK m \in Nat \ P : \A k \in Nat \ P : <<k, m>> \notin less
  <2>1. Nat \ P \subseteq Nat
    OBVIOUS
  <2> HIDE DEF less
  <2> QED BY <1>1, <2>1, WFMin
<1> HIDE DEF less
<1>3. m \in Nat /\ m \notin P /\ m # 0 /\ m - 1 \in Nat
  OBVIOUS
<1>4. <<m - 1, m>> \in less
  BY <1>3 DEF less, OpToRel
<1>5. m - 1 \in P
  BY <1>2, <1>3, <1>4
<1>6. (m - 1) + 1 \in P
  BY <1>3, <1>5
<1>7. (m - 1) + 1 = m
  BY <1>3
<1> QED BY <1>3, <1>6, <1>7

\* A set of sets that holds the empty set and survives the addition of one
\* element at a time holds every finite set.
LEMMA AddUp ==
  ASSUME NEW S, IsFiniteSet(S), NEW P, {} \in P,
         \A T \in SUBSET S : \A x \in S \ T : T \in P => T \cup {x} \in P
  PROVE  S \in P
<1> DEFINE Q == {n \in Nat : \A T \in SUBSET S : Cardinality(T) = n => T \in P}
<1>1. \A T \in SUBSET S : IsFiniteSet(T) /\ Cardinality(T) \in Nat
  BY FS_Subset, FS_CardinalityType
<1>2. 0 \in Q
  <2>1. \A T \in SUBSET S : Cardinality(T) = 0 => T = {}
    BY <1>1, FS_EmptySet
  <2> QED BY <2>1
<1>3. \A n \in Nat : n \in Q => n + 1 \in Q
  <2> SUFFICES ASSUME NEW n \in Nat, n \in Q,
                      NEW T \in SUBSET S, Cardinality(T) = n + 1
               PROVE  T \in P
    OBVIOUS
  <2>1. IsFiniteSet(T)
    BY <1>1
  <2>2. PICK x : x \in T
    BY <2>1, FS_EmptySet
  <2>3. Cardinality(T \ {x}) = n
    <3>1. Cardinality(T \ {x}) = Cardinality(T) - 1
      BY <2>1, <2>2, FS_RemoveElement
    <3> QED BY <3>1
  <2>4. T \ {x} \in P
    BY <2>3
  <2>5. (T \ {x}) \cup {x} \in P
    BY <2>2, <2>4
  <2>6. (T \ {x}) \cup {x} = T
    BY <2>2
  <2> QED BY <2>5, <2>6
<1>4. Cardinality(S) \in Q
  <2> HIDE DEF Q
  <2>1. \A n \in Nat : n \in Q
    BY <1>2, <1>3, CountUp
  <2> QED BY <1>1, <2>1
<1> QED BY <1>4

-----------------------------------------------------------------------------
(* The fold that sums is well defined.                                     *)

AnyOf(s) == CHOOSE x \in s : TRUE
After(h, f, s) == IF s = {} THEN 0 ELSE f[AnyOf(s)] + h[s \ {AnyOf(s)}]
Sums(h, f, S)  == h = [s \in SUBSET S |-> After(h, f, s)]

\* The recursive function of the fold exists on every finite set.
LEMMA SumsExist ==
  ASSUME NEW f, NEW S, IsFiniteSet(S)
  PROVE  \E h : Sums(h, f, S)
<1> DEFINE Upto(h, n) == \A s \in SUBSET S : Cardinality(s) <= n => h[s] = After(h, f, s)
           Has(n) == \E h : h = [s \in SUBSET S |-> h[s]] /\ Upto(h, n)
           Q == {n \in Nat : Has(n)}
<1>1. \A T \in SUBSET S : IsFiniteSet(T) /\ Cardinality(T) \in Nat
  BY FS_Subset, FS_CardinalityType
<1>2. 0 \in Q
  <2> DEFINE h == [s \in SUBSET S |-> 0]
  <2>1. \A T \in SUBSET S : Cardinality(T) <= 0 => T = {}
    BY <1>1, FS_EmptySet
  <2>2. Upto(h, 0)
    BY <2>1 DEF After
  <2>3. h = [s \in SUBSET S |-> h[s]]
    OBVIOUS
  <2> QED BY <2>2, <2>3
<1>3. \A n \in Nat : n \in Q => n + 1 \in Q
  <2> SUFFICES ASSUME NEW n \in Nat, n \in Q PROVE n + 1 \in Q
    OBVIOUS
  <2>1. PICK h : Upto(h, n)
    OBVIOUS
  <2> DEFINE g == [s \in SUBSET S |-> After(h, f, s)]
  <2>2. ASSUME NEW s \in SUBSET S, Cardinality(s) <= n + 1
        PROVE  g[s] = After(g, f, s)
    <3>1. CASE s = {}
      BY <3>1 DEF After
    <3>2. CASE s # {}
      <4> DEFINE r == s \ {AnyOf(s)}
      <4>1. AnyOf(s) \in s
        BY <3>2 DEF AnyOf
      <4>2. r \in SUBSET S /\ Cardinality(r) <= n
        BY <1>1, <2>2, <4>1, FS_RemoveElement
      <4>3. h[r] = g[r]
        BY <2>1, <4>2
      <4>4. g[s] = f[AnyOf(s)] + h[r]
        BY <3>2 DEF After
      <4> QED BY <3>2, <4>3, <4>4 DEF After
    <3> QED BY <3>1, <3>2
  <2>3. g = [s \in SUBSET S |-> g[s]]
    OBVIOUS
  <2> HIDE DEF g
  <2>4. Upto(g, n + 1)
    BY <2>2
  <2>5. Has(n + 1)
    <3> HIDE DEF Upto
    <3> QED BY <2>3, <2>4
  <2> HIDE DEF Has
  <2> QED BY <2>5
<1>4. Cardinality(S) \in Q
  <2> HIDE DEF Q
  <2>1. \A n \in Nat : n \in Q
    BY <1>2, <1>3, CountUp
  <2> QED BY <1>1, <2>1
<1>5. PICK h : h = [s \in SUBSET S |-> h[s]] /\ Upto(h, Cardinality(S))
  BY <1>4
<1>6. \A s \in SUBSET S : h[s] = After(h, f, s)
  BY <1>5, FS_Subset
<1>7. Sums(h, f, S)
  <2>1. [s \in SUBSET S |-> h[s]] = [s \in SUBSET S |-> After(h, f, s)]
    BY <1>6
  <2> QED BY <1>5, <2>1 DEF Sums
<1> QED BY <1>7

\* Two such functions agree where both are defined.
LEMMA SumsAgree ==
  ASSUME NEW f, NEW S, IsFiniteSet(S), NEW W \in SUBSET S,
         NEW h, Sums(h, f, S), NEW g, Sums(g, f, W)
  PROVE  h[W] = g[W]
<1> DEFINE P == {T \in SUBSET W : h[T] = g[T]}
           Q == {n \in Nat : \A T \in SUBSET W : Cardinality(T) = n => h[T] = g[T]}
<1>1. \A T \in SUBSET W : IsFiniteSet(T) /\ Cardinality(T) \in Nat
  BY FS_Subset, FS_CardinalityType
<1>2. /\ \A T \in SUBSET W : h[T] = After(h, f, T)
      /\ \A T \in SUBSET W : g[T] = After(g, f, T)
  <2>1. \A T \in SUBSET S : h[T] = After(h, f, T)
    BY DEF Sums
  <2>2. \A T \in SUBSET W : g[T] = After(g, f, T)
    BY DEF Sums
  <2> QED BY <2>1, <2>2
<1>3. 0 \in Q
  <2>1. \A T \in SUBSET W : Cardinality(T) = 0 => T = {}
    BY <1>1, FS_EmptySet
  <2>2. h[{}] = g[{}]
    BY <1>2 DEF After
  <2> QED BY <2>1, <2>2
<1>4. \A n \in Nat : n \in Q => n + 1 \in Q
  <2> SUFFICES ASSUME NEW n \in Nat, n \in Q,
                      NEW T \in SUBSET W, Cardinality(T) = n + 1
               PROVE  h[T] = g[T]
    OBVIOUS
  <2>1. T # {}
    BY FS_EmptySet, n + 1 # 0
  <2> DEFINE r == T \ {AnyOf(T)}
  <2>2. AnyOf(T) \in T
    BY <2>1 DEF AnyOf
  <2>3. r \in SUBSET W /\ Cardinality(r) = n
    BY <1>1, <2>2, FS_RemoveElement
  <2>4. h[r] = g[r]
    BY <2>3
  <2> QED BY <1>2, <2>1, <2>4 DEF After
<1>5. Cardinality(W) \in Q
  <2> HIDE DEF Q
  <2>1. \A n \in Nat : n \in Q
    BY <1>3, <1>4, CountUp
  <2> QED BY <1>1, <2>1
<1> QED BY <1>5

\* The sum is the value of that function.
LEMMA SumIs ==
  ASSUME NEW f, NEW S, IsFiniteSet(S)
  PROVE  \E h : Sums(h, f, S) /\ SumFunctionOnSet(f, S) = h[S]
<1> DEFINE h == CHOOSE g : Sums(g, f, S)
<1>1. Sums(h, f, S)
  BY SumsExist
<1>2. SumFunctionOnSet(f, S) = h[S]
  BY DEF SumFunctionOnSet, FoldFunctionOnSet, MapThenFoldSet, Sums, After, AnyOf
<1> QED BY <1>1, <1>2

-----------------------------------------------------------------------------
(* The facts the models need.  S is finite throughout.                     *)

\* The sum over nothing.
LEMMA SumEmpty ==
  ASSUME NEW f
  PROVE  SumFunctionOnSet(f, {}) = 0
<1>1. PICK h : Sums(h, f, {}) /\ SumFunctionOnSet(f, {}) = h[{}]
  BY SumIs, FS_EmptySet
<1> QED BY <1>1 DEF Sums, After

\* The fold takes one element, the one it picks, off the set.
LEMMA SumPick ==
  ASSUME NEW f, NEW S, IsFiniteSet(S), S # {}
  PROVE  /\ AnyOf(S) \in S
         /\ SumFunctionOnSet(f, S) = f[AnyOf(S)] + SumFunctionOnSet(f, S \ {AnyOf(S)})
<1> DEFINE W == S \ {AnyOf(S)}
<1>1. AnyOf(S) \in S
  BY DEF AnyOf
<1>2. PICK h : Sums(h, f, S) /\ SumFunctionOnSet(f, S) = h[S]
  BY SumIs
<1>3. W \in SUBSET S /\ IsFiniteSet(W)
  BY FS_Subset
<1>4. PICK g : Sums(g, f, W) /\ SumFunctionOnSet(f, W) = g[W]
  BY <1>3, SumIs
<1>5. h[W] = g[W]
  BY <1>2, <1>3, <1>4, SumsAgree
<1>6. h[S] = f[AnyOf(S)] + h[W]
  BY <1>2 DEF Sums, After
<1> QED BY <1>1, <1>2, <1>4, <1>5, <1>6

\* A sum of integers is an integer.
LEMMA SumInt ==
  ASSUME NEW f, NEW S, IsFiniteSet(S), \A x \in S : f[x] \in Int
  PROVE  SumFunctionOnSet(f, S) \in Int
<1> DEFINE Q == {n \in Nat : \A T \in SUBSET S :
                   Cardinality(T) = n => SumFunctionOnSet(f, T) \in Int}
<1>1. \A T \in SUBSET S : IsFiniteSet(T) /\ Cardinality(T) \in Nat
  BY FS_Subset, FS_CardinalityType
<1>2. 0 \in Q
  <2>1. \A T \in SUBSET S : Cardinality(T) = 0 => T = {}
    BY <1>1, FS_EmptySet
  <2> QED BY <2>1, SumEmpty
<1>3. \A n \in Nat : n \in Q => n + 1 \in Q
  <2> SUFFICES ASSUME NEW n \in Nat, n \in Q,
                      NEW T \in SUBSET S, Cardinality(T) = n + 1
               PROVE  SumFunctionOnSet(f, T) \in Int
    OBVIOUS
  <2> DEFINE W == T \ {AnyOf(T)}
  <2>1. T # {}
    BY FS_EmptySet, n + 1 # 0
  <2>2. /\ AnyOf(T) \in T
        /\ SumFunctionOnSet(f, T) = f[AnyOf(T)] + SumFunctionOnSet(f, W)
    BY <1>1, <2>1, SumPick
  <2>3. Cardinality(W) = Cardinality(T) - 1
    BY <1>1, <2>2, FS_RemoveElement
  <2>4. SumFunctionOnSet(f, W) \in Int
    BY <2>3
  <2>5. f[AnyOf(T)] \in Int
    BY <2>2
  <2> QED BY <2>2, <2>4, <2>5
<1>4. Cardinality(S) \in Q
  <2> HIDE DEF Q
  <2>1. \A n \in Nat : n \in Q
    BY <1>2, <1>3, CountUp
  <2> QED BY <1>1, <2>1
<1> QED BY <1>4

\* Any element can be taken off a sum.
LEMMA SumSplit ==
  ASSUME NEW f, NEW S, IsFiniteSet(S), \A x \in S : f[x] \in Int, NEW e \in S
  PROVE  SumFunctionOnSet(f, S) = f[e] + SumFunctionOnSet(f, S \ {e})
<1> DEFINE Sum(T) == SumFunctionOnSet(f, T)
           Q == {n \in Nat : \A T \in SUBSET S : Cardinality(T) = n =>
                   \A x \in T : Sum(T) = f[x] + Sum(T \ {x})}
<1>1. \A T \in SUBSET S : /\ IsFiniteSet(T) /\ Cardinality(T) \in Nat
                         /\ Sum(T) \in Int
  BY FS_Subset, FS_CardinalityType, SumInt
<1> HIDE DEF Sum
<1>2. 0 \in Q
  <2>1. \A T \in SUBSET S : Cardinality(T) = 0 => T = {}
    BY <1>1, FS_EmptySet
  <2> QED BY <2>1
<1>3. \A n \in Nat : n \in Q => n + 1 \in Q
  <2> SUFFICES ASSUME NEW n \in Nat, n \in Q,
                      NEW T \in SUBSET S, Cardinality(T) = n + 1, NEW x \in T
               PROVE  Sum(T) = f[x] + Sum(T \ {x})
    OBVIOUS
  <2> DEFINE p == AnyOf(T)
  <2>1. p \in T /\ Sum(T) = f[p] + Sum(T \ {p})
    <3>1. IsFiniteSet(T) /\ T # {}
      BY <1>1
    <3> QED BY <3>1, SumPick DEF Sum
  <2>2. CASE x = p
    BY <2>1, <2>2
  <2>3. CASE x # p
    <3>1. Cardinality(T \ {p}) = n /\ Cardinality(T \ {x}) = n
      <4>1. /\ Cardinality(T \ {p}) = Cardinality(T) - 1
            /\ Cardinality(T \ {x}) = Cardinality(T) - 1
        BY <1>1, <2>1, FS_RemoveElement
      <4> QED BY <4>1
    <3>2. Sum(T \ {p}) = f[x] + Sum((T \ {p}) \ {x})
      BY <2>1, <2>3, <3>1
    <3>3. Sum(T \ {x}) = f[p] + Sum((T \ {x}) \ {p})
      BY <2>1, <2>3, <3>1
    <3>4. (T \ {p}) \ {x} = (T \ {x}) \ {p}
      OBVIOUS
    <3>5. f[x] \in Int /\ f[p] \in Int /\ Sum((T \ {x}) \ {p}) \in Int
      BY <1>1, <2>1
    <3> DEFINE rest == Sum((T \ {x}) \ {p})
               fp == f[p]
               fx == f[x]
    <3>6. Sum(T) = fp + (fx + rest) /\ f[x] + Sum(T \ {x}) = fx + (fp + rest)
      BY <2>1, <3>2, <3>3, <3>4
    <3>7. fp + (fx + rest) = fx + (fp + rest)
      <4> HIDE DEF fp, fx, rest
      <4>1. fp \in Int /\ fx \in Int /\ rest \in Int
        BY <3>5 DEF fp, fx, rest
      <4> QED BY <4>1
    <3> QED BY <3>6, <3>7
  <2> QED BY <2>2, <2>3
<1>4. Cardinality(S) \in Q
  <2> HIDE DEF Q
  <2>1. \A n \in Nat : n \in Q
    BY <1>2, <1>3, CountUp
  <2> QED BY <1>1, <2>1
<1> QED BY <1>4 DEF Sum

\* Adding an element adds its value.
LEMMA SumAdd ==
  ASSUME NEW f, NEW S, IsFiniteSet(S), NEW e, e \notin S,
         \A x \in S \cup {e} : f[x] \in Int
  PROVE  SumFunctionOnSet(f, S \cup {e}) = SumFunctionOnSet(f, S) + f[e]
<1> DEFINE T == S \cup {e}
<1>1. IsFiniteSet(T)
  BY FS_AddElement
<1>2. SumFunctionOnSet(f, T) = f[e] + SumFunctionOnSet(f, T \ {e})
  <2>1. e \in T
    OBVIOUS
  <2> HIDE DEF T
  <2> QED BY <1>1, <2>1, SumSplit DEF T
<1>3. T \ {e} = S
  OBVIOUS
<1>4. SumFunctionOnSet(f, S) \in Int /\ f[e] \in Int
  BY SumInt
<1>5. SumFunctionOnSet(f, T) = f[e] + SumFunctionOnSet(f, S)
  BY <1>2, <1>3
<1>6. \A i, j \in Int : i + j = j + i
  OBVIOUS
<1> QED BY <1>4, <1>5, <1>6

\* A sum of naturals is a natural, and no less than the sum of any part.
LEMMA SumGrows ==
  ASSUME NEW f, NEW S, IsFiniteSet(S), \A x \in S : f[x] \in Nat, NEW W \in SUBSET S
  PROVE  /\ SumFunctionOnSet(f, W) \in Nat
         /\ SumFunctionOnSet(f, S) \in Nat
         /\ SumFunctionOnSet(f, W) <= SumFunctionOnSet(f, S)
<1> DEFINE Sum(T) == SumFunctionOnSet(f, T)
           P == {D \in SUBSET (S \ W) : Sum(W \cup D) \in Nat /\ Sum(W) <= Sum(W \cup D)}
<1>1. \A T \in SUBSET S : IsFiniteSet(T) /\ Sum(T) \in Int
  BY FS_Subset, SumInt
<1>2. \A T \in SUBSET S : \A x \in S \ T : Sum(T \cup {x}) = Sum(T) + f[x]
  <2> SUFFICES ASSUME NEW T \in SUBSET S, NEW x \in S \ T
               PROVE  Sum(T \cup {x}) = Sum(T) + f[x]
    OBVIOUS
  <2>1. \A y \in T \cup {x} : f[y] \in Int
    OBVIOUS
  <2> QED BY <1>1, <2>1, SumAdd
<1>3. Sum({}) = 0
  BY SumEmpty
<1> HIDE DEF Sum
<1>4. Sum(W) \in Nat
  <2> DEFINE M == {T \in SUBSET W : Sum(T) \in Nat}
  <2>1. {} \in M
    BY <1>3
  <2>2. \A T \in SUBSET W : \A x \in W \ T : T \in M => T \cup {x} \in M
    BY <1>2
  <2>3. IsFiniteSet(W)
    BY <1>1
  <2> HIDE DEF M
  <2>4. W \in M
    BY <2>1, <2>2, <2>3, AddUp
  <2> QED BY <2>4 DEF M
<1>5. {} \in P
  <2>1. W \cup {} = W
    OBVIOUS
  <2> QED BY <1>4, <2>1
<1>6. \A D \in SUBSET (S \ W) : \A x \in (S \ W) \ D : D \in P => D \cup {x} \in P
  <2> SUFFICES ASSUME NEW D \in SUBSET (S \ W), NEW x \in (S \ W) \ D, D \in P
               PROVE  D \cup {x} \in P
    OBVIOUS
  <2>1. Sum((W \cup D) \cup {x}) = Sum(W \cup D) + f[x]
    <3>1. W \cup D \in SUBSET S /\ x \in S \ (W \cup D)
      OBVIOUS
    <3> QED BY <1>2, <3>1
  <2>2. W \cup (D \cup {x}) = (W \cup D) \cup {x}
    OBVIOUS
  <2>3. f[x] \in Nat /\ Sum(W \cup D) \in Nat /\ Sum(W) <= Sum(W \cup D)
    OBVIOUS
  <2>4. Sum(W \cup (D \cup {x})) = Sum(W \cup D) + f[x]
    BY <2>1, <2>2
  <2>5. Sum(W \cup (D \cup {x})) \in Nat /\ Sum(W) <= Sum(W \cup (D \cup {x}))
    BY <1>4, <2>3, <2>4
  <2> QED BY <2>5
<1>7. S \ W \in P
  <2>1. IsFiniteSet(S \ W)
    BY FS_Subset
  <2> HIDE DEF P
  <2> QED BY <1>5, <1>6, <2>1, AddUp
<1>8. W \cup (S \ W) = S
  OBVIOUS
<1> QED BY <1>4, <1>7, <1>8 DEF Sum

\* A sum depends on the values of its elements only.
LEMMA SumSame ==
  ASSUME NEW f, NEW g, NEW S, IsFiniteSet(S),
         \A x \in S : f[x] \in Int /\ f[x] = g[x]
  PROVE  SumFunctionOnSet(f, S) = SumFunctionOnSet(g, S)
<1> DEFINE P == {T \in SUBSET S : SumFunctionOnSet(f, T) = SumFunctionOnSet(g, T)}
<1>1. {} \in P
  BY SumEmpty
<1>2. \A T \in SUBSET S : \A x \in S \ T : T \in P => T \cup {x} \in P
  <2> SUFFICES ASSUME NEW T \in SUBSET S, NEW x \in S \ T,
                      SumFunctionOnSet(f, T) = SumFunctionOnSet(g, T)
               PROVE  SumFunctionOnSet(f, T \cup {x}) = SumFunctionOnSet(g, T \cup {x})
    OBVIOUS
  <2>1. IsFiniteSet(T)
    BY FS_Subset
  <2>2. SumFunctionOnSet(f, T \cup {x}) = SumFunctionOnSet(f, T) + f[x]
    BY <2>1, SumAdd
  <2>3. SumFunctionOnSet(g, T \cup {x}) = SumFunctionOnSet(g, T) + g[x]
    BY <2>1, SumAdd
  <2> QED BY <2>2, <2>3
<1> HIDE DEF P
<1>3. S \in P
  BY <1>1, <1>2, AddUp
<1> QED BY <1>3 DEF P

\* A sum of naturals is zero only if each of them is.
LEMMA SumZero ==
  ASSUME NEW f, NEW S, IsFiniteSet(S), \A x \in S : f[x] \in Nat,
         SumFunctionOnSet(f, S) = 0
  PROVE  \A x \in S : f[x] = 0
<1> SUFFICES ASSUME NEW x \in S PROVE f[x] = 0
  OBVIOUS
<1>1. SumFunctionOnSet(f, S) = f[x] + SumFunctionOnSet(f, S \ {x})
  BY SumSplit
<1>2. SumFunctionOnSet(f, S \ {x}) \in Nat
  BY SumGrows
<1> QED BY <1>1, <1>2
\* A sum of naturals that grow one by one grows.
LEMMA SumMonotone ==
  ASSUME NEW f, NEW g, NEW S, IsFiniteSet(S),
         \A x \in S : f[x] \in Nat /\ g[x] \in Nat /\ f[x] <= g[x]
  PROVE  SumFunctionOnSet(f, S) <= SumFunctionOnSet(g, S)
<1> DEFINE P == {T \in SUBSET S : SumFunctionOnSet(f, T) <= SumFunctionOnSet(g, T)}
<1>1. {} \in P
  <2>1. SumFunctionOnSet(f, {}) = 0 /\ SumFunctionOnSet(g, {}) = 0
    BY SumEmpty
  <2> QED BY <2>1
<1>2. \A T \in SUBSET S : \A x \in S \ T : T \in P => T \cup {x} \in P
  <2> SUFFICES ASSUME NEW T \in SUBSET S, NEW x \in S \ T,
                      SumFunctionOnSet(f, T) <= SumFunctionOnSet(g, T)
               PROVE  SumFunctionOnSet(f, T \cup {x}) <= SumFunctionOnSet(g, T \cup {x})
    OBVIOUS
  <2>1. IsFiniteSet(T)
    BY FS_Subset
  <2>2. SumFunctionOnSet(f, T \cup {x}) = SumFunctionOnSet(f, T) + f[x]
    BY <2>1, SumAdd
  <2>3. SumFunctionOnSet(g, T \cup {x}) = SumFunctionOnSet(g, T) + g[x]
    BY <2>1, SumAdd
  <2>4. SumFunctionOnSet(f, T) \in Int /\ SumFunctionOnSet(g, T) \in Int
    BY <2>1, SumInt
  <2>5. \A a, b, c, d \in Int : a <= b /\ c <= d => a + c <= b + d
    OBVIOUS
  <2>6. f[x] \in Int /\ g[x] \in Int /\ f[x] <= g[x]
    OBVIOUS
  <2> QED BY <2>2, <2>3, <2>4, <2>5, <2>6
<1> HIDE DEF P
<1>3. S \in P
  BY <1>1, <1>2, AddUp
<1> QED BY <1>3 DEF P

\* A sum of zeros.
LEMMA SumNothing ==
  ASSUME NEW f, NEW S, IsFiniteSet(S), \A x \in S : f[x] = 0
  PROVE  SumFunctionOnSet(f, S) = 0
<1> DEFINE P == {T \in SUBSET S : SumFunctionOnSet(f, T) = 0}
<1>1. {} \in P
  BY SumEmpty
<1>2. \A T \in SUBSET S : \A x \in S \ T : T \in P => T \cup {x} \in P
  <2> SUFFICES ASSUME NEW T \in SUBSET S, NEW x \in S \ T, SumFunctionOnSet(f, T) = 0
               PROVE  SumFunctionOnSet(f, T \cup {x}) = 0
    OBVIOUS
  <2>1. IsFiniteSet(T) /\ x \notin T /\ \A y \in T \cup {x} : f[y] \in Int
    BY FS_Subset
  <2>2. SumFunctionOnSet(f, T \cup {x}) = SumFunctionOnSet(f, T) + f[x]
    BY <2>1, SumAdd
  <2> QED BY <2>2
<1> HIDE DEF P
<1>3. S \in P
  BY <1>1, <1>2, AddUp
<1> QED BY <1>3 DEF P

\* One term changes, and the sum with it.
LEMMA SumShift ==
  ASSUME NEW f, NEW g, NEW S, IsFiniteSet(S), NEW e \in S, NEW d \in Int,
         \A x \in S : f[x] \in Int /\ g[x] = IF x = e THEN f[x] + d ELSE f[x]
  PROVE  SumFunctionOnSet(g, S) = SumFunctionOnSet(f, S) + d
<1> DEFINE W == S \ {e}
<1>1. IsFiniteSet(W)
  BY FS_Subset
<1>2. \A x \in S : g[x] \in Int
  OBVIOUS
<1>3. g[e] = f[e] + d /\ f[e] \in Int
  OBVIOUS
<1>4. \A x \in W : g[x] \in Int /\ g[x] = f[x]
  OBVIOUS
<1>5. /\ SumFunctionOnSet(f, S) = f[e] + SumFunctionOnSet(f, W)
      /\ SumFunctionOnSet(g, S) = g[e] + SumFunctionOnSet(g, W)
  BY <1>2, SumSplit
<1> HIDE DEF W
<1>6. SumFunctionOnSet(g, W) = SumFunctionOnSet(f, W) /\ SumFunctionOnSet(g, W) \in Int
  BY <1>1, <1>4, SumSame, SumInt
<1> QED BY <1>3, <1>5, <1>6

\* Terms that are zero can be left out.
LEMMA SumWithin ==
  ASSUME NEW f, NEW S, IsFiniteSet(S), NEW W \in SUBSET S, \A x \in W : f[x] \in Int,
         \A x \in S \ W : f[x] = 0
  PROVE  SumFunctionOnSet(f, S) = SumFunctionOnSet(f, W)
<1> DEFINE Same(D) == SumFunctionOnSet(f, W \cup D) = SumFunctionOnSet(f, W)
           P == {D \in SUBSET (S \ W) : Same(D)}
<1>1. {} \in P
  <2>1. W \cup {} = W
    OBVIOUS
  <2> QED BY <2>1
<1>2. IsFiniteSet(S \ W)
  BY FS_Subset
<1>3. SumFunctionOnSet(f, W) \in Int
  BY FS_Subset, SumInt
<1>4. \A D \in SUBSET (S \ W) : \A x \in (S \ W) \ D : D \in P => D \cup {x} \in P
  <2> SUFFICES ASSUME NEW D \in SUBSET (S \ W), NEW x \in (S \ W) \ D, Same(D)
               PROVE  Same(D \cup {x})
    OBVIOUS
  <2> DEFINE T == W \cup D
  <2>1. T \subseteq S /\ x \notin T /\ W \cup (D \cup {x}) = T \cup {x} /\ f[x] = 0
    OBVIOUS
  <2>2. IsFiniteSet(T) /\ \A y \in T \cup {x} : f[y] \in Int
    BY <2>1, FS_Subset
  <2>3. SumFunctionOnSet(f, T \cup {x}) = SumFunctionOnSet(f, T) + f[x]
    <3> HIDE DEF T
    <3> QED BY <2>1, <2>2, SumAdd
  <2>4. SumFunctionOnSet(f, T) = SumFunctionOnSet(f, W)
    OBVIOUS
  <2>5. SumFunctionOnSet(f, T \cup {x}) = SumFunctionOnSet(f, W)
    BY <1>3, <2>1, <2>3, <2>4
  <2> QED BY <2>1, <2>5
<1> HIDE DEF P
<1>5. S \ W \in P
  BY <1>1, <1>2, <1>4, AddUp
<1>6. W \cup (S \ W) = S
  OBVIOUS
<1> QED BY <1>5, <1>6 DEF P

\* A common sign can be taken out.
LEMMA SumSigned ==
  ASSUME NEW f, NEW g, NEW S, IsFiniteSet(S), NEW s \in {1, -1},
         \A x \in S : f[x] \in Int /\ g[x] = s * f[x]
  PROVE  SumFunctionOnSet(g, S) = s * SumFunctionOnSet(f, S)
<1> DEFINE P == {T \in SUBSET S : SumFunctionOnSet(g, T) = s * SumFunctionOnSet(f, T)}
<1>1. {} \in P
  BY SumEmpty
<1>2. \A x \in S : g[x] \in Int
  OBVIOUS
<1>3. \A T \in SUBSET S : \A x \in S \ T : T \in P => T \cup {x} \in P
  <2> SUFFICES ASSUME NEW T \in SUBSET S, NEW x \in S \ T,
                      SumFunctionOnSet(g, T) = s * SumFunctionOnSet(f, T)
               PROVE  SumFunctionOnSet(g, T \cup {x}) = s * SumFunctionOnSet(f, T \cup {x})
    OBVIOUS
  <2>1. IsFiniteSet(T) /\ x \notin T
    BY FS_Subset
  <2>2. /\ SumFunctionOnSet(g, T \cup {x}) = SumFunctionOnSet(g, T) + g[x]
        /\ SumFunctionOnSet(f, T \cup {x}) = SumFunctionOnSet(f, T) + f[x]
    BY <1>2, <2>1, SumAdd
  <2>3. SumFunctionOnSet(f, T) \in Int /\ f[x] \in Int /\ g[x] = s * f[x]
    BY <2>1, SumInt
  <2> QED BY <2>2, <2>3
<1> HIDE DEF P
<1>4. S \in P
  BY <1>1, <1>3, AddUp
<1> QED BY <1>4 DEF P

\* A sum over what the terms are named by, each named once.
LEMMA SumImage ==
  ASSUME NEW f, NEW g, NEW S, IsFiniteSet(S), NEW h,
         \A x \in S : g[h[x]] \in Int /\ f[x] = g[h[x]],
         \A x, y \in S : h[x] = h[y] => x = y
  PROVE  SumFunctionOnSet(f, S) = SumFunctionOnSet(g, {h[x] : x \in S})
<1> DEFINE Names(T) == {h[x] : x \in T}
           P == {T \in SUBSET S : /\ IsFiniteSet(Names(T))
                                  /\ SumFunctionOnSet(f, T) = SumFunctionOnSet(g, Names(T))}
<1>1. {} \in P
  <2>1. Names({}) = {}
    OBVIOUS
  <2> QED BY <2>1, SumEmpty, FS_EmptySet
<1>2. \A T \in SUBSET S : \A x \in S \ T : T \in P => T \cup {x} \in P
  <2> SUFFICES ASSUME NEW T \in SUBSET S, NEW x \in S \ T, T \in P
               PROVE  T \cup {x} \in P
    OBVIOUS
  <2> DEFINE N == Names(T)
             e == h[x]
  <2>1. Names(T \cup {x}) = N \cup {e} /\ e \notin N
    OBVIOUS
  <2>2. IsFiniteSet(T) /\ IsFiniteSet(N) /\ x \notin T
    BY FS_Subset
  <2>3. \A y \in N \cup {e} : g[y] \in Int
    OBVIOUS
  <2>4. \A y \in T \cup {x} : f[y] \in Int
    OBVIOUS
  <2>5. SumFunctionOnSet(f, T \cup {x}) = SumFunctionOnSet(f, T) + f[x]
    BY <2>2, <2>4, SumAdd
  <2>6. SumFunctionOnSet(f, T) = SumFunctionOnSet(g, N) /\ f[x] = g[e]
    OBVIOUS
  <2> HIDE DEF N, e
  <2>7. SumFunctionOnSet(g, N \cup {e}) = SumFunctionOnSet(g, N) + g[e]
    BY <2>1, <2>2, <2>3, SumAdd
  <2>8. IsFiniteSet(N \cup {e})
    BY <2>2, FS_AddElement
  <2> QED BY <2>1, <2>5, <2>6, <2>7, <2>8
<1> HIDE DEF P
<1>3. S \in P
  BY <1>1, <1>2, AddUp
<1> QED BY <1>3 DEF P

\* Terms that sets R[y] cover are no more than the sums over these sets together.
LEMMA SumCovered ==
  ASSUME NEW f, NEW U, IsFiniteSet(U), \A u \in U : f[u] \in Nat,
         NEW S \in SUBSET U, NEW C, IsFiniteSet(C), NEW R, \A y \in C : R[y] \in SUBSET U,
         \A u \in S : \E y \in C : u \in R[y],
         NEW p, \A y \in C : p[y] = SumFunctionOnSet(f, R[y])
  PROVE  SumFunctionOnSet(f, S) <= SumFunctionOnSet(p, C)
<1> DEFINE F(T) == [y \in C |-> SumFunctionOnSet(f, T \cap R[y])]
           P == {T \in SUBSET S : SumFunctionOnSet(f, T) <= SumFunctionOnSet(F(T), C)}
<1>1. ASSUME NEW T \in SUBSET U
      PROVE  /\ IsFiniteSet(T) /\ \A x \in T : f[x] \in Nat /\ f[x] \in Int
             /\ SumFunctionOnSet(f, T) \in Nat
             /\ \A W \in SUBSET T : SumFunctionOnSet(f, W) <= SumFunctionOnSet(f, T)
  <2>1. IsFiniteSet(T) /\ \A x \in T : f[x] \in Nat /\ f[x] \in Int
    BY FS_Subset
  <2> QED BY <2>1, SumGrows
<1>2. ASSUME NEW T \in SUBSET U
      PROVE  /\ \A y \in C : F(T)[y] = SumFunctionOnSet(f, T \cap R[y]) /\ F(T)[y] \in Nat
             /\ SumFunctionOnSet(F(T), C) \in Nat
  <2>1. \A y \in C : F(T)[y] = SumFunctionOnSet(f, T \cap R[y])
    OBVIOUS
  <2>2. \A y \in C : T \cap R[y] \in SUBSET U
    OBVIOUS
  <2>3. \A y \in C : F(T)[y] \in Nat
    BY <1>1, <2>1, <2>2
  <2> HIDE DEF F
  <2> QED BY <2>1, <2>3, SumGrows
<1>3. {} \in P
  <2>1. SumFunctionOnSet(f, {}) = 0
    BY SumEmpty
  <2>2. SumFunctionOnSet(F({}), C) \in Nat
    <3> HIDE DEF F
    <3> QED BY <1>2
  <2>3. {} \in SUBSET S
    OBVIOUS
  <2> HIDE DEF F
  <2> QED BY <2>1, <2>2, <2>3
<1>4. \A T \in SUBSET S : \A x \in S \ T : T \in P => T \cup {x} \in P
  <2> SUFFICES ASSUME NEW T \in SUBSET S, NEW x \in S \ T,
                      SumFunctionOnSet(f, T) <= SumFunctionOnSet(F(T), C)
               PROVE  SumFunctionOnSet(f, T \cup {x}) <= SumFunctionOnSet(F(T \cup {x}), C)
    OBVIOUS
  <2> DEFINE T1 == T \cup {x}
             old == F(T)
             new == F(T1)
  <2>1. PICK z \in C : x \in R[z]
    OBVIOUS
  <2>2. T \in SUBSET U /\ T1 \in SUBSET U /\ f[x] \in Nat /\ x \notin T
    OBVIOUS
  <2>3. ASSUME NEW y \in C PROVE old[y] \in Nat /\ new[y] \in Nat /\ old[y] <= new[y]
    <3>1. T \cap R[y] \in SUBSET (T1 \cap R[y]) /\ T1 \cap R[y] \in SUBSET U
      BY <2>2
    <3>2. SumFunctionOnSet(f, T \cap R[y]) <= SumFunctionOnSet(f, T1 \cap R[y])
      <4> HIDE DEF T1
      <4> QED BY <1>1, <3>1
    <3>3. /\ old[y] = SumFunctionOnSet(f, T \cap R[y]) /\ old[y] \in Nat
          /\ new[y] = SumFunctionOnSet(f, T1 \cap R[y]) /\ new[y] \in Nat
      <4> HIDE DEF T1, F
      <4> QED BY <1>2, <2>2
    <3> QED BY <3>2, <3>3
  <2>4. new[z] = old[z] + f[x]
    <3> DEFINE A == T \cap R[z]
    <3>1. T1 \cap R[z] = A \cup {x} /\ x \notin A /\ A \in SUBSET U /\ A \cup {x} \in SUBSET U
      BY <2>1, <2>2
    <3> HIDE DEF A
    <3>2. IsFiniteSet(A) /\ \A y \in A \cup {x} : f[y] \in Int
      BY <1>1, <3>1
    <3>3. SumFunctionOnSet(f, A \cup {x}) = SumFunctionOnSet(f, A) + f[x]
      BY <3>1, <3>2, SumAdd
    <3>4. /\ old[z] = SumFunctionOnSet(f, T \cap R[z])
          /\ new[z] = SumFunctionOnSet(f, T1 \cap R[z])
      <4> HIDE DEF T1, F
      <4> QED BY <1>2, <2>2
    <3>5. T \cap R[z] = A
      BY DEF A
    <3> HIDE DEF T1, old, new
    <3> QED BY <3>1, <3>3, <3>4, <3>5
  <2>5. SumFunctionOnSet(f, T1) = SumFunctionOnSet(f, T) + f[x]
    <3>1. IsFiniteSet(T) /\ \A y \in T1 : f[y] \in Int
      BY <1>1, <2>2
    <3> QED BY <2>2, <3>1, SumAdd
  <2>6. SumFunctionOnSet(f, T) \in Nat
    BY <1>1, <2>2
  <2> HIDE DEF T1, old, new, F
  <2> DEFINE W == C \ {z}
  <2>7. /\ SumFunctionOnSet(old, C) = old[z] + SumFunctionOnSet(old, W)
        /\ SumFunctionOnSet(new, C) = new[z] + SumFunctionOnSet(new, W)
    <3>1. \A y \in C : old[y] \in Int /\ new[y] \in Int
      BY <2>3
    <3> QED BY <3>1, SumSplit
  <2>8. IsFiniteSet(W) /\ \A y \in W : old[y] \in Nat /\ new[y] \in Nat /\ old[y] <= new[y]
    BY <2>3, FS_Subset
  <2> HIDE DEF W
  <2>9. /\ SumFunctionOnSet(old, W) <= SumFunctionOnSet(new, W)
        /\ SumFunctionOnSet(old, W) \in Nat /\ SumFunctionOnSet(new, W) \in Nat
    BY <2>8, SumMonotone, SumGrows
  <2>10. SumFunctionOnSet(f, T) <= SumFunctionOnSet(old, C)
    BY DEF old
  <2>11. \A a, b, c, d, e, k \in Int :
           a <= b + c /\ c <= d /\ e = b + k => a + k <= e + d
    OBVIOUS
  <2>12. old[z] \in Nat /\ new[z] \in Nat
    BY <2>3
  <2>13. SumFunctionOnSet(f, T) + f[x] <= new[z] + SumFunctionOnSet(new, W)
    <3>1. SumFunctionOnSet(f, T) <= old[z] + SumFunctionOnSet(old, W)
      BY <2>7, <2>10
    <3> DEFINE a == SumFunctionOnSet(f, T)
               c == SumFunctionOnSet(old, W)
               d == SumFunctionOnSet(new, W)
               b == old[z]
               e == new[z]
               k == f[x]
    <3>2. /\ a \in Int /\ b \in Int /\ c \in Int /\ d \in Int /\ e \in Int /\ k \in Int
          /\ a <= b + c /\ c <= d /\ e = b + k
      BY <2>2, <2>4, <2>6, <2>9, <2>12, <3>1
    <3> HIDE DEF a, b, c, d, e, k
    <3>3. a + k <= e + d
      BY ONLY <2>11, <3>2
    <3> QED BY <3>3 DEF a, d, e, k
  <2>14. SumFunctionOnSet(f, T1) <= SumFunctionOnSet(new, C)
    BY <2>5, <2>7, <2>13
  <2> QED BY <2>14 DEF T1, new
<1>5. S \in P
  <2>1. IsFiniteSet(S)
    BY FS_Subset
  <2> HIDE DEF P
  <2> QED BY <1>3, <1>4, <2>1, AddUp
<1>6. ASSUME NEW y \in C PROVE F(S)[y] \in Nat /\ p[y] \in Nat /\ F(S)[y] <= p[y]
  <2>1. S \cap R[y] \in SUBSET R[y] /\ R[y] \in SUBSET U
    OBVIOUS
  <2>2. SumFunctionOnSet(f, S \cap R[y]) <= SumFunctionOnSet(f, R[y]) /\ SumFunctionOnSet(f, R[y]) \in Nat
    BY <1>1, <2>1
  <2>3. F(S)[y] = SumFunctionOnSet(f, S \cap R[y]) /\ F(S)[y] \in Nat
    <3> HIDE DEF F
    <3> QED BY <1>2
  <2> HIDE DEF F
  <2> QED BY <2>2, <2>3
<1>7. SumFunctionOnSet(F(S), C) <= SumFunctionOnSet(p, C) /\ SumFunctionOnSet(p, C) \in Nat
  <2> HIDE DEF F
  <2> QED BY <1>6, SumMonotone, SumGrows
<1>8. SumFunctionOnSet(f, S) \in Nat /\ SumFunctionOnSet(F(S), C) \in Nat
  <2> HIDE DEF F
  <2> QED BY <1>1, <1>2
<1>9. SumFunctionOnSet(f, S) <= SumFunctionOnSet(F(S), C)
  BY <1>5
<1> HIDE DEF F
<1> QED BY <1>7, <1>8, <1>9
=============================================================================
