--------------------------- MODULE CandidatesProofs ---------------------------
(***************************************************************************)
(* From a market to candidates, a selection and time exits, for any        *)
(* market, chain, schedule and answer of the model: what fixed_quantity    *)
(* promises, what a structure can lose, which way it bets, what is left of *)
(* a model's answer, and how long a structure is held.                     *)
(***************************************************************************)
EXTENDS Candidates, FiniteSums

-----------------------------------------------------------------------------
(* fixed_quantity, for every amount.                                       *)

\* The quotient of a floor division, by its two bounds.
LEMMA QuotientBounds ==
  ASSUME NEW a \in Int, NEW m \in Nat, m > 0
  PROVE  /\ a \div m \in Int
         /\ m * (a \div m) <= a
         /\ a < m * (a \div m) + m
  BY SMT

\* A product with a positive factor keeps the order.
LEMMA ProductOrder ==
  ASSUME NEW m \in Nat, m > 0, NEW j \in Int, NEW k \in Int, j <= k
  PROVE  /\ m * j <= m * k
         /\ m * (j + 1) = m * j + m
  BY SMT

\* What fits is what the floor says: m * j <= a exactly for j up to a \div m.
LEMMA FitsQuotient ==
  ASSUME NEW a \in Int, NEW m \in Nat, m > 0, NEW j \in Int
  PROVE  m * j <= a <=> j <= a \div m
<1>1. m * (a \div m) <= a /\ a < m * (a \div m) + m /\ a \div m \in Int
  BY QuotientBounds
<1>2. ASSUME j <= a \div m PROVE m * j <= a
  <2>1. m * j <= m * (a \div m)  BY <1>1, <1>2, ProductOrder
  <2> QED BY <1>1, <2>1
<1>3. ASSUME ~(j <= a \div m) PROVE ~(m * j <= a)
  <2>1. (a \div m) + 1 <= j  BY <1>1, <1>3
  <2>2. m * ((a \div m) + 1) <= m * j  BY <1>1, <2>1, ProductOrder
  <2>3. m * ((a \div m) + 1) = m * (a \div m) + m  BY <1>1, ProductOrder
  <2> QED BY <1>1, <2>2, <2>3
<1> QED BY <1>2, <1>3

\* The amounts of a sizing decision.
Amounts(m, cap, open, atRisk) ==
  m \in Nat /\ m > 0 /\ cap \in Int /\ open \in Int /\ atRisk \in Int

\* A sized trade stays inside its engine's cap, and the book with it inside the
\* at-risk cap (sizing.py:70-104).
THEOREM SizedWithinCaps ==
  ASSUME NEW m, NEW cap, NEW open, NEW atRisk, Amounts(m, cap, open, atRisk),
         FixedQuantity(m, cap, open, atRisk) > 0
  PROVE  /\ FixedQuantity(m, cap, open, atRisk) \in Nat
         /\ m * FixedQuantity(m, cap, open, atRisk) <= cap
         /\ m * FixedQuantity(m, cap, open, atRisk) + open <= atRisk
<1> DEFINE q == cap \div m
           fit == (atRisk - open) \div m
           size == FixedQuantity(m, cap, open, atRisk)
<1> USE DEF Amounts
<1>1. q \in Int /\ fit \in Int  BY QuotientBounds
<1>2. m <= cap  BY SMT DEF FixedQuantity
<1>3. q >= 1
  <2>1. m * 1 <= cap <=> 1 <= q  BY FitsQuotient
  <2> QED BY <1>1, <1>2, <2>1
<1>4. size = IF m * q + open <= atRisk THEN q ELSE IF fit < 1 THEN 0 ELSE IF q <= fit THEN q ELSE fit
  BY <1>1, <1>2, <1>3 DEF FixedQuantity, Greater, Lesser, Headroom
<1>5. size \in Int /\ size <= q /\ (m * q + open <= atRisk \/ size <= fit)
  BY <1>1, <1>3, <1>4
<1>6. m * size <= cap  BY <1>1, <1>5, FitsQuotient
<1>7. m * size + open <= atRisk
  <2>1. CASE m * q + open <= atRisk
    <3>1. m * size <= m * q  BY <1>1, <1>5, ProductOrder
    <3>2. m * size \in Int /\ m * q \in Int  BY <1>1, <1>5
    <3> HIDE DEF size, q
    <3> QED BY <2>1, <3>1, <3>2
  <2>2. CASE ~(m * q + open <= atRisk)
    <3>1. size <= fit  BY <1>5, <2>2
    <3>2. m * size <= atRisk - open  BY <1>5, <3>1, FitsQuotient
    <3>3. m * size \in Int  BY <1>5
    <3> HIDE DEF size
    <3> QED BY <3>2, <3>3
  <2> QED BY <2>1, <2>2
<1> QED BY <1>5, <1>6, <1>7

\* Nothing that fits is left on the table: one contract more would pass a cap,
\* and a refusal means that not even one fits.
THEOREM SizedIsLargest ==
  ASSUME NEW m, NEW cap, NEW open, NEW atRisk, Amounts(m, cap, open, atRisk)
  PROVE  LET more == FixedQuantity(m, cap, open, atRisk) + 1
         IN  ~(m * more <= cap /\ m * more + open <= atRisk)
<1> DEFINE q == cap \div m
           fit == (atRisk - open) \div m
           size == FixedQuantity(m, cap, open, atRisk)
<1> USE DEF Amounts
<1>1. q \in Int /\ fit \in Int  BY QuotientBounds
<1>2. m * 1 <= cap <=> 1 <= q  BY FitsQuotient
<1>3. size = IF m > cap THEN 0 ELSE IF m * q + open <= atRisk THEN q
             ELSE IF fit < 1 THEN 0 ELSE IF q <= fit THEN q ELSE fit
  BY <1>1, <1>2 DEF FixedQuantity, Greater, Lesser, Headroom
<1>4. size \in Int  BY <1>1, <1>3
<1>5. m * (size + 1) <= cap <=> size + 1 <= q  BY <1>4, FitsQuotient
<1>6. m * (size + 1) <= atRisk - open <=> size + 1 <= fit  BY <1>4, FitsQuotient
<1>7. m * (size + 1) + open <= atRisk <=> m * (size + 1) <= atRisk - open
  <2>1. m * (size + 1) \in Int  BY <1>4
  <2> HIDE DEF size
  <2> QED BY <2>1
<1>8. ~(size + 1 <= q /\ size + 1 <= fit)
  BY <1>1, <1>2, <1>3
<1> QED BY <1>5, <1>6, <1>7, <1>8

-----------------------------------------------------------------------------
(* Finite sets and places in an order.                                     *)

LEMMA ImageIsFinite ==
  ASSUME NEW S, IsFiniteSet(S), NEW f
  PROVE  IsFiniteSet({f[x] : x \in S})
<1> DEFINE T == {f[x] : x \in S}
           g == [x \in S |-> f[x]]
<1>1. g \in Surjection(S, T)
  BY DEF Surjection
<1> HIDE DEF T, g
<1>2. IsFiniteSet(T)
  BY <1>1, FS_Surjection
<1> QED BY <1>2 DEF T

LEMMA UnionIsFinite ==
  ASSUME NEW S, IsFiniteSet(S), NEW f, \A x \in S : IsFiniteSet(f[x])
  PROVE  IsFiniteSet(UNION {f[x] : x \in S})
<1>1. IsFiniteSet({f[x] : x \in S})
  BY ImageIsFinite
<1>2. \A T \in {f[x] : x \in S} : IsFiniteSet(T)
  OBVIOUS
<1> QED BY <1>1, <1>2, FS_UNION

\* Two unions, one in the other.
Layers(S, T, f) == UNION {UNION {f[c][d] : d \in T[c]} : c \in S}

LEMMA UnionsAreFinite ==
  ASSUME NEW S, IsFiniteSet(S), NEW T, NEW f,
         \A c \in S : IsFiniteSet(T[c]) /\ \A d \in T[c] : IsFiniteSet(f[c][d])
  PROVE  IsFiniteSet(Layers(S, T, f))
<1> DEFINE g == [c \in S |-> UNION {f[c][d] : d \in T[c]}]
<1>1. ASSUME NEW c \in S PROVE IsFiniteSet(g[c])
  <2>1. IsFiniteSet(UNION {f[c][d] : d \in T[c]})
    BY <1>1, UnionIsFinite
  <2> QED BY <2>1
<1>2. {UNION {f[c][d] : d \in T[c]} : c \in S} = {g[c] : c \in S}
  OBVIOUS
<1> HIDE DEF g
<1>3. IsFiniteSet(UNION {g[c] : c \in S})
  BY <1>1, UnionIsFinite
<1> QED BY <1>2, <1>3, Zenon DEF Layers

\* R compares the elements of S, and orders them when it tells any two apart.
Compares(R, S) ==
  /\ \A a, b \in S : <<a, b>> \in R \/ <<b, a>> \in R
  /\ \A a, b, c \in S : <<a, b>> \in R /\ <<b, c>> \in R => <<a, c>> \in R
Orders(R, S) == Compares(R, S) /\ \A a, b \in S : <<a, b>> \in R /\ <<b, a>> \in R => a = b

UpTo(R, S, a) == {b \in S : <<b, a>> \in R}

LEMMA LastExists ==
  ASSUME NEW R, NEW S, IsFiniteSet(S), S # {}, Compares(R, S)
  PROVE  \E m \in S : \A a \in S : <<a, m>> \in R
<1> DEFINE P == {T \in SUBSET S : T # {} => \E m \in T : \A a \in T : <<a, m>> \in R}
<1>1. {} \in P
  OBVIOUS
<1>2. \A T \in SUBSET S : \A x \in S \ T : T \in P => T \cup {x} \in P
  <2> SUFFICES ASSUME NEW T \in SUBSET S, NEW x \in S \ T, T \in P
               PROVE  \E m \in T \cup {x} : \A a \in T \cup {x} : <<a, m>> \in R
    OBVIOUS
  <2>1. CASE T = {}
    BY <2>1 DEF Compares
  <2>2. CASE T # {}
    <3>1. PICK m \in T : \A a \in T : <<a, m>> \in R
      BY <2>2
    <3>2. CASE <<x, m>> \in R
      BY <3>1, <3>2
    <3>3. CASE <<m, x>> \in R
      BY <3>1, <3>3 DEF Compares
    <3> QED BY <3>2, <3>3 DEF Compares
  <2> QED BY <2>1, <2>2
<1> HIDE DEF P
<1>3. S \in P
  BY <1>1, <1>2, AddUp
<1> QED BY <1>3 DEF P

\* Every place of a finite order is taken.
LEMMA PlaceTaken ==
  ASSUME NEW R, NEW S, IsFiniteSet(S), Orders(R, S), NEW k \in 1 .. Cardinality(S)
  PROVE  \E a \in S : Cardinality(UpTo(R, S, a)) = k
<1> DEFINE Q == {n \in Nat : \A T \in SUBSET S : Cardinality(T) = n =>
                   \A i \in 1 .. n : \E a \in T : Cardinality(UpTo(R, T, a)) = i}
<1>1. \A T \in SUBSET S : IsFiniteSet(T) /\ Cardinality(T) \in Nat /\ Orders(R, T)
  BY FS_Subset, FS_CardinalityType DEF Orders, Compares
<1>2. 0 \in Q
  OBVIOUS
<1>3. ASSUME NEW n \in Nat, n \in Q PROVE n + 1 \in Q
  <2>1. ASSUME NEW T \in SUBSET S, Cardinality(T) = n + 1, NEW i \in 1 .. n + 1
        PROVE  \E a \in T : Cardinality(UpTo(R, T, a)) = i
    <3>1. T # {}
      BY <2>1, FS_EmptySet
    <3>2. PICK m \in T : \A a \in T : <<a, m>> \in R
      BY <1>1, <3>1, LastExists DEF Orders
    <3> DEFINE W == T \ {m}
    <3>3. W \in SUBSET S /\ Cardinality(W) = n
      <4>1. IsFiniteSet(T) /\ Cardinality(T) = n + 1
        BY <1>1, <2>1
      <4>2. Cardinality(T \ {m}) = Cardinality(T) - 1
        BY <4>1, FS_RemoveElement
      <4> QED BY <4>1, <4>2
    <3>4. UpTo(R, T, m) = T
      BY <3>2 DEF UpTo
    <3>5. \A a \in W : UpTo(R, T, a) = UpTo(R, W, a)
      BY <1>1, <3>2 DEF UpTo, Orders, Compares
    <3>6. CASE i = n + 1
      BY <2>1, <3>4, <3>6
    <3>7. CASE i # n + 1
      <4>1. i \in 1 .. n
        BY <3>7
      <4>2. PICK a \in W : Cardinality(UpTo(R, W, a)) = i
        BY <1>3, <3>3, <4>1
      <4> QED BY <3>5, <4>2
    <3> QED BY <3>6, <3>7
  <2> QED BY <2>1
<1> HIDE DEF Q
<1>4. Cardinality(S) \in Nat /\ Cardinality(S) \in Q
  BY <1>1, <1>2, <1>3, CountUp
<1> QED BY <1>4 DEF Q
-----------------------------------------------------------------------------
(* What a structure pays.                                                  *)

Leg == [type : {"call", "put"}, strike : 1 .. Beyond - 1, side : {-1, 1}]

LEMMA BeyondIsNat == Beyond \in Nat
BY ParametersAssumption

LEMMA LegsOf ==
  ASSUME NEW c \in Contracts
  PROVE  /\ Bought(c) \in Leg /\ Bought(c).type = c.type /\ Bought(c).strike = c.strike /\ Bought(c).side = 1
         /\ Sold(c) \in Leg /\ Sold(c).type = c.type /\ Sold(c).strike = c.strike /\ Sold(c).side = -1
BY BeyondIsNat DEF Contracts, Leg, Bought, Sold

LEMMA LegValueIsInt ==
  ASSUME NEW l \in Leg, NEW spot \in Int
  PROVE  LegValue(l, spot) \in Int
<1>1. l.strike \in Int /\ l.side \in {-1, 1}
  BY BeyondIsNat DEF Leg
<1> QED BY <1>1 DEF LegValue

\* The value of a bought and of a sold leg.
Above(n) == IF n > 0 THEN 100 * n ELSE 0

LEMMA LegPays ==
  ASSUME NEW c \in Contracts, NEW spot \in Int
  PROVE  LET inside == IF c.type = "call" THEN spot - c.strike ELSE c.strike - spot
         IN  LegValue(Bought(c), spot) = Above(inside) /\ LegValue(Sold(c), spot) = -Above(inside)
<1>1. c.strike \in Int
  BY BeyondIsNat DEF Contracts
<1> QED BY <1>1, LegsOf DEF LegValue, Above

Values(legs, spot) == [l \in legs |-> LegValue(l, spot)]
Total(all, legs, spot) == SumFunctionOnSet(Values(all, spot), legs)

LEMMA PayoffIs ==
  ASSUME NEW p, NEW spot
  PROVE  Payoff(p, spot) = Total(p.legs, p.legs, spot)
BY DEF Payoff, Values, Total

LEMMA NoLegs ==
  ASSUME NEW all, NEW spot
  PROVE  Total(all, {}, spot) = 0
BY SumEmpty DEF Total

\* A leg more, over any set of legs the values are given for.
LEMMA OneLegMore ==
  ASSUME NEW all \in SUBSET Leg, NEW legs \in SUBSET all, IsFiniteSet(legs), NEW l \in all \ legs,
         NEW spot \in Int
  PROVE  Total(all, legs \cup {l}, spot) = Total(all, legs, spot) + LegValue(l, spot)
<1> DEFINE f == Values(all, spot)
<1>1. \A x \in legs \cup {l} : f[x] \in Int
  BY LegValueIsInt DEF Values
<1>2. f[l] = LegValue(l, spot)
  BY DEF Values
<1> HIDE DEF f
<1>3. SumFunctionOnSet(f, legs \cup {l}) = SumFunctionOnSet(f, legs) + f[l]
  BY <1>1, SumAdd
<1> QED BY <1>2, <1>3 DEF f, Total

LEMMA TotalOfOne ==
  ASSUME NEW all \in SUBSET Leg, NEW a \in all, NEW spot \in Int
  PROVE  Total(all, {a}, spot) = LegValue(a, spot)
<1>1. Total(all, {} \cup {a}, spot) = Total(all, {}, spot) + LegValue(a, spot)
  BY FS_EmptySet, OneLegMore
<1>2. {} \cup {a} = {a}
  OBVIOUS
<1>3. Total(all, {a}, spot) = Total(all, {}, spot) + LegValue(a, spot)
  BY <1>1, <1>2, Zenon
<1>4. LegValue(a, spot) \in Int /\ Total(all, {}, spot) = 0
  BY LegValueIsInt, NoLegs
<1> QED BY <1>3, <1>4

LEMMA TotalOfTwo ==
  ASSUME NEW all \in SUBSET Leg, NEW a \in all, NEW b \in all \ {a}, NEW spot \in Int
  PROVE  Total(all, {a, b}, spot) = LegValue(a, spot) + LegValue(b, spot)
<1>1. Total(all, {a} \cup {b}, spot) = Total(all, {a}, spot) + LegValue(b, spot)
  <2>1. IsFiniteSet({a}) /\ {a} \in SUBSET all /\ b \in all \ {a}
    BY FS_Singleton
  <2> QED BY <2>1, OneLegMore
<1>2. {a} \cup {b} = {a, b}
  OBVIOUS
<1>3. Total(all, {a, b}, spot) = Total(all, {a}, spot) + LegValue(b, spot)
  BY <1>1, <1>2, Zenon
<1> QED BY <1>3, TotalOfOne

LEMMA TotalOfFour ==
  ASSUME NEW all \in SUBSET Leg, NEW a \in all, NEW b \in all \ {a}, NEW c \in all \ {a, b},
         NEW d \in all \ {a, b, c}, NEW spot \in Int
  PROVE  Total(all, {a, b, c, d}, spot)
           = LegValue(a, spot) + LegValue(b, spot) + LegValue(c, spot) + LegValue(d, spot)
<1>1. IsFiniteSet({a, b}) /\ IsFiniteSet({a, b, c})
  <2>1. IsFiniteSet({a})
    BY FS_Singleton
  <2>2. IsFiniteSet({a} \cup {b})
    BY <2>1, FS_AddElement
  <2>3. IsFiniteSet(({a} \cup {b}) \cup {c})
    BY <2>2, FS_AddElement
  <2>4. {a} \cup {b} = {a, b} /\ ({a} \cup {b}) \cup {c} = {a, b, c}
    OBVIOUS
  <2> QED BY <2>2, <2>3, <2>4
<1>2. Total(all, {a, b} \cup {c}, spot) = Total(all, {a, b}, spot) + LegValue(c, spot)
  <2>1. {a, b} \in SUBSET all /\ c \in all \ {a, b}
    OBVIOUS
  <2> QED BY <1>1, <2>1, OneLegMore
<1>3. Total(all, {a, b, c} \cup {d}, spot) = Total(all, {a, b, c}, spot) + LegValue(d, spot)
  <2>1. {a, b, c} \in SUBSET all /\ d \in all \ {a, b, c}
    OBVIOUS
  <2> QED BY <1>1, <2>1, OneLegMore
<1>4. {a, b} \cup {c} = {a, b, c} /\ {a, b, c} \cup {d} = {a, b, c, d}
  OBVIOUS
<1>5. /\ Total(all, {a, b, c}, spot) = Total(all, {a, b}, spot) + LegValue(c, spot)
      /\ Total(all, {a, b, c, d}, spot) = Total(all, {a, b, c}, spot) + LegValue(d, spot)
  BY <1>2, <1>3, <1>4, Zenon
<1> QED BY <1>5, TotalOfTwo

LEMMA PaysOne ==
  ASSUME NEW p, NEW a \in Leg, p.legs = {a}, NEW spot \in Int
  PROVE  Payoff(p, spot) = LegValue(a, spot)
<1>1. Total({a}, {a}, spot) = LegValue(a, spot)
  BY TotalOfOne
<1>2. Payoff(p, spot) = Total({a}, {a}, spot)
  BY PayoffIs, Zenon
<1> QED BY <1>1, <1>2

LEMMA PaysTwo ==
  ASSUME NEW p, NEW a \in Leg, NEW b \in Leg, a # b, p.legs = {a, b}, NEW spot \in Int
  PROVE  Payoff(p, spot) = LegValue(a, spot) + LegValue(b, spot)
<1>1. {a, b} \in SUBSET Leg /\ a \in {a, b} /\ b \in {a, b} \ {a}
  OBVIOUS
<1>2. Total({a, b}, {a, b}, spot) = LegValue(a, spot) + LegValue(b, spot)
  BY <1>1, TotalOfTwo
<1>3. Payoff(p, spot) = Total({a, b}, {a, b}, spot)
  BY PayoffIs, Zenon
<1> QED BY <1>2, <1>3

LEMMA PaysFour ==
  ASSUME NEW p, NEW a \in Leg, NEW b \in Leg, NEW c \in Leg, NEW d \in Leg,
         a # b, a # c, a # d, b # c, b # d, c # d, p.legs = {a, b, c, d}, NEW spot \in Int
  PROVE  Payoff(p, spot) = LegValue(a, spot) + LegValue(b, spot) + LegValue(c, spot) + LegValue(d, spot)
<1> DEFINE all == {a, b, c, d}
<1>1. all \in SUBSET Leg /\ a \in all /\ b \in all \ {a} /\ c \in all \ {a, b} /\ d \in all \ {a, b, c}
  OBVIOUS
<1>2. Payoff(p, spot) = Total(all, all, spot)
  BY PayoffIs, Zenon
<1> HIDE DEF all
<1>3. Total(all, {a, b, c, d}, spot)
        = LegValue(a, spot) + LegValue(b, spot) + LegValue(c, spot) + LegValue(d, spot)
  BY <1>1, TotalOfFour
<1>4. all = {a, b, c, d}
  BY DEF all
<1>5. Payoff(p, spot) = Total(all, {a, b, c, d}, spot)
  BY <1>2, <1>4, Zenon
<1> QED BY <1>3, <1>5
-----------------------------------------------------------------------------
(* The builders: what they offer loses no more than it declares, on any    *)
(* chain, and bets the way it was asked to.                                *)

LosesNoMore(p) ==
  \A spot \in Int : Payoff(p, spot) \in Int /\ -Profit(p, spot) <= p.loss + 100 * ExtraWing(p)

Offer(p, structure, expiry) ==
  /\ p.structure = structure /\ p.expiry = expiry /\ p.loss \in Int /\ p.limit \in Int
  /\ p.legs \in SUBSET Leg /\ IsFiniteSet(p.legs)
  /\ LosesNoMore(p)

Toward(p, dir) == Direction(p) = IF dir > 0 THEN 1 ELSE -1

\* A finite set of numbers has a highest one.
LEMMA MaxIsMax ==
  ASSUME NEW S \in SUBSET Int, IsFiniteSet(S), S # {}
  PROVE  Max(S) \in S /\ \A n \in S : n <= Max(S)
<1> DEFINE R == {t \in S \X S : t[1] <= t[2]}
<1>1. \A a, b \in S : <<a, b>> \in R <=> a <= b
  OBVIOUS
<1>2. \A a, b, c \in S : /\ a <= a /\ (a <= b \/ b <= a)
                         /\ (a <= b /\ b <= c => a <= c)
  OBVIOUS
<1> HIDE DEF R
<1>3. Compares(R, S)
  BY <1>1, <1>2 DEF Compares
<1>4. PICK m \in S : \A a \in S : <<a, m>> \in R
  BY <1>3, LastExists
<1>5. \A a \in S : m >= a
  BY <1>1, <1>4
<1>6. Max(S) \in S /\ \A a \in S : Max(S) >= a
  BY <1>5 DEF Max
<1> QED BY <1>6

LEMMA PickOf ==
  ASSUME NEW chain, Quotable(chain), NEW e, NEW type, NEW target \in Int, NEW tol \in Int
  PROVE  /\ IsFiniteSet(Pick(chain, e, type, target, tol))
         /\ \A c \in Pick(chain, e, type, target, tol) :
              c \in Contracts /\ c \in chain /\ c.expiry = e /\ c.type = type /\ Gap(c.delta, target) <= tol
<1> DEFINE near == {c \in Listed(chain, e, type) : Gap(c.delta, target) <= tol}
           R == {t \in near \X near : Gap(t[2].delta, target) <= Gap(t[1].delta, target)}
           least == CHOOSE c \in near : \A d \in near : Gap(c.delta, target) <= Gap(d.delta, target)
<1>1. near \in SUBSET chain /\ \A c \in near : c \in Contracts /\ c.expiry = e /\ c.type = type
                                             /\ Gap(c.delta, target) <= tol
  BY DEF Listed, Quotable
<1>2. IsFiniteSet(near)
  BY <1>1, FS_Subset DEF Quotable
<1>3. \A c \in near : Gap(c.delta, target) \in Int
  BY <1>1 DEF Contracts, Gap
<1>4. \A a, b \in near : <<a, b>> \in R <=> Gap(b.delta, target) <= Gap(a.delta, target)
  OBVIOUS
<1>5. Pick(chain, e, type, target, tol) = IF near = {} THEN {} ELSE {least}
  BY DEF Pick
<1> HIDE DEF near, R
<1>6. Compares(R, near)
  BY <1>3, <1>4 DEF Compares
<1>7. CASE near = {}
  BY <1>5, <1>7, FS_EmptySet
<1>8. CASE near # {}
  <2>1. PICK m \in near : \A a \in near : <<a, m>> \in R
    BY <1>2, <1>6, <1>8, LastExists
  <2>2. least \in near
    BY <1>4, <2>1
  <2> HIDE DEF least
  <2>3. IsFiniteSet({least})
    BY FS_Singleton
  <2> QED BY <1>1, <1>5, <1>8, <2>2, <2>3
<1> QED BY <1>7, <1>8

LEMMA ListedOf ==
  ASSUME NEW chain, Quotable(chain), NEW e, NEW type
  PROVE  /\ IsFiniteSet(Listed(chain, e, type))
         /\ \A c \in Listed(chain, e, type) : c \in Contracts /\ c \in chain /\ c.expiry = e /\ c.type = type
<1>1. Listed(chain, e, type) \in SUBSET chain
  BY DEF Listed
<1>2. IsFiniteSet(Listed(chain, e, type))
  BY <1>1, FS_Subset DEF Quotable
<1> QED BY <1>2 DEF Listed, Quotable

LEMMA DebitOf ==
  ASSUME NEW structure, NEW legs, NEW debit, NEW floor, NEW e
  PROVE  /\ IsFiniteSet(Debit(structure, legs, debit, floor, e))
         /\ \A p \in Debit(structure, legs, debit, floor, e) :
              p = Proposed(structure, legs, debit, debit, e)
<1>1. IsFiniteSet({}) /\ IsFiniteSet({Proposed(structure, legs, debit, debit, e)})
  BY FS_EmptySet, FS_Singleton
<1> QED BY <1>1 DEF Debit

LEMMA ProposedIs ==
  ASSUME NEW structure, NEW legs, NEW limit, NEW loss, NEW e
  PROVE  LET p == Proposed(structure, legs, limit, loss, e)
         IN  /\ p.structure = structure /\ p.legs = legs /\ p.limit = limit /\ p.loss = loss
             /\ p.expiry = e
BY DEF Proposed

\* What is bought outright loses what was paid for it, when its payoff is never
\* negative.
LEMMA DebitLoses ==
  ASSUME NEW p, p.limit \in Int, p.loss = p.limit, p.structure # "iron_condor",
         \A spot \in Int : Payoff(p, spot) \in Nat
  PROVE  LosesNoMore(p)
<1> SUFFICES ASSUME NEW spot \in Int
             PROVE  Payoff(p, spot) \in Int /\ -Profit(p, spot) <= p.loss + 100 * ExtraWing(p)
  BY DEF LosesNoMore
<1>1. ExtraWing(p) = 0
  BY DEF ExtraWing
<1>2. Payoff(p, spot) \in Nat
  OBVIOUS
<1>3. -(Payoff(p, spot) - p.limit) <= p.loss + 100 * 0
  BY <1>2
<1> QED BY <1>1, <1>2, <1>3 DEF Profit

LEMMA SingleLongOffers ==
  ASSUME NEW chain, Quotable(chain), NEW e, NEW dir \in Int, NEW target \in Int, NEW tol \in Int
  PROVE  /\ IsFiniteSet(SingleLong(chain, e, dir, target, tol))
         /\ \A p \in SingleLong(chain, e, dir, target, tol) :
              Offer(p, "single_long", e) /\ Toward(p, dir)
<1> DEFINE type == IF dir > 0 THEN "call" ELSE "put"
           picked == Pick(chain, e, type, target, tol)
           f == [c \in picked |-> Debit("single_long", {Bought(c)}, c.fair, 1, e)]
<1>1. SingleLong(chain, e, dir, target, tol) = UNION {f[c] : c \in picked}
  BY DEF SingleLong
<1>2. IsFiniteSet(picked) /\ \A c \in picked : c \in Contracts /\ c.type = type
  BY PickOf
<1>3. \A c \in picked : IsFiniteSet(f[c])
  BY DebitOf
<1>4. ASSUME NEW c \in picked, NEW p \in f[c]
      PROVE  Offer(p, "single_long", e) /\ Toward(p, dir)
  <2>1. p = Proposed("single_long", {Bought(c)}, c.fair, c.fair, e)
    BY <1>4, DebitOf
  <2>2. p.structure = "single_long" /\ p.legs = {Bought(c)} /\ p.limit = c.fair /\ p.loss = c.fair /\ p.expiry = e
    BY <2>1, ProposedIs
  <2>3. c \in Contracts /\ c.type = type /\ c.fair \in Int /\ c.strike \in 1 .. Beyond - 1
    BY <1>2, <1>4 DEF Contracts
  <2>4. Bought(c) \in Leg
    BY <2>3, LegsOf
  <2>5. \A spot \in Int : Payoff(p, spot) = Above(IF c.type = "call" THEN spot - c.strike ELSE c.strike - spot)
    BY <2>2, <2>3, <2>4, PaysOne, LegPays
  <2>6. \A spot \in Int : Payoff(p, spot) \in Nat
    BY <2>3, <2>5, BeyondIsNat DEF Above
  <2>7. LosesNoMore(p)
    BY <2>2, <2>3, <2>6, DebitLoses
  <2>8. IsFiniteSet(p.legs) /\ p.legs \in SUBSET Leg
    BY <2>2, <2>4, FS_Singleton
  <2>9. Toward(p, dir)
    <3>1. /\ Payoff(p, Beyond) = Above(IF c.type = "call" THEN Beyond - c.strike ELSE c.strike - Beyond)
          /\ Payoff(p, 0) = Above(IF c.type = "call" THEN 0 - c.strike ELSE c.strike - 0)
      BY <2>5, BeyondIsNat
    <3>2. IF dir > 0 THEN Payoff(p, Beyond) > Payoff(p, 0) ELSE Payoff(p, Beyond) < Payoff(p, 0)
      BY <2>3, <3>1, BeyondIsNat DEF Above
    <3>3. Payoff(p, Beyond) \in Int /\ Payoff(p, 0) \in Int
      BY <2>6, BeyondIsNat
    <3> QED BY <3>2, <3>3 DEF Toward, Direction
  <2> QED BY <2>2, <2>3, <2>7, <2>8, <2>9 DEF Offer
<1> HIDE DEF f, picked
<1>5. IsFiniteSet(UNION {f[c] : c \in picked})
  BY <1>2, <1>3, UnionIsFinite
<1> QED BY <1>1, <1>4, <1>5
\* A set of offers of one structure and expiry.
Offers(S, structure, e) == IsFiniteSet(S) /\ \A p \in S : Offer(p, structure, e)

LEMMA ShiftOf ==
  ASSUME NEW chain, Quotable(chain), NEW base \in Contracts, NEW n \in Nat, NEW up \in BOOLEAN
  PROVE  /\ IsFiniteSet(Shift(chain, base, n, up))
         /\ \A d \in Shift(chain, base, n, up) :
              /\ d \in Contracts /\ d.expiry = base.expiry /\ d.type = base.type
              /\ IF up THEN base.strike < d.strike ELSE d.strike < base.strike
<1> DEFINE list == Listed(chain, base.expiry, base.type)
<1>1. IsFiniteSet(list) /\ \A d \in list : d \in Contracts /\ d.expiry = base.expiry /\ d.type = base.type
  BY ListedOf
<1>2. \A d \in Contracts : d.strike \in Int
  BY BeyondIsNat DEF Contracts
<1>3. Shift(chain, base, n, up) \in SUBSET list
  BY DEF Shift
<1>4. \A d \in Shift(chain, base, n, up) : IF up THEN base.strike < d.strike ELSE d.strike < base.strike
  BY <1>1, <1>2 DEF Shift
<1> HIDE DEF list
<1> QED BY <1>1, <1>3, <1>4, FS_Subset

LEMMA ShiftPtsOf ==
  ASSUME NEW chain, Quotable(chain), NEW base \in Contracts, NEW pts, NEW up
  PROVE  /\ IsFiniteSet(ShiftPts(chain, base, pts, up))
         /\ \A d \in ShiftPts(chain, base, pts, up) :
              /\ d \in Contracts /\ d \in chain /\ d.expiry = base.expiry /\ d.type = base.type
              /\ IF up THEN d.strike >= base.strike + pts ELSE d.strike <= base.strike - pts
<1> DEFINE list == Listed(chain, base.expiry, base.type)
<1>1. /\ IsFiniteSet(list)
      /\ \A d \in list : d \in Contracts /\ d \in chain /\ d.expiry = base.expiry /\ d.type = base.type
  BY ListedOf
<1>2. ShiftPts(chain, base, pts, up) \in SUBSET list
  BY DEF ShiftPts
<1>3. \A d \in ShiftPts(chain, base, pts, up) :
        IF up THEN d.strike >= base.strike + pts ELSE d.strike <= base.strike - pts
  BY DEF ShiftPts
<1> HIDE DEF list
<1> QED BY <1>1, <1>2, <1>3, FS_Subset

LEMMA AboveGrows ==
  ASSUME NEW i \in Int, NEW j \in Int, i <= j
  PROVE  /\ Above(i) \in Nat /\ Above(j) \in Nat
         /\ Above(i) <= Above(j) /\ Above(j) <= Above(i) + 100 * (j - i)
BY DEF Above

\* Two legs, the first bought or sold and the second the other way or the same.
LEMMA TwoLegs ==
  ASSUME NEW a \in Leg, NEW b \in Leg, a # b
  PROVE  {a, b} \in SUBSET Leg /\ IsFiniteSet({a, b})
<1>1. IsFiniteSet({a})
  BY FS_Singleton
<1>2. IsFiniteSet({a} \cup {b})
  BY <1>1, FS_AddElement
<1>3. {a} \cup {b} = {a, b}
  OBVIOUS
<1>4. IsFiniteSet({a, b})
  BY <1>2, <1>3, Zenon
<1> QED BY <1>4

LEMMA DebitVerticalOffers ==
  ASSUME NEW chain, Quotable(chain), NEW e, NEW dir \in Int, NEW target \in Int, NEW tol \in Int,
         NEW strikes \in Nat
  PROVE  /\ Offers(DebitVertical(chain, e, dir, target, tol, strikes), "debit_vertical", e)
         /\ \A p \in DebitVertical(chain, e, dir, target, tol, strikes) : Toward(p, dir)
<1> DEFINE up == dir > 0
           type == IF up THEN "call" ELSE "put"
           picked == Pick(chain, e, type, target, tol)
           made(c, d) == Debit("debit_vertical", {Bought(c), Sold(d)}, c.fair - d.fair, 1, e)
           shifted == [c \in picked |-> Shift(chain, c, strikes, up)]
           f == [c \in picked |-> [d \in shifted[c] |-> made(c, d)]]
<1>1. DebitVertical(chain, e, dir, target, tol, strikes) = Layers(picked, shifted, f)
  BY DEF DebitVertical, Layers
<1>2. IsFiniteSet(picked) /\ \A c \in picked : c \in Contracts /\ c.type = type /\ c.expiry = e
  BY PickOf
<1>3. ASSUME NEW c \in picked
      PROVE  /\ IsFiniteSet(shifted[c])
             /\ \A d \in shifted[c] : /\ d \in Contracts /\ d.expiry = e /\ d.type = type
                                      /\ IF up THEN c.strike < d.strike ELSE d.strike < c.strike
  <2>1. c \in Contracts /\ c.type = type /\ c.expiry = e /\ up \in BOOLEAN
    BY <1>2, <1>3
  <2>2. shifted[c] = Shift(chain, c, strikes, up)
    OBVIOUS
  <2> HIDE DEF picked, type, up, shifted
  <2> QED BY <2>1, <2>2, ShiftOf
<1>4. \A c \in picked : \A d \in shifted[c] : f[c][d] = made(c, d) /\ IsFiniteSet(f[c][d])
  BY DebitOf
<1>5. ASSUME NEW c \in picked, NEW d \in shifted[c], NEW p \in made(c, d)
      PROVE  Offer(p, "debit_vertical", e) /\ Toward(p, dir)
  <2>1. p = Proposed("debit_vertical", {Bought(c), Sold(d)}, c.fair - d.fair, c.fair - d.fair, e)
    BY <1>5, DebitOf
  <2>2. /\ p.structure = "debit_vertical" /\ p.legs = {Bought(c), Sold(d)} /\ p.limit = c.fair - d.fair
        /\ p.loss = c.fair - d.fair /\ p.expiry = e
    BY <2>1, ProposedIs
  <2>3. /\ c \in Contracts /\ c.type = type /\ c.fair \in Int /\ c.strike \in 1 .. Beyond - 1
        /\ d \in Contracts /\ d.type = type /\ d.fair \in Int /\ d.strike \in 1 .. Beyond - 1
        /\ IF dir > 0 THEN c.strike < d.strike ELSE d.strike < c.strike
    BY <1>2, <1>3, <1>5 DEF Contracts
  <2>4. Bought(c) \in Leg /\ Sold(d) \in Leg /\ Bought(c) # Sold(d)
    <3>1. Bought(c) \in Leg /\ Bought(c).side = 1 /\ Sold(d) \in Leg /\ Sold(d).side = -1
      BY <2>3, LegsOf
    <3> QED BY <3>1
  <2> DEFINE in(k, spot) == IF dir > 0 THEN spot - k ELSE k - spot
  <2>5. \A spot \in Int : Payoff(p, spot) = Above(in(c.strike, spot)) - Above(in(d.strike, spot))
    <3>1. \A spot \in Int : Payoff(p, spot) = LegValue(Bought(c), spot) + LegValue(Sold(d), spot)
      BY <2>2, <2>4, PaysTwo
    <3>2. \A spot \in Int : /\ LegValue(Bought(c), spot) = Above(in(c.strike, spot))
                            /\ LegValue(Sold(d), spot) = -Above(in(d.strike, spot))
      BY <2>3, LegPays
    <3>3. \A spot \in Int : Above(in(c.strike, spot)) \in Int /\ Above(in(d.strike, spot)) \in Int
      BY <2>3, BeyondIsNat DEF Above
    <3> HIDE DEF in
    <3> QED BY <3>1, <3>2, <3>3
  <2>6. \A spot \in Int : Payoff(p, spot) \in Nat
    BY <2>3, <2>5, BeyondIsNat DEF Above
  <2>7. p.limit \in Int /\ p.loss = p.limit /\ p.structure # "iron_condor"
    BY <2>2, <2>3
  <2>8. LosesNoMore(p)
    BY <2>6, <2>7, DebitLoses
  <2>9. IsFiniteSet(p.legs) /\ p.legs \in SUBSET Leg
    BY <2>2, <2>4, TwoLegs
  <2>10. Toward(p, dir)
    <3>1. IF dir > 0 THEN Payoff(p, Beyond) > Payoff(p, 0) ELSE Payoff(p, Beyond) < Payoff(p, 0)
      BY <2>3, <2>5, BeyondIsNat DEF Above
    <3>2. Payoff(p, Beyond) \in Int /\ Payoff(p, 0) \in Int
      BY <2>6, BeyondIsNat
    <3> QED BY <3>1, <3>2 DEF Toward, Direction
  <2> QED BY <2>2, <2>7, <2>8, <2>9, <2>10 DEF Offer
<1> HIDE DEF f, picked, shifted, made
<1>6. IsFiniteSet(Layers(picked, shifted, f))
  <2>1. \A c \in picked : IsFiniteSet(shifted[c]) /\ \A d \in shifted[c] : IsFiniteSet(f[c][d])
    BY <1>3, <1>4
  <2> QED BY <1>2, <2>1, UnionsAreFinite
<1>7. \A p \in Layers(picked, shifted, f) : Offer(p, "debit_vertical", e) /\ Toward(p, dir)
  BY <1>4, <1>5 DEF Layers
<1> QED BY <1>1, <1>6, <1>7 DEF Offers

\* A contract sold and one further out of the money bought.
LEMMA CreditOffers ==
  ASSUME NEW e, NEW dir \in Int, NEW c \in Contracts, NEW d \in Contracts,
         c.type = (IF dir > 0 THEN "put" ELSE "call"), d.type = c.type,
         IF dir > 0 THEN d.strike < c.strike ELSE c.strike < d.strike,
         NEW p, p = Proposed("credit_vertical", {Sold(c), Bought(d)}, d.fair - c.fair,
                             100 * Gap(c.strike, d.strike) - (c.fair - d.fair), e)
  PROVE  Offer(p, "credit_vertical", e) /\ Toward(p, dir)
<1> DEFINE width == Gap(c.strike, d.strike)
           in(k, spot) == IF dir > 0 THEN k - spot ELSE spot - k
<1>1. /\ p.structure = "credit_vertical" /\ p.legs = {Sold(c), Bought(d)} /\ p.limit = d.fair - c.fair
      /\ p.loss = 100 * width - (c.fair - d.fair) /\ p.expiry = e
  BY ProposedIs
<1>2. c.fair \in Int /\ d.fair \in Int /\ c.strike \in 1 .. Beyond - 1 /\ d.strike \in 1 .. Beyond - 1
  BY DEF Contracts
<1>3. width = (IF dir > 0 THEN c.strike - d.strike ELSE d.strike - c.strike) /\ width \in Nat
  BY <1>2, BeyondIsNat DEF Gap
<1>4. Sold(c) \in Leg /\ Bought(d) \in Leg /\ Sold(c) # Bought(d)
  <2>1. Bought(d) \in Leg /\ Bought(d).side = 1 /\ Sold(c) \in Leg /\ Sold(c).side = -1
    BY LegsOf
  <2> QED BY <2>1
<1>5. \A spot \in Int : Payoff(p, spot) = LegValue(Sold(c), spot) + LegValue(Bought(d), spot)
  <2>1. p.legs = {Sold(c), Bought(d)}
    BY <1>1
  <2> HIDE DEF width
  <2> QED BY <1>4, <2>1, PaysTwo
<1>6. \A spot \in Int : Payoff(p, spot) = Above(in(d.strike, spot)) - Above(in(c.strike, spot))
  <2>1. \A spot \in Int : /\ LegValue(Sold(c), spot) = -Above(in(c.strike, spot))
                          /\ LegValue(Bought(d), spot) = Above(in(d.strike, spot))
    BY LegPays
  <2>2. \A spot \in Int : Above(in(c.strike, spot)) \in Int /\ Above(in(d.strike, spot)) \in Int
    BY <1>2, BeyondIsNat DEF Above
  <2>3. \A x, y \in Int : -x + y = y - x
    OBVIOUS
  <2> SUFFICES ASSUME NEW spot \in Int
               PROVE  Payoff(p, spot) = Above(in(d.strike, spot)) - Above(in(c.strike, spot))
    OBVIOUS
  <2>4. Payoff(p, spot) = -Above(in(c.strike, spot)) + Above(in(d.strike, spot))
    BY <1>5, <2>1
  <2>5. Above(in(c.strike, spot)) \in Int /\ Above(in(d.strike, spot)) \in Int
    BY <2>2
  <2> HIDE DEF in, width
  <2> QED BY <2>3, <2>4, <2>5
<1>7. \A spot \in Int : Payoff(p, spot) \in Int /\ Payoff(p, spot) >= -100 * width
  <2> SUFFICES ASSUME NEW spot \in Int
               PROVE  Payoff(p, spot) \in Int /\ Payoff(p, spot) >= -100 * width
    OBVIOUS
  <2>1. Payoff(p, spot) = Above(in(d.strike, spot)) - Above(in(c.strike, spot))
    BY <1>6
  <2>2. c.strike \in Int /\ d.strike \in Int
    BY <1>2, BeyondIsNat
  <2>3. /\ in(c.strike, spot) \in Int /\ in(d.strike, spot) \in Int
        /\ in(d.strike, spot) <= in(c.strike, spot)
        /\ width = in(c.strike, spot) - in(d.strike, spot)
    <3> HIDE DEF width
    <3> QED BY <1>3, <2>2
  <2> HIDE DEF in, width
  <2>4. /\ Above(in(c.strike, spot)) \in Int /\ Above(in(d.strike, spot)) \in Int
        /\ Above(in(c.strike, spot)) <= Above(in(d.strike, spot)) + 100 * (in(c.strike, spot) - in(d.strike, spot))
    BY <2>3, AboveGrows
  <2> QED BY <2>1, <2>3, <2>4
<1>8. p.limit \in Int /\ p.loss \in Int /\ p.loss = 100 * width + p.limit
  <2> HIDE DEF width
  <2> QED BY <1>1, <1>2, <1>3
<1>9. LosesNoMore(p)
  <2> SUFFICES ASSUME NEW spot \in Int
               PROVE  Payoff(p, spot) \in Int /\ -Profit(p, spot) <= p.loss + 100 * ExtraWing(p)
    BY DEF LosesNoMore
  <2>1. Payoff(p, spot) \in Int /\ Payoff(p, spot) >= -100 * width /\ width \in Nat
    BY <1>3, <1>7
  <2>2. ExtraWing(p) = 0
    BY <1>1 DEF ExtraWing
  <2> HIDE DEF width
  <2>3. -(Payoff(p, spot) - p.limit) <= p.loss + 100 * 0
    BY <1>8, <2>1
  <2> QED BY <2>1, <2>2, <2>3 DEF Profit
<1>10. IsFiniteSet(p.legs) /\ p.legs \in SUBSET Leg
  BY <1>1, <1>4, TwoLegs
<1>11. Toward(p, dir)
  <2>1. IF dir > 0 THEN Payoff(p, Beyond) > Payoff(p, 0) ELSE Payoff(p, Beyond) < Payoff(p, 0)
    <3>1. /\ Payoff(p, Beyond) = Above(in(d.strike, Beyond)) - Above(in(c.strike, Beyond))
          /\ Payoff(p, 0) = Above(in(d.strike, 0)) - Above(in(c.strike, 0))
      BY <1>6, BeyondIsNat
    <3> HIDE DEF width
    <3>2. c.strike \in Int /\ d.strike \in Int /\ 0 < c.strike /\ 0 < d.strike
          /\ c.strike < Beyond /\ d.strike < Beyond
      BY <1>2, BeyondIsNat
    <3>3. CASE dir > 0
      <4>1. d.strike < c.strike
        BY <3>3
      <4> QED BY <3>1, <3>2, <3>3, <4>1, BeyondIsNat DEF Above
    <3>4. CASE ~(dir > 0)
      <4>1. c.strike < d.strike
        BY <3>4
      <4> QED BY <3>1, <3>2, <3>4, <4>1, BeyondIsNat DEF Above
    <3> QED BY <3>3, <3>4
  <2>2. Payoff(p, Beyond) \in Int /\ Payoff(p, 0) \in Int
    BY <1>7, BeyondIsNat
  <2> QED BY <2>1, <2>2 DEF Toward, Direction
<1> QED BY <1>1, <1>8, <1>9, <1>10, <1>11 DEF Offer

LEMMA CreditVerticalOffers ==
  ASSUME NEW chain, Quotable(chain), NEW e, NEW dir \in Int, NEW target \in Int, NEW tol \in Int,
         NEW pts \in Nat \ {0}
  PROVE  /\ Offers(CreditVertical(chain, e, dir, target, tol, pts), "credit_vertical", e)
         /\ \A p \in CreditVertical(chain, e, dir, target, tol, pts) : Toward(p, dir)
<1> DEFINE up == dir <= 0
           type == IF dir > 0 THEN "put" ELSE "call"
           picked == Pick(chain, e, type, target, tol)
           made(c, d) == {Proposed("credit_vertical", {Sold(c), Bought(d)}, d.fair - c.fair,
                                   100 * Gap(c.strike, d.strike) - (c.fair - d.fair), e)}
           rich == [c \in picked |-> {d \in ShiftPts(chain, c, pts, up) :
                                        c.fair - d.fair > 2 * Gap(c.strike, d.strike)}]
           f == [c \in picked |-> [d \in rich[c] |-> made(c, d)]]
<1>1. CreditVertical(chain, e, dir, target, tol, pts) = Layers(picked, rich, f)
  <2>1. \A c \in picked : \A d : d \in rich[c] <=> d \in {x \in ShiftPts(chain, c, pts, dir <= 0) :
                                                      c.fair - x.fair > 2 * Gap(c.strike, x.strike)}
    OBVIOUS
  <2>2. \A c \in picked : \A d \in rich[c] : f[c][d] = made(c, d)
    OBVIOUS
  <2> HIDE DEF f, rich
  <2>3. \A p : p \in Layers(picked, rich, f) <=> \E c \in picked : \E d \in rich[c] : p \in made(c, d)
    <3> HIDE DEF made
    <3> QED BY <2>2 DEF Layers
  <2>4. \A p : p \in CreditVertical(chain, e, dir, target, tol, pts)
                <=> \E c \in picked : \E d \in rich[c] : p \in made(c, d)
    <3> DEFINE one(c, d) == Proposed("credit_vertical", {Sold(c), Bought(d)}, d.fair - c.fair,
                                     100 * Gap(c.strike, d.strike) - (c.fair - d.fair), e)
               near(c) == {x \in ShiftPts(chain, c, pts, dir <= 0) :
                             c.fair - x.fair > 2 * Gap(c.strike, x.strike)}
    <3>1. CreditVertical(chain, e, dir, target, tol, pts) = UNION {{one(c, d) : d \in near(c)} : c \in picked}
      BY Zenon DEF CreditVertical
    <3>2. \A c \in picked : \A d : d \in rich[c] <=> d \in near(c)
      BY <2>1
    <3>3. \A c, d : made(c, d) = {one(c, d)}
      OBVIOUS
    <3> HIDE DEF one, near, made, picked
    <3> QED BY <3>1, <3>2, <3>3
  <2> QED BY <2>3, <2>4
<1>2. IsFiniteSet(picked) /\ \A c \in picked : c \in Contracts /\ c.type = type /\ c.expiry = e
  BY PickOf
<1>3. ASSUME NEW c \in picked
      PROVE  /\ IsFiniteSet(rich[c])
             /\ \A d \in rich[c] : /\ d \in Contracts /\ d.expiry = e /\ d.type = type
                                   /\ IF up THEN d.strike >= c.strike + pts ELSE d.strike <= c.strike - pts
  <2>1. c \in Contracts /\ c.type = type /\ c.expiry = e /\ up \in BOOLEAN /\ pts \in Int
    BY <1>2, <1>3
  <2>2. rich[c] \in SUBSET ShiftPts(chain, c, pts, up)
    OBVIOUS
  <2> HIDE DEF picked, type, up, rich
  <2>3. /\ IsFiniteSet(ShiftPts(chain, c, pts, up))
        /\ \A d \in ShiftPts(chain, c, pts, up) :
             /\ d \in Contracts /\ d.expiry = e /\ d.type = type
             /\ IF up THEN d.strike >= c.strike + pts ELSE d.strike <= c.strike - pts
    BY <2>1, ShiftPtsOf
  <2> QED BY <2>2, <2>3, FS_Subset
<1>4. \A c \in picked : \A d \in rich[c] : f[c][d] = made(c, d) /\ IsFiniteSet(f[c][d])
  BY FS_Singleton
<1>5. ASSUME NEW c \in picked, NEW d \in rich[c], NEW p \in made(c, d)
      PROVE  Offer(p, "credit_vertical", e) /\ Toward(p, dir)
  <2>1. p = Proposed("credit_vertical", {Sold(c), Bought(d)}, d.fair - c.fair,
                     100 * Gap(c.strike, d.strike) - (c.fair - d.fair), e)
    BY <1>5
  <2>2. c \in Contracts /\ c.type = type /\ d \in Contracts /\ d.type = type
    BY <1>2, <1>3, <1>5
  <2>3. IF dir > 0 THEN d.strike < c.strike ELSE c.strike < d.strike
    <3>1. c.strike \in Int /\ d.strike \in Int
      BY <2>2, BeyondIsNat DEF Contracts
    <3>2. IF up THEN d.strike >= c.strike + pts ELSE d.strike <= c.strike - pts
      BY <1>3, <1>5
    <3> HIDE DEF rich, picked, made, f
    <3> QED BY <3>1, <3>2
  <2> HIDE DEF rich, picked, made, f
  <2> QED BY <2>1, <2>2, <2>3, CreditOffers
<1> HIDE DEF f, picked, rich, made
<1>6. IsFiniteSet(Layers(picked, rich, f))
  <2>1. \A c \in picked : IsFiniteSet(rich[c]) /\ \A d \in rich[c] : IsFiniteSet(f[c][d])
    BY <1>3, <1>4
  <2> QED BY <1>2, <2>1, UnionsAreFinite
<1>7. \A p \in Layers(picked, rich, f) : Offer(p, "credit_vertical", e) /\ Toward(p, dir)
  BY <1>4, <1>5 DEF Layers
<1> QED BY <1>1, <1>6, <1>7 DEF Offers

\* A call and a put bought outright.
LEMMA LongBothOffers ==
  ASSUME NEW structure, structure # "iron_condor", NEW e, NEW c \in Contracts, c.type = "call",
         NEW d \in Contracts, d.type = "put",
         NEW p \in Debit(structure, {Bought(c), Bought(d)}, c.fair + d.fair, 2, e)
  PROVE  Offer(p, structure, e)
<1>1. p = Proposed(structure, {Bought(c), Bought(d)}, c.fair + d.fair, c.fair + d.fair, e)
  BY DebitOf
<1>2. /\ p.structure = structure /\ p.legs = {Bought(c), Bought(d)} /\ p.limit = c.fair + d.fair
      /\ p.loss = c.fair + d.fair /\ p.expiry = e
  BY <1>1, ProposedIs
<1>3. c.fair \in Int /\ d.fair \in Int /\ c.strike \in Int /\ d.strike \in Int
  BY BeyondIsNat DEF Contracts
<1>4. Bought(c) \in Leg /\ Bought(d) \in Leg /\ Bought(c) # Bought(d)
  <2>1. Bought(c) \in Leg /\ Bought(c).type = "call" /\ Bought(d) \in Leg /\ Bought(d).type = "put"
    BY LegsOf
  <2> QED BY <2>1
<1>5. \A spot \in Int : Payoff(p, spot) = LegValue(Bought(c), spot) + LegValue(Bought(d), spot)
  BY <1>2, <1>4, PaysTwo
<1>6. \A spot \in Int : /\ LegValue(Bought(c), spot) = Above(spot - c.strike)
                        /\ LegValue(Bought(d), spot) = Above(d.strike - spot)
  BY LegPays
<1>7. \A spot \in Int : Above(spot - c.strike) \in Nat /\ Above(d.strike - spot) \in Nat
  BY <1>3 DEF Above
<1>8. \A spot \in Int : Payoff(p, spot) \in Nat
  BY <1>5, <1>6, <1>7
<1>9. p.limit \in Int /\ p.loss = p.limit
  BY <1>2, <1>3
<1>10. LosesNoMore(p)
  BY <1>2, <1>8, <1>9, DebitLoses
<1>11. IsFiniteSet(p.legs) /\ p.legs \in SUBSET Leg
  BY <1>2, <1>4, TwoLegs
<1> QED BY <1>2, <1>9, <1>10, <1>11 DEF Offer

LEMMA StraddleOffers ==
  ASSUME NEW chain, Quotable(chain), NEW e, NEW target \in Int, NEW tol \in Int
  PROVE  Offers(Straddle(chain, e, target, tol), "straddle", e)
<1> DEFINE picked == Pick(chain, e, "call", target, tol)
           made(c, d) == Debit("straddle", {Bought(c), Bought(d)}, c.fair + d.fair, 2, e)
           level == [c \in picked |-> {q \in Listed(chain, e, "put") : q.strike = c.strike}]
           f == [c \in picked |-> [d \in level[c] |-> made(c, d)]]
<1>1. Straddle(chain, e, target, tol) = Layers(picked, level, f)
  BY DEF Straddle, Layers
<1>2. IsFiniteSet(picked) /\ \A c \in picked : c \in Contracts /\ c.type = "call"
  BY PickOf
<1>3. \A c \in picked : IsFiniteSet(level[c]) /\ \A d \in level[c] : d \in Contracts /\ d.type = "put"
  <2>1. /\ IsFiniteSet(Listed(chain, e, "put"))
        /\ \A d \in Listed(chain, e, "put") : d \in Contracts /\ d.type = "put"
    BY ListedOf
  <2>2. \A c \in picked : level[c] \in SUBSET Listed(chain, e, "put")
    OBVIOUS
  <2> HIDE DEF level
  <2> QED BY <2>1, <2>2, FS_Subset
<1>4. \A c \in picked : \A d \in level[c] : f[c][d] = made(c, d) /\ IsFiniteSet(f[c][d])
  BY DebitOf
<1>5. ASSUME NEW c \in picked, NEW d \in level[c], NEW p \in made(c, d)
      PROVE  Offer(p, "straddle", e)
  <2>1. c \in Contracts /\ c.type = "call" /\ d \in Contracts /\ d.type = "put"
    BY <1>2, <1>3
  <2> QED BY <1>5, <2>1, LongBothOffers
<1> HIDE DEF f, picked, level, made
<1>6. IsFiniteSet(Layers(picked, level, f))
  <2>1. \A c \in picked : IsFiniteSet(level[c]) /\ \A d \in level[c] : IsFiniteSet(f[c][d])
    BY <1>3, <1>4
  <2> QED BY <1>2, <2>1, UnionsAreFinite
<1>7. \A p \in Layers(picked, level, f) : Offer(p, "straddle", e)
  BY <1>4, <1>5 DEF Layers
<1> QED BY <1>1, <1>6, <1>7 DEF Offers

LEMMA StrangleOffers ==
  ASSUME NEW chain, Quotable(chain), NEW e, NEW target \in Int, NEW tol \in Int
  PROVE  Offers(Strangle(chain, e, target, tol), "strangle", e)
<1> DEFINE picked == Pick(chain, e, "call", target, tol)
           other == Pick(chain, e, "put", target, tol)
           made(c, d) == Debit("strangle", {Bought(c), Bought(d)}, c.fair + d.fair, 2, e)
           puts == [c \in picked |-> other]
           f == [c \in picked |-> [d \in other |-> made(c, d)]]
<1>1. Strangle(chain, e, target, tol) = Layers(picked, puts, f)
  BY DEF Strangle, Layers
<1>2. /\ IsFiniteSet(picked) /\ \A c \in picked : c \in Contracts /\ c.type = "call"
      /\ IsFiniteSet(other) /\ \A d \in other : d \in Contracts /\ d.type = "put"
  BY PickOf
<1>3. \A c \in picked : puts[c] = other
  OBVIOUS
<1>4. \A c \in picked : \A d \in puts[c] : f[c][d] = made(c, d) /\ IsFiniteSet(f[c][d])
  BY DebitOf
<1>5. ASSUME NEW c \in picked, NEW d \in other, NEW p \in made(c, d)
      PROVE  Offer(p, "strangle", e)
  <2>1. c \in Contracts /\ c.type = "call" /\ d \in Contracts /\ d.type = "put"
    BY <1>2
  <2> QED BY <1>5, <2>1, LongBothOffers
<1> HIDE DEF f, picked, other, puts, made
<1>6. IsFiniteSet(Layers(picked, puts, f))
  <2>1. \A c \in picked : IsFiniteSet(puts[c]) /\ \A d \in puts[c] : IsFiniteSet(f[c][d])
    BY <1>2, <1>3, <1>4
  <2> QED BY <1>2, <2>1, UnionsAreFinite
<1>7. \A p \in Layers(picked, puts, f) : Offer(p, "strangle", e)
  BY <1>3, <1>4, <1>5 DEF Layers
<1> QED BY <1>1, <1>6, <1>7 DEF Offers
LEMMA WidthOfTwo ==
  ASSUME NEW a \in Int, NEW b \in Int, a <= b
  PROVE  Max({a, b}) - Min({a, b}) = b - a
<1>1. Max({a, b}) = b
  <2>1. Max({a, b}) \in {a, b} /\ \A n \in {a, b} : Max({a, b}) >= n
    <3>1. b \in {a, b} /\ \A n \in {a, b} : b >= n
      OBVIOUS
    <3> QED BY <3>1 DEF Max
  <2> QED BY <2>1
<1>2. Min({a, b}) = a
  <2>1. Min({a, b}) \in {a, b} /\ \A n \in {a, b} : Min({a, b}) <= n
    <3>1. a \in {a, b} /\ \A n \in {a, b} : a <= n
      OBVIOUS
    <3> QED BY <3>1 DEF Min
  <2> QED BY <2>1
<1> QED BY <1>1, <1>2

\* A call spread and a put spread sold, the puts below the calls.
LEMMA CondorOffers ==
  ASSUME NEW e, NEW c \in Contracts, NEW u \in Contracts, NEW p \in Contracts, NEW d \in Contracts,
         c.type = "call", u.type = "call", p.type = "put", d.type = "put",
         c.strike + 5 <= u.strike, d.strike <= p.strike - 5, p.strike <= c.strike,
         NEW credit \in Int,
         NEW x, x = Proposed("iron_condor", {Sold(c), Bought(u), Sold(p), Bought(d)}, -credit,
                             100 * 5 - credit, e)
  PROVE  Offer(x, "iron_condor", e)
<1>1. /\ x.structure = "iron_condor" /\ x.legs = {Sold(c), Bought(u), Sold(p), Bought(d)}
      /\ x.limit = -credit /\ x.loss = 500 - credit /\ x.expiry = e
  BY ProposedIs
<1>2. c.strike \in Int /\ u.strike \in Int /\ p.strike \in Int /\ d.strike \in Int
  BY BeyondIsNat DEF Contracts
<1>3. /\ Sold(c) \in Leg /\ Sold(c).type = "call" /\ Sold(c).strike = c.strike /\ Sold(c).side = -1
      /\ Bought(u) \in Leg /\ Bought(u).type = "call" /\ Bought(u).strike = u.strike /\ Bought(u).side = 1
      /\ Sold(p) \in Leg /\ Sold(p).type = "put" /\ Sold(p).strike = p.strike /\ Sold(p).side = -1
      /\ Bought(d) \in Leg /\ Bought(d).type = "put" /\ Bought(d).strike = d.strike /\ Bought(d).side = 1
  BY LegsOf
<1>4. /\ Sold(c) # Bought(u) /\ Sold(c) # Sold(p) /\ Sold(c) # Bought(d)
      /\ Bought(u) # Sold(p) /\ Bought(u) # Bought(d) /\ Sold(p) # Bought(d)
  BY <1>3
<1>5. \A spot \in Int : Payoff(x, spot) = LegValue(Sold(c), spot) + LegValue(Bought(u), spot)
                                            + LegValue(Sold(p), spot) + LegValue(Bought(d), spot)
  <2>1. x.legs = {Sold(c), Bought(u), Sold(p), Bought(d)}
    BY <1>1
  <2>2. Sold(c) \in Leg /\ Bought(u) \in Leg /\ Sold(p) \in Leg /\ Bought(d) \in Leg
    BY <1>3
  <2> DEFINE i == Sold(c)  j == Bought(u)  k == Sold(p)  l == Bought(d)
  <2>3. /\ i \in Leg /\ j \in Leg /\ k \in Leg /\ l \in Leg /\ x.legs = {i, j, k, l}
        /\ i # j /\ i # k /\ i # l /\ j # k /\ j # l /\ k # l
    BY <2>1, <2>2, <1>4
  <2> HIDE DEF i, j, k, l
  <2>4. ASSUME NEW spot \in Int
        PROVE  Payoff(x, spot) = LegValue(i, spot) + LegValue(j, spot) + LegValue(k, spot) + LegValue(l, spot)
    BY ONLY <2>3, PaysFour
  <2> QED BY <2>4 DEF i, j, k, l
<1> DEFINE calls == u.strike - c.strike
           puts == p.strike - d.strike
<1>6. ASSUME NEW spot \in Int
      PROVE  Payoff(x, spot) \in Int /\ (Payoff(x, spot) >= -100 * calls \/ Payoff(x, spot) >= -100 * puts)
  <2>1. /\ LegValue(Sold(c), spot) = -Above(spot - c.strike) /\ LegValue(Bought(u), spot) = Above(spot - u.strike)
        /\ LegValue(Sold(p), spot) = -Above(p.strike - spot) /\ LegValue(Bought(d), spot) = Above(d.strike - spot)
    BY LegPays
  <2>2. /\ Above(spot - c.strike) \in Nat /\ Above(spot - u.strike) \in Nat
        /\ Above(spot - c.strike) <= Above(spot - u.strike) + 100 * calls
    <3>1. /\ spot - c.strike \in Int /\ spot - u.strike \in Int /\ spot - u.strike <= spot - c.strike
          /\ (spot - c.strike) - (spot - u.strike) = calls
      BY <1>2
    <3> HIDE DEF calls
    <3> QED BY <3>1, AboveGrows
  <2>3. /\ Above(p.strike - spot) \in Nat /\ Above(d.strike - spot) \in Nat
        /\ Above(p.strike - spot) <= Above(d.strike - spot) + 100 * puts
    <3>1. /\ p.strike - spot \in Int /\ d.strike - spot \in Int /\ d.strike - spot <= p.strike - spot
          /\ (p.strike - spot) - (d.strike - spot) = puts
      BY <1>2
    <3> HIDE DEF puts
    <3> QED BY <3>1, AboveGrows
  <2>4. \/ Above(spot - c.strike) = 0 /\ Above(spot - u.strike) = 0
        \/ Above(p.strike - spot) = 0 /\ Above(d.strike - spot) = 0
    <3>1. CASE spot <= c.strike
      <4>1. spot - c.strike \in Int /\ spot - c.strike <= 0 /\ spot - u.strike \in Int /\ spot - u.strike <= 0
        BY <1>2, <3>1
      <4>2. Above(spot - c.strike) = 0 /\ Above(spot - u.strike) = 0
        <5>1. \A n \in Int : n <= 0 => Above(n) = 0
          BY DEF Above
        <5> QED BY <4>1, <5>1, Zenon
      <4> QED BY <4>2
    <3>2. CASE spot > c.strike
      <4>1. p.strike - spot <= 0 /\ d.strike - spot <= 0
        BY <1>2, <3>2
      <4> QED BY <1>2, <4>1 DEF Above
    <3> QED BY <1>2, <3>1, <3>2
  <2>5. Payoff(x, spot) = LegValue(Sold(c), spot) + LegValue(Bought(u), spot)
                            + LegValue(Sold(p), spot) + LegValue(Bought(d), spot)
    BY <1>5
  <2> DEFINE sc == Above(spot - c.strike)
             bu == Above(spot - u.strike)
             sp == Above(p.strike - spot)
             bd == Above(d.strike - spot)
  <2>6. Payoff(x, spot) = -sc + bu + (-sp) + bd
    BY <2>1, <2>5
  <2>7. calls \in Int /\ puts \in Int
    BY <1>2
  <2>8. sc \in Nat /\ bu \in Nat /\ sp \in Nat /\ bd \in Nat
    BY <2>2, <2>3
  <2>9. sc <= bu + 100 * calls /\ sp <= bd + 100 * puts
    BY <2>2, <2>3
  <2>10. (sc = 0 /\ bu = 0) \/ (sp = 0 /\ bd = 0)
    BY <2>4
  <2> HIDE DEF sc, bu, sp, bd, calls, puts
  <2> QED BY <2>6, <2>7, <2>8, <2>9, <2>10
<1>7. ExtraWing(x) = Greater(calls, puts) - 5
  <2>1. /\ {l.strike : l \in {j \in x.legs : j.type = "call"}} = {c.strike, u.strike}
        /\ {l.strike : l \in {j \in x.legs : j.type = "put"}} = {d.strike, p.strike}
    <3>1. /\ {j \in x.legs : j.type = "call"} = {Sold(c), Bought(u)}
          /\ {j \in x.legs : j.type = "put"} = {Sold(p), Bought(d)}
      <4> DEFINE i == Sold(c)  j == Bought(u)  k == Sold(p)  l == Bought(d)
      <4>1. x.legs = {i, j, k, l} /\ i.type = "call" /\ j.type = "call" /\ k.type = "put" /\ l.type = "put"
        BY <1>1, <1>3
      <4> HIDE DEF i, j, k, l
      <4>2. {h \in x.legs : h.type = "call"} = {i, j} /\ {h \in x.legs : h.type = "put"} = {k, l}
        BY <4>1
      <4> QED BY <4>2 DEF i, j, k, l
    <3>2. {l.strike : l \in {Sold(c), Bought(u)}} = {Sold(c).strike, Bought(u).strike}
      OBVIOUS
    <3>3. {l.strike : l \in {Sold(p), Bought(d)}} = {Bought(d).strike, Sold(p).strike}
      OBVIOUS
    <3> QED BY <1>3, <3>1, <3>2, <3>3, Zenon
  <2>2. c.strike <= u.strike /\ d.strike <= p.strike
    BY <1>2
  <2>3. Wing(x, "call") = calls /\ Wing(x, "put") = puts
    BY <1>2, <2>1, <2>2, WidthOfTwo DEF Wing
  <2> QED BY <1>1, <2>3 DEF ExtraWing
<1>8. LosesNoMore(x)
  <2> SUFFICES ASSUME NEW spot \in Int
               PROVE  Payoff(x, spot) \in Int /\ -Profit(x, spot) <= x.loss + 100 * ExtraWing(x)
    BY DEF LosesNoMore
  <2>1. Payoff(x, spot) \in Int /\ (Payoff(x, spot) >= -100 * calls \/ Payoff(x, spot) >= -100 * puts)
    BY <1>6
  <2>2. calls \in Int /\ puts \in Int
    BY <1>2
  <2> HIDE DEF calls, puts
  <2>3. Greater(calls, puts) \in Int /\ Greater(calls, puts) >= calls /\ Greater(calls, puts) >= puts
    BY <2>2 DEF Greater
  <2>4. -(Payoff(x, spot) - (-credit)) <= (500 - credit) + 100 * (Greater(calls, puts) - 5)
    BY <2>1, <2>2, <2>3
  <2> QED BY <1>1, <1>7, <2>1, <2>4 DEF Profit
<1>9. IsFiniteSet(x.legs) /\ x.legs \in SUBSET Leg
  <2>1. IsFiniteSet({Sold(c), Bought(u)})
    BY <1>3, <1>4, TwoLegs
  <2>2. IsFiniteSet(({Sold(c), Bought(u)} \cup {Sold(p)}) \cup {Bought(d)})
    <3>1. IsFiniteSet({Sold(c), Bought(u)} \cup {Sold(p)})
      BY <2>1, FS_AddElement
    <3> QED BY <3>1, FS_AddElement
  <2>3. ({Sold(c), Bought(u)} \cup {Sold(p)}) \cup {Bought(d)} = x.legs
    BY <1>1
  <2> QED BY <1>1, <1>3, <2>2, <2>3
<1>10. x.loss \in Int /\ x.limit \in Int
  BY <1>1
<1> QED BY <1>1, <1>8, <1>9, <1>10 DEF Offer

LEMMA IronCondorOffers ==
  ASSUME NEW chain, Quotable(chain), NEW e
  PROVE  Offers(IronCondor(chain, e, 16, 4, 5), "iron_condor", e)
<1> DEFINE credit(w) == (w.sc.fair + w.sp.fair) - (w.lc.fair + w.lp.fair)
           calls == Pick(chain, e, "call", 16, 4)
           puts == Pick(chain, e, "put", 16, 4)
           four(c, p) == [sc : {c}, sp : {p}, lc : ShiftPts(chain, c, 5, TRUE), lp : ShiftPts(chain, p, 5, FALSE)]
           both == [c \in calls |-> puts]
           f == [c \in calls |-> [p \in puts |-> four(c, p)]]
           wings == Layers(calls, both, f)
           made == [w \in wings |-> Proposed("iron_condor", {Sold(w.sc), Bought(w.lc), Sold(w.sp), Bought(w.lp)},
                                             -credit(w), 100 * 5 - credit(w), e)]
           paid == {w \in wings : credit(w) > 15 * 5}
<1>1. IronCondor(chain, e, 16, 4, 5) = {made[w] : w \in paid}
  <2>1. wings = UNION {UNION {four(c, p) : p \in puts} : c \in calls}
    BY DEF Layers
  <2> QED BY <2>1 DEF IronCondor
<1>2. /\ IsFiniteSet(calls) /\ \A c \in calls : c \in Contracts /\ c \in chain /\ c.type = "call"
                                               /\ c.expiry = e /\ Gap(c.delta, 16) <= 4
      /\ IsFiniteSet(puts) /\ \A p \in puts : p \in Contracts /\ p \in chain /\ p.type = "put"
                                              /\ p.expiry = e /\ Gap(p.delta, 16) <= 4
  BY PickOf
<1>3. ASSUME NEW c \in calls
      PROVE  /\ IsFiniteSet(ShiftPts(chain, c, 5, TRUE))
             /\ \A d \in ShiftPts(chain, c, 5, TRUE) : d \in Contracts /\ d.type = "call" /\ d.strike >= c.strike + 5
  <2>1. c \in Contracts /\ c.type = "call"
    BY <1>2
  <2>2. /\ IsFiniteSet(ShiftPts(chain, c, 5, TRUE))
        /\ \A d \in ShiftPts(chain, c, 5, TRUE) :
             /\ d \in Contracts /\ d \in chain /\ d.expiry = c.expiry /\ d.type = c.type
             /\ IF TRUE THEN d.strike >= c.strike + 5 ELSE d.strike <= c.strike - 5
    BY <2>1, ShiftPtsOf, Zenon
  <2> QED BY <2>1, <2>2
<1>4. ASSUME NEW p \in puts
      PROVE  /\ IsFiniteSet(ShiftPts(chain, p, 5, FALSE))
             /\ \A d \in ShiftPts(chain, p, 5, FALSE) : d \in Contracts /\ d.type = "put" /\ d.strike <= p.strike - 5
  <2>1. p \in Contracts /\ p.type = "put"
    BY <1>2
  <2>2. /\ IsFiniteSet(ShiftPts(chain, p, 5, FALSE))
        /\ \A d \in ShiftPts(chain, p, 5, FALSE) :
             /\ d \in Contracts /\ d \in chain /\ d.expiry = p.expiry /\ d.type = p.type
             /\ IF FALSE THEN d.strike >= p.strike + 5 ELSE d.strike <= p.strike - 5
    BY <2>1, ShiftPtsOf, Zenon
  <2> QED BY <2>1, <2>2
<1>5. ASSUME NEW c \in calls, NEW p \in puts PROVE IsFiniteSet(four(c, p))
  <2> DEFINE A == ShiftPts(chain, c, 5, TRUE)
             B == ShiftPts(chain, p, 5, FALSE)
             g == [t \in A \X B |-> [sc |-> c, sp |-> p, lc |-> t[1], lp |-> t[2]]]
  <2>1. IsFiniteSet(A) /\ IsFiniteSet(B)
    BY <1>3, <1>4
  <2>2. four(c, p) = {g[t] : t \in A \X B}
    <3>1. ASSUME NEW w \in four(c, p) PROVE w \in {g[t] : t \in A \X B}
      <4>1. w.lc \in A /\ w.lp \in B /\ w = [sc |-> c, sp |-> p, lc |-> w.lc, lp |-> w.lp]
        BY <3>1
      <4>2. <<w.lc, w.lp>> \in A \X B
        BY <4>1
      <4>3. g[<<w.lc, w.lp>>] = w
        BY <4>1, <4>2
      <4> QED BY <4>2, <4>3
    <3>2. ASSUME NEW t \in A \X B PROVE g[t] \in four(c, p)
      OBVIOUS
    <3> QED BY <3>1, <3>2
  <2> HIDE DEF A, B, g
  <2>3. IsFiniteSet(A \X B)
    BY <2>1, FS_Product
  <2>4. IsFiniteSet({g[t] : t \in A \X B})
    BY <2>3, ImageIsFinite
  <2> QED BY <2>2, <2>4
<1>6. ASSUME NEW w \in wings
      PROVE  w.sc \in calls /\ w.sp \in puts /\ w.lc \in ShiftPts(chain, w.sc, 5, TRUE)
             /\ w.lp \in ShiftPts(chain, w.sp, 5, FALSE)
  <2>1. PICK c \in calls : \E p \in puts : w \in four(c, p)
    <3>1. \A c \in calls : both[c] = puts /\ \A p \in puts : f[c][p] = four(c, p)
      OBVIOUS
    <3> HIDE DEF both, f, four, calls, puts
    <3> QED BY <1>6, <3>1 DEF Layers
  <2>2. PICK p \in puts : w \in four(c, p)
    BY <2>1
  <2> QED BY <2>2
<1>7. IsFiniteSet(wings)
  <2>1. \A c \in calls : IsFiniteSet(both[c]) /\ \A p \in both[c] : IsFiniteSet(f[c][p])
    BY <1>2, <1>5
  <2> HIDE DEF both, f, calls
  <2> QED BY <1>2, <2>1, UnionsAreFinite
<1>8. IsFiniteSet({made[w] : w \in paid})
  <2>1. paid \in SUBSET wings
    OBVIOUS
  <2>2. IsFiniteSet(paid)
    BY <1>7, <2>1, FS_Subset
  <2> HIDE DEF made, paid
  <2> QED BY <2>2, ImageIsFinite
<1>9. ASSUME NEW w \in paid PROVE Offer(made[w], "iron_condor", e)
  <2> DEFINE c == w.sc  p == w.sp  u == w.lc  d == w.lp
  <2>1. w \in wings /\ made[w] = Proposed("iron_condor", {Sold(c), Bought(u), Sold(p), Bought(d)}, -credit(w),
                                          100 * 5 - credit(w), e)
    OBVIOUS
  <2>2. c \in calls /\ p \in puts /\ u \in ShiftPts(chain, c, 5, TRUE) /\ d \in ShiftPts(chain, p, 5, FALSE)
    BY <1>6, <2>1
  <2>3. /\ c \in Contracts /\ c \in chain /\ c.type = "call" /\ c.expiry = e /\ Gap(c.delta, 16) <= 4
        /\ p \in Contracts /\ p \in chain /\ p.type = "put" /\ p.expiry = e /\ Gap(p.delta, 16) <= 4
        /\ u \in Contracts /\ u.type = "call" /\ u.strike >= c.strike + 5
        /\ d \in Contracts /\ d.type = "put" /\ d.strike <= p.strike - 5
    BY <1>2, <1>3, <1>4, <2>2
  <2> DEFINE money == credit(w)
             x == made[w]
  <2>a. money = (c.fair + p.fair) - (u.fair + d.fair)
    OBVIOUS
  <2>b. x = Proposed("iron_condor", {Sold(c), Bought(u), Sold(p), Bought(d)}, -money, 100 * 5 - money, e)
    BY <2>1
  <2> HIDE DEF c, p, u, d, money, x, wings, made, paid, calls, puts
  <2>4. c.delta < 50 /\ p.delta < 50
    <3>1. c.delta \in Int /\ p.delta \in Int
      BY <2>3 DEF Contracts
    <3> QED BY <2>3, <3>1 DEF Gap
  <2>5. p.strike <= c.strike
    BY <2>3, <2>4 DEF Quotable
  <2>6. money \in Int
    BY <2>3, <2>a DEF Contracts
  <2>7. c.strike + 5 <= u.strike
    <3>1. c.strike \in Int /\ u.strike \in Int
      BY <2>3, BeyondIsNat DEF Contracts
    <3> QED BY <2>3, <3>1
  <2>8. Offer(x, "iron_condor", e)
    BY <2>3, <2>5, <2>6, <2>7, <2>b, CondorOffers
  <2> QED BY <2>8 DEF x
<1> HIDE DEF made, paid
<1> QED BY <1>1, <1>8, <1>9 DEF Offers
-----------------------------------------------------------------------------
(* The vectors: every candidate was offered by a builder, is sized against *)
(* the book of the cycle, and is timed and turned as its label says.       *)

Bids(S, structure, E) == IsFiniteSet(S) /\ \A p \in S : \E e \in E : Offer(p, structure, e)

LEMMA BidsOver ==
  ASSUME NEW E, IsFiniteSet(E), NEW f, NEW structure, \A e \in E : Offers(f[e], structure, e)
  PROVE  Bids(UNION {f[e] : e \in E}, structure, E)
<1>1. IsFiniteSet(UNION {f[e] : e \in E})
  BY UnionIsFinite DEF Offers
<1> QED BY <1>1 DEF Bids, Offers

LEMMA BidsAt ==
  ASSUME NEW S, NEW structure, NEW e, Offers(S, structure, e)
  PROVE  Bids(S, structure, {e})
BY DEF Offers, Bids

LEMMA ExpiriesOf ==
  ASSUME NEW chain, Quotable(chain), NEW day \in Int, NEW min \in Int, NEW max \in Int
  PROVE  /\ IsFiniteSet(PickExpiry(chain, day, min, max))
         /\ PickExpiry(chain, day, min, max) \in SUBSET Int
<1> DEFINE C == {d \in chain : d.expiry - day \in min .. max}
           f == [c \in C |-> c.expiry]
           near == {f[c] : c \in C}
<1>1. PickExpiry(chain, day, min, max) \in SUBSET near
  BY DEF PickExpiry
<1>2. near \in SUBSET Int
  BY DEF Quotable, Contracts
<1>3. C \in SUBSET chain
  OBVIOUS
<1> HIDE DEF C, f
<1>4. IsFiniteSet(C)
  BY <1>3, FS_Subset DEF Quotable
<1>5. IsFiniteSet(near)
  BY <1>4, ImageIsFinite
<1> HIDE DEF near
<1> QED BY <1>1, <1>2, <1>5, FS_Subset

LEMMA AfterEventOf ==
  ASSUME NEW chain, Quotable(chain), NEW event \in Int, NEW days \in Int
  PROVE  /\ IsFiniteSet(ExpiryAfterEvent(chain, event, days))
         /\ \A e \in ExpiryAfterEvent(chain, event, days) : e \in Int /\ e > event
<1> DEFINE C == {d \in chain : d.expiry - event \in 1 .. days}
           f == [c \in C |-> c.expiry]
           after == {f[c] : c \in C}
<1>1. ExpiryAfterEvent(chain, event, days) \in SUBSET after
  BY DEF ExpiryAfterEvent
<1>2. \A e \in after : e \in Int /\ e > event
  <2>1. \A c \in C : c.expiry \in Int /\ c.expiry - event >= 1
    BY DEF Quotable, Contracts
  <2>2. \A c \in C : c.expiry > event
    BY <2>1
  <2> QED BY <2>1, <2>2
<1>3. C \in SUBSET chain
  OBVIOUS
<1> HIDE DEF C, f
<1>4. IsFiniteSet(C)
  BY <1>3, FS_Subset DEF Quotable
<1>5. IsFiniteSet(after)
  BY <1>4, ImageIsFinite
<1> HIDE DEF after
<1> QED BY <1>1, <1>2, <1>5, FS_Subset

LEMMA ChainOf ==
  ASSUME NEW m \in Markets, NEW sym
  PROVE  Quotable(Chain(m, sym))
<1>1. Quotable({})
  BY FS_EmptySet DEF Quotable
<1> QED BY <1>1, MarketsAssumption DEF Chain

Priced(c) ==
  /\ c.unit \in Int /\ c.limit \in Int /\ c.legs \in SUBSET Leg /\ IsFiniteSet(c.legs)
  /\ \A spot \in Int : Payoff(c, spot) \in Int /\ -Profit(c, spot) <= c.unit + 100 * ExtraWing(c)

Weighed(c, m) ==
  /\ c.budget \in Budgets /\ c.qty > 0
  /\ c.qty = FixedQuantity(c.unit, EngineLossCap(Cap[c.budget], m.halved), OpenRisk, AtRiskCap)

\* Which way a trend play may bet.
Tape(label, d, m) ==
  label \in Directional =>
    /\ Mode(m) = "risk_on" => d = 1
    /\ Mode(m) = "chop" => Breakout(m) /\ d = 1
    /\ Mode(m) = "risk_off" => d = -1 \/ (label = "trend-single" /\ Breakout(m) /\ d = 1)

\* What a label says of the expiry and of the exit.
Timely(label, structure, expiry, exit) ==
  /\ label = "catalyst-straddle" =>
       Today < EarningsDate /\ expiry > EarningsDate /\ exit = <<EarningsDate + 1, 935>>
  /\ label = "event-nfp-strangle" => Today < NfpDate /\ expiry = NfpDate /\ exit = <<NfpDate, 935>>
  /\ label = "event-nfp-gap" => structure = "single_long" /\ expiry = Today
  /\ label \notin {"catalyst-straddle", "event-nfp-strangle"} => exit = NoExit

Candidate(c, m) ==
  /\ Priced(c) /\ Weighed(c, m) /\ c.score \in Int /\ c.expiry \in Int
  /\ Tape(c.label, Direction(c), m)
  /\ Timely(c.label, c.structure, c.expiry, c.exit)

Plays(S, m) == IsFiniteSet(S) /\ \A c \in S : Candidate(c, m)

LEMMA NoPlays ==
  ASSUME NEW m
  PROVE  Plays({}, m)
BY FS_EmptySet DEF Plays

LEMMA PlaysBoth ==
  ASSUME NEW m, NEW S, Plays(S, m), NEW T, Plays(T, m)
  PROVE  Plays(S \cup T, m)
BY FS_Union DEF Plays

LEMMA PlaysAll ==
  ASSUME NEW m, NEW S, IsFiniteSet(S), NEW f, \A x \in S : Plays(f[x], m)
  PROVE  Plays(UNION {f[x] : x \in S}, m)
<1>1. IsFiniteSet(UNION {f[x] : x \in S})
  BY UnionIsFinite DEF Plays
<1> QED BY <1>1 DEF Plays

\* Sizing keeps the structure, and what it keeps fits the caps.
LEMMA SizedPlays ==
  ASSUME NEW m, NEW props, NEW structure, NEW E \in SUBSET Int, Bids(props, structure, E),
         NEW engine, NEW sym, NEW budget \in Budgets, NEW score \in Int, NEW label, NEW exit,
         \A p \in props : Tape(label, Direction(p), m),
         \A e \in E : Timely(label, structure, e, exit)
  PROVE  Plays(Sized(props, engine, sym, budget, score, label, exit, m), m)
<1> DEFINE qty(p) == FixedQuantity(p.loss, EngineLossCap(Cap[budget], m.halved), OpenRisk, AtRiskCap)
           fits == {q \in props : qty(q) > 0}
           made == [p \in props |->
                     [engine |-> engine, symbol |-> sym, label |-> label, score |-> score,
                      structure |-> p.structure, legs |-> p.legs, limit |-> p.limit, expiry |-> p.expiry,
                      unit |-> p.loss, budget |-> budget, exit |-> exit, qty |-> qty(p)]]
<1>1. Sized(props, engine, sym, budget, score, label, exit, m) = {made[p] : p \in fits}
  BY DEF Sized
<1>2. fits \in SUBSET props /\ \A p \in fits : qty(p) > 0
  OBVIOUS
<1>3. IsFiniteSet({made[p] : p \in fits})
  <2> HIDE DEF made, fits
  <2>1. IsFiniteSet(fits)
    BY <1>2, FS_Subset DEF Bids
  <2> QED BY <2>1, ImageIsFinite
<1>4. ASSUME NEW p \in fits PROVE Candidate(made[p], m)
  <2> DEFINE c == made[p]
             size == qty(p)
  <2>1. /\ c.unit = p.loss /\ c.limit = p.limit /\ c.legs = p.legs /\ c.structure = p.structure
        /\ c.expiry = p.expiry /\ c.score = score /\ c.label = label /\ c.exit = exit
        /\ c.budget = budget /\ c.qty = size
    OBVIOUS
  <2>2. PICK e \in E : Offer(p, structure, e)
    BY <1>2, <1>4 DEF Bids
  <2>a. p \in props /\ size > 0
    BY <1>2
  <2>b. size = FixedQuantity(p.loss, EngineLossCap(Cap[budget], m.halved), OpenRisk, AtRiskCap)
    OBVIOUS
  <2> HIDE DEF c, size, made, fits
  <2>3. \A spot : Payoff(c, spot) = Payoff(p, spot)
    BY <2>1, Zenon DEF Payoff
  <2>4. ExtraWing(c) = ExtraWing(p)
    BY <2>1, Zenon DEF ExtraWing, Wing
  <2>5. \A spot : Profit(c, spot) = Profit(p, spot)
    BY <2>1, <2>3 DEF Profit
  <2>6. Priced(c)
    BY <2>1, <2>2, <2>3, <2>4, <2>5 DEF Priced, Offer, LosesNoMore
  <2>7. Direction(c) = Direction(p)
    BY <2>3 DEF Direction
  <2>8. Weighed(c, m)
    BY <2>1, <2>a, <2>b DEF Weighed
  <2>9. c.score \in Int /\ c.expiry \in Int /\ Timely(c.label, c.structure, c.expiry, c.exit)
    BY <2>1, <2>2 DEF Offer
  <2>10. Tape(c.label, Direction(c), m)
    BY <2>1, <2>7, <2>a
  <2>11. Candidate(c, m)
    BY <2>6, <2>8, <2>9, <2>10 DEF Candidate
  <2> QED BY <2>11 DEF c
<1> HIDE DEF made, fits
<1> QED BY <1>1, <1>3, <1>4 DEF Plays
-----------------------------------------------------------------------------
(* Vector by vector.                                                       *)

LEMMA MarketOf ==
  ASSUME NEW m \in Markets
  PROVE  /\ m.score \in Int /\ m.gap \in Int /\ IsFiniteSet(m.signals)
         /\ \A s \in m.signals : s.score \in Int /\ s.gap \in Int
BY MarketsAssumption

LEMMA SlotOf ==
  ASSUME slot \in 1 .. Len(Slots)
  PROVE  Today \in Nat /\ Clock \in Nat
BY SlotsAssumption DEF Today, Clock

\* Which way each regime lets the trend vector bet.
LEMMA RegimeLets ==
  ASSUME NEW m \in Markets
  PROVE  /\ Mode(m) \in {"risk_on", "risk_off", "chop"}
         /\ LongAllowed(m) => Mode(m) = "risk_on"
         /\ ShortAllowed(m) => Mode(m) = "risk_off"
         /\ ~LongAllowed(m) /\ ~ShortAllowed(m) => Mode(m) = "chop"
<1>1. m.score \in Int
  BY MarketOf
<1>2. Mode(m) # "chop" => Confidence(m) >= 55
  <2>1. Lesser(150, Gap(m.score, 0)) \in Nat
    BY <1>1 DEF Lesser, Gap
  <2> DEFINE l == Lesser(150, Gap(m.score, 0))
  <2> HIDE DEF l
  <2>2. \A n \in Nat : 55 + (35 * n) \div 150 >= 55
    OBVIOUS
  <2>3. l \in Nat
    BY <2>1 DEF l
  <2>4. 55 + (35 * l) \div 150 >= 55
    BY <2>2, <2>3
  <2> QED BY <2>4 DEF Confidence, l
<1>3. Mode(m) \in {"risk_on", "risk_off", "chop"}
  BY DEF Mode
<1> QED BY <1>2, <1>3 DEF LongAllowed, ShortAllowed

LEMMA OneTrendPlays ==
  ASSUME NEW m \in Markets, NEW sig, sig.score \in Int, NEW dir \in {1, -1}, NEW label,
         label \in {"trend", "trend-breakout"}, Tape(label, dir, m), slot \in 1 .. Len(Slots)
  PROVE  Plays(OneTrend(m, sig, dir, label), m)
<1> DEFINE ch == Chain(m, sig.symbol)
           E == PickExpiry(ch, Today, 0, 2)
           cv == [e \in E |-> CreditVertical(ch, e, dir, 20, 5, 5)]
           dv == [e \in E |-> DebitVertical(ch, e, dir, 40, 8, 2)]
           credit == UNION {cv[e] : e \in E}
           debit == UNION {dv[e] : e \in E}
<1>1. OneTrend(m, sig, dir, label)
        = IF credit # {}
          THEN Sized(credit, "trend_income", sig.symbol, "trend_income", sig.score, label, NoExit, m)
          ELSE Sized(debit, "trend_directional", sig.symbol, "trend_directional", sig.score, label, NoExit, m)
  BY DEF OneTrend
<1>2. Quotable(ch) /\ dir \in Int /\ Today \in Int
  BY ChainOf, SlotOf
<1>3. IsFiniteSet(E) /\ E \in SUBSET Int
  BY <1>2, ExpiriesOf
<1>4. ASSUME NEW e \in E
      PROVE  Offers(cv[e], "credit_vertical", e) /\ \A p \in cv[e] : Toward(p, dir)
  <2>1. 5 \in Nat \ {0} /\ 20 \in Int /\ 5 \in Int
    OBVIOUS
  <2>2. cv[e] = CreditVertical(ch, e, dir, 20, 5, 5)
    OBVIOUS
  <2> HIDE DEF ch, E, cv
  <2> QED BY <1>2, <2>1, <2>2, CreditVerticalOffers
<1>5. ASSUME NEW e \in E
      PROVE  Offers(dv[e], "debit_vertical", e) /\ \A p \in dv[e] : Toward(p, dir)
  <2>1. 40 \in Int /\ 8 \in Int /\ 2 \in Nat
    OBVIOUS
  <2>2. dv[e] = DebitVertical(ch, e, dir, 40, 8, 2)
    OBVIOUS
  <2> HIDE DEF ch, E, dv
  <2> QED BY <1>2, <2>1, <2>2, DebitVerticalOffers
<1>6. \A p : Toward(p, dir) => Direction(p) = dir
  BY DEF Toward
<1>7. \A e, structure : Timely(label, structure, e, NoExit)
  BY DEF Timely
<1> HIDE DEF ch, E, cv, dv
<1>8. Bids(credit, "credit_vertical", E) /\ Bids(debit, "debit_vertical", E)
  BY <1>3, <1>4, <1>5, BidsOver
<1>9. (\A p \in credit : Tape(label, Direction(p), m)) /\ (\A p \in debit : Tape(label, Direction(p), m))
  BY <1>4, <1>5, <1>6
<1> HIDE DEF credit, debit
<1>10. "trend_income" \in Budgets /\ "trend_directional" \in Budgets
  BY DEF Budgets
<1>11. /\ Plays(Sized(credit, "trend_income", sig.symbol, "trend_income", sig.score, label, NoExit, m), m)
       /\ Plays(Sized(debit, "trend_directional", sig.symbol, "trend_directional", sig.score, label, NoExit, m), m)
  BY <1>3, <1>7, <1>8, <1>9, <1>10, SizedPlays
<1> QED BY <1>1, <1>11

LEMMA PicksOf ==
  ASSUME NEW m \in Markets, NEW dir, NEW n
  PROVE  IsFiniteSet(Picks(m, dir, n)) /\ \A s \in Picks(m, dir, n) : s.score \in Int
<1>1. Picks(m, dir, n) \in SUBSET m.signals
  BY DEF Picks
<1> QED BY <1>1, MarketOf, FS_Subset

LEMMA SingleOfPlays ==
  ASSUME NEW m \in Markets, NEW sig, sig.score \in Int, Tape("trend-single", 1, m),
         slot \in 1 .. Len(Slots)
  PROVE  Plays(SingleOf(m, sig), m)
<1> DEFINE ch == Chain(m, sig.symbol)
           E == PickExpiry(ch, Today, 0, 2)
           one(e) == SingleLong(ch, e, 1, 40, 10)
           f == [e \in E |-> Sized(one(e), "trend_single", sig.symbol, "trend_single",
                                   Conviction(sig, m), "trend-single", NoExit, m)]
<1>1. SingleOf(m, sig) = UNION {f[e] : e \in E}
  BY DEF SingleOf
<1>2. Quotable(ch) /\ Today \in Int
  BY ChainOf, SlotOf
<1>3. IsFiniteSet(E) /\ E \in SUBSET Int
  BY <1>2, ExpiriesOf
<1>4. Conviction(sig, m) \in Int
  BY DEF Conviction
<1>5. ASSUME NEW e \in E PROVE Plays(f[e], m)
  <2>1. Offers(one(e), "single_long", e) /\ \A p \in one(e) : Toward(p, 1)
    <3>1. 1 \in Int /\ 40 \in Int /\ 10 \in Int
      OBVIOUS
    <3> HIDE DEF ch, E
    <3> QED BY <1>2, <3>1, SingleLongOffers DEF Offers
  <2>2. Bids(one(e), "single_long", {e}) /\ {e} \in SUBSET Int
    BY <1>3, <2>1, BidsAt
  <2>3. \A p \in one(e) : Tape("trend-single", Direction(p), m)
    BY <2>1 DEF Toward
  <2>4. \A x \in {e} : Timely("trend-single", "single_long", x, NoExit)
    BY DEF Timely
  <2>5. "trend_single" \in Budgets
    BY DEF Budgets
  <2>6. f[e] = Sized(one(e), "trend_single", sig.symbol, "trend_single", Conviction(sig, m), "trend-single", NoExit, m)
    OBVIOUS
  <2> HIDE DEF one, f, E
  <2> QED BY <1>4, <2>2, <2>3, <2>4, <2>5, <2>6, SizedPlays
<1> HIDE DEF f, E, one
<1>6. Plays(UNION {f[e] : e \in E}, m)
  BY <1>3, <1>5, PlaysAll
<1> QED BY <1>1, <1>6, Zenon

LEMMA TrendPlays ==
  ASSUME NEW m \in Markets, slot \in 1 .. Len(Slots)
  PROVE  Plays(Trend(m), m)
<1>1. ASSUME NEW dir \in {1, -1}, NEW n, NEW label \in {"trend", "trend-breakout"}, Tape(label, dir, m)
      PROVE  Plays(UNION {OneTrend(m, s, dir, label) : s \in Picks(m, dir, n)}, m)
  <2> DEFINE S == Picks(m, dir, n)
             f == [s \in S |-> OneTrend(m, s, dir, label)]
  <2>1. IsFiniteSet(S) /\ \A s \in S : s.score \in Int
    BY PicksOf
  <2>2. \A s \in S : Plays(f[s], m)
    BY <1>1, <2>1, OneTrendPlays
  <2>3. UNION {OneTrend(m, s, dir, label) : s \in S} = UNION {f[s] : s \in S}
    OBVIOUS
  <2> HIDE DEF S, f
  <2>4. Plays(UNION {f[s] : s \in S}, m)
    BY <2>1, <2>2, PlaysAll
  <2>5. Plays(UNION {OneTrend(m, s, dir, label) : s \in S}, m)
    BY <2>3, <2>4, Zenon
  <2> QED BY <2>5 DEF S
<1>2. Plays(TrendPicks(m), m)
  <2>1. CASE LongAllowed(m)
    <3>1. Tape("trend", 1, m)
      BY <2>1, RegimeLets DEF Tape
    <3>2. Plays(UNION {OneTrend(m, s, 1, "trend") : s \in Picks(m, 1, 3)}, m)
      BY <1>1, <3>1
    <3> QED BY <2>1, <3>2 DEF TrendPicks
  <2>2. CASE ~LongAllowed(m) /\ ShortAllowed(m)
    <3>1. Tape("trend", -1, m)
      BY <2>2, RegimeLets DEF Tape
    <3>2. Plays(UNION {OneTrend(m, s, -1, "trend") : s \in Picks(m, -1, 3)}, m)
      BY <1>1, <3>1
    <3> QED BY <2>2, <3>2 DEF TrendPicks
  <2>3. CASE ~LongAllowed(m) /\ ~ShortAllowed(m) /\ Breakout(m)
    <3>1. Tape("trend-breakout", 1, m)
      BY <2>3, RegimeLets DEF Tape
    <3>2. Plays(UNION {OneTrend(m, s, 1, "trend-breakout") : s \in Picks(m, 1, 1)}, m)
      BY <1>1, <3>1
    <3> QED BY <2>3, <3>2 DEF TrendPicks
  <2>4. CASE ~LongAllowed(m) /\ ~ShortAllowed(m) /\ ~Breakout(m)
    BY <2>4, NoPlays DEF TrendPicks
  <2> QED BY <2>1, <2>2, <2>3, <2>4
<1>3. Plays(SinglePicks(m), m)
  <2> DEFINE S == {t \in Picks(m, 1, 1) : Conviction(t, m) >= 85}
             f == [s \in S |-> SingleOf(m, s)]
  <2>1. CASE LongAuthorized(m)
    <3>1. Tape("trend-single", 1, m)
      BY <2>1, RegimeLets DEF LongAuthorized, Tape
    <3>2. IsFiniteSet(S) /\ \A s \in S : s.score \in Int
      <4>1. S \in SUBSET Picks(m, 1, 1)
        OBVIOUS
      <4> QED BY <4>1, PicksOf, FS_Subset
    <3>3. \A s \in S : Plays(f[s], m)
      BY <3>1, <3>2, SingleOfPlays
    <3>4. UNION {SingleOf(m, s) : s \in S} = UNION {f[s] : s \in S}
      OBVIOUS
    <3> HIDE DEF f
    <3>5. Plays(UNION {f[s] : s \in S}, m)
      <4> HIDE DEF S
      <4> QED BY <3>2, <3>3, PlaysAll
    <3>6. Plays(UNION {SingleOf(m, s) : s \in S}, m)
      BY <3>4, <3>5, Zenon
    <3> QED BY <3>6, NoPlays DEF SinglePicks
  <2>2. CASE ~LongAuthorized(m)
    BY <2>2, NoPlays DEF SinglePicks
  <2> QED BY <2>1, <2>2
<1> QED BY <1>2, <1>3, NoPlays, PlaysBoth DEF Trend
LEMMA EarningsPlays ==
  ASSUME NEW m \in Markets, slot \in 1 .. Len(Slots)
  PROVE  Plays(Earnings(m), m)
<1> DEFINE ch == Chain(m, "LULU")
           E == {e \in ExpiryAfterEvent(ch, EarningsDate, 4) : e - Today \in 1 .. 3}
           one(e) == IF Straddle(ch, e, 50, 6) # {} THEN Straddle(ch, e, 50, 6) ELSE Strangle(ch, e, 50, 10)
           exit == <<EarningsDate + 1, 935>>
           buy(e) == Sized(one(e), "catalyst", "LULU", "pre_event", 90, "catalyst-straddle", exit, m)
           f == [e \in E |-> buy(e)]
<1>1. Earnings(m) = IF Today = EarningsDate - 1 /\ Clock <= 1515 THEN UNION {f[e] : e \in E} ELSE {}
  <2>1. {f[e] : e \in E}
          = {Sized(one(e), "catalyst", "LULU", "pre_event", 90, "catalyst-straddle", exit, m) : e \in E}
    <3>1. {f[e] : e \in E} = {buy(e) : e \in E}
      <4> HIDE DEF E, buy
      <4> QED OBVIOUS
    <3> HIDE DEF E, f, one, exit
    <3> QED BY <3>1, Zenon
  <2> HIDE DEF f
  <2>2. Earnings(m)
          = IF Today = EarningsDate - 1 /\ Clock <= 1515
            THEN UNION {Sized(one(e), "catalyst", "LULU", "pre_event", 90, "catalyst-straddle", exit, m) : e \in E}
            ELSE {}
    BY Zenon DEF Earnings
  <2> DEFINE U == UNION {f[e] : e \in E}
             V == UNION {Sized(one(e), "catalyst", "LULU", "pre_event", 90, "catalyst-straddle", exit, m) : e \in E}
  <2>3. U = V
    BY <2>1, Zenon
  <2> HIDE DEF U, V
  <2>4. Earnings(m) = IF Today = EarningsDate - 1 /\ Clock <= 1515 THEN V ELSE {}
    BY <2>2 DEF V
  <2>5. Earnings(m) = IF Today = EarningsDate - 1 /\ Clock <= 1515 THEN U ELSE {}
    BY <2>3, <2>4
  <2> QED BY <2>5 DEF U
<1>2. Quotable(ch) /\ EarningsDate \in Int /\ Today \in Int
  BY ChainOf, SlotOf, ParametersAssumption
<1>3. IsFiniteSet(E) /\ \A e \in E : e \in Int /\ e > EarningsDate
  <2>1. /\ IsFiniteSet(ExpiryAfterEvent(ch, EarningsDate, 4))
        /\ \A e \in ExpiryAfterEvent(ch, EarningsDate, 4) : e \in Int /\ e > EarningsDate
    BY <1>2, AfterEventOf
  <2>2. E \in SUBSET ExpiryAfterEvent(ch, EarningsDate, 4)
    OBVIOUS
  <2> HIDE DEF E
  <2> QED BY <2>1, <2>2, FS_Subset
<1>4. ASSUME NEW e \in E, Today = EarningsDate - 1 PROVE Plays(f[e], m)
  <2>1. PICK structure \in {"straddle", "strangle"} : Offers(one(e), structure, e)
    <3>1. 50 \in Int /\ 6 \in Int /\ 10 \in Int
      OBVIOUS
    <3>2. Offers(Straddle(ch, e, 50, 6), "straddle", e) /\ Offers(Strangle(ch, e, 50, 10), "strangle", e)
      <4> HIDE DEF ch, E
      <4> QED BY <1>2, <3>1, StraddleOffers, StrangleOffers
    <3> QED BY <3>2
  <2>2. Bids(one(e), structure, {e}) /\ {e} \in SUBSET Int
    BY <1>3, <2>1, BidsAt
  <2>3. \A p \in one(e) : Tape("catalyst-straddle", Direction(p), m)
    BY DEF Tape, Directional
  <2>4. \A x \in {e} : Timely("catalyst-straddle", structure, x, exit)
    BY <1>2, <1>3, <1>4 DEF Timely
  <2>5. "pre_event" \in Budgets /\ 90 \in Int
    BY DEF Budgets
  <2>6. f[e] = Sized(one(e), "catalyst", "LULU", "pre_event", 90, "catalyst-straddle", exit, m)
    OBVIOUS
  <2> HIDE DEF one, f, E, exit
  <2> QED BY <2>2, <2>3, <2>4, <2>5, <2>6, SizedPlays
<1>5. CASE Today = EarningsDate - 1
  <2> HIDE DEF f, E, one
  <2>1. Plays(UNION {f[e] : e \in E}, m)
    BY <1>3, <1>4, <1>5, PlaysAll
  <2> QED BY <1>1, <2>1, NoPlays
<1>6. CASE Today # EarningsDate - 1
  BY <1>1, <1>6, NoPlays
<1> QED BY <1>5, <1>6

LEMMA PeadPlays ==
  ASSUME NEW m \in Markets, slot \in 1 .. Len(Slots)
  PROVE  Plays(Pead(m), m)
<1> DEFINE S == {t \in m.signals : t.gap # 0}
           E(s) == PickExpiry(Chain(m, s.symbol), Today, 1, 3)
           drift(s, e) == DebitVertical(Chain(m, s.symbol), e, s.gap, 45, 10, 2)
           sized(s, e) == Sized(drift(s, e), "catalyst", s.symbol, "pead", 80, "catalyst-pead", NoExit, m)
           f == [s \in S |-> UNION {sized(s, e) : e \in E(s)}]
<1>1. Pead(m) = IF "pead" \in Enabled THEN UNION {f[s] : s \in S} ELSE {}
  <2>1. {f[s] : s \in S} = {UNION {sized(s, e) : e \in E(s)} : s \in S}
    OBVIOUS
  <2> HIDE DEF f
  <2> QED BY <2>1, Zenon DEF Pead
<1>2. IsFiniteSet(S) /\ \A s \in S : s.gap \in Int
  <2>1. S \in SUBSET m.signals
    OBVIOUS
  <2> HIDE DEF S
  <2> QED BY <2>1, MarketOf, FS_Subset
<1>3. ASSUME NEW s \in S PROVE Plays(f[s], m)
  <2> DEFINE D == E(s)
             g == [e \in D |-> sized(s, e)]
  <2>1. Quotable(Chain(m, s.symbol)) /\ Today \in Int /\ s.gap \in Int
    BY <1>2, ChainOf, SlotOf
  <2>2. IsFiniteSet(D) /\ D \in SUBSET Int
    BY <2>1, ExpiriesOf
  <2>3. ASSUME NEW e \in D PROVE Plays(g[e], m)
    <3>1. 45 \in Int /\ 10 \in Int /\ 2 \in Nat
      OBVIOUS
    <3>2. Offers(drift(s, e), "debit_vertical", e)
      <4> HIDE DEF D
      <4> QED BY <2>1, <3>1, DebitVerticalOffers
    <3>3. Bids(drift(s, e), "debit_vertical", {e}) /\ {e} \in SUBSET Int
      BY <2>2, <3>2, BidsAt
    <3>4. \A p \in drift(s, e) : Tape("catalyst-pead", Direction(p), m)
      BY DEF Tape, Directional
    <3>5. \A x \in {e} : Timely("catalyst-pead", "debit_vertical", x, NoExit)
      BY DEF Timely
    <3>6. "pead" \in Budgets /\ 80 \in Int
      BY DEF Budgets
    <3>7. g[e] = Sized(drift(s, e), "catalyst", s.symbol, "pead", 80, "catalyst-pead", NoExit, m)
      OBVIOUS
    <3> HIDE DEF drift, g, D
    <3> QED BY <3>3, <3>4, <3>5, <3>6, <3>7, SizedPlays
  <2>4. f[s] = UNION {g[e] : e \in D}
    OBVIOUS
  <2> HIDE DEF f, g, D, sized, drift, E, S
  <2>5. IsFiniteSet(D) /\ \A e \in D : Plays(g[e], m)
    BY <2>2, <2>3
  <2>6. Plays(UNION {g[e] : e \in D}, m)
    BY ONLY <2>5, PlaysAll
  <2> QED BY <2>4, <2>6, Zenon
<1> HIDE DEF f, S
<1>4. Plays(UNION {f[s] : s \in S}, m)
  BY <1>2, <1>3, PlaysAll
<1> QED BY <1>1, <1>4, NoPlays

LEMMA EventPlays ==
  ASSUME NEW m \in Markets, slot \in 1 .. Len(Slots)
  PROVE  /\ Plays(Event(m), m)
         /\ \A c \in Permitted(m) : c.structure = "single_long" /\ c.expiry = Today
<1>1. Quotable(Chain(m, "SPY")) /\ Today \in Int /\ NfpDate \in Int /\ m.gap \in Int
  BY ChainOf, SlotOf, MarketOf, ParametersAssumption
<1>2. Plays(NfpStrangle(m), m)
  <2> DEFINE both == Strangle(Chain(m, "SPY"), Today + 1, 42, 10)
             E == {Today + 1}
             exit == <<Today + 1, 935>>
  <2>1. Offers(both, "strangle", Today + 1)
    <3>1. 42 \in Int /\ 10 \in Int
      OBVIOUS
    <3> QED BY <1>1, <3>1, StrangleOffers
  <2>2. Bids(both, "strangle", E) /\ E \in SUBSET Int
    BY <1>1, <2>1, BidsAt
  <2>3. CASE Today = NfpDate - 1
    <3>1. \A p \in both : Tape("event-nfp-strangle", Direction(p), m)
      BY DEF Tape, Directional
    <3>2. \A e \in E : Timely("event-nfp-strangle", "strangle", e, exit)
      BY <1>1, <2>3 DEF Timely
    <3>3. "event_macro" \in Budgets /\ 70 \in Int
      BY DEF Budgets
    <3>a. NfpStrangle(m) = {} \/ NfpStrangle(m)
            = Sized(both, "event_macro", "SPY", "event_macro", 70, "event-nfp-strangle", exit, m)
      BY DEF NfpStrangle
    <3> HIDE DEF both, E, exit
    <3>4. Plays(Sized(both, "event_macro", "SPY", "event_macro", 70, "event-nfp-strangle", exit, m), m)
      BY <2>2, <3>1, <3>2, <3>3, SizedPlays
    <3> QED BY <3>a, <3>4, NoPlays
  <2>4. CASE Today # NfpDate - 1
    BY <2>4, NoPlays DEF NfpStrangle
  <2> QED BY <2>3, <2>4
<1>3. Plays(GapPlay(m), m)
  <2> DEFINE one == SingleLong(Chain(m, "SPY"), Today, m.gap, 42, 10)
             E == {Today}
  <2>1. Offers(one, "single_long", Today)
    <3>1. 42 \in Int /\ 10 \in Int
      OBVIOUS
    <3> QED BY <1>1, <3>1, SingleLongOffers DEF Offers
  <2>2. Bids(one, "single_long", E) /\ E \in SUBSET Int
    BY <1>1, <2>1, BidsAt
  <2>3. \A p \in one : Tape("event-nfp-gap", Direction(p), m)
    BY DEF Tape, Directional
  <2>4. \A e \in E : Timely("event-nfp-gap", "single_long", e, NoExit)
    BY DEF Timely
  <2>5. "gap_addon" \in Budgets /\ 65 \in Int
    BY DEF Budgets
  <2>6. GapPlay(m) = {} \/ GapPlay(m)
          = Sized(one, "event_macro", "SPY", "gap_addon", 65, "event-nfp-gap", NoExit, m)
    BY DEF GapPlay
  <2> HIDE DEF one, E
  <2>7. Plays(Sized(one, "event_macro", "SPY", "gap_addon", 65, "event-nfp-gap", NoExit, m), m)
    BY <2>2, <2>3, <2>4, <2>5, SizedPlays
  <2> QED BY <2>6, <2>7, NoPlays
<1>4. Plays(NfpStrangle(m) \cup GapPlay(m), m)
  BY <1>2, <1>3, PlaysBoth
<1>5. Plays(Event(m), m)
  BY <1>4, NoPlays DEF Event
<1>6. \A c \in Permitted(m) : Candidate(c, m) /\ c.label = "event-nfp-gap"
  BY <1>5 DEF Permitted, Plays
<1> QED BY <1>5, <1>6 DEF Candidate, Timely

LEMMA VolPlays ==
  ASSUME NEW m \in Markets, slot \in 1 .. Len(Slots)
  PROVE  Plays(Vol(m), m)
<1> DEFINE ch == Chain(m, "SPY")
           E == PickExpiry(ch, Today, 0, 2)
           f == [e \in E |-> Sized(IronCondor(ch, e, 16, 4, 5), "vol_income", "SPY", "vol_income", 60,
                                   "vol-condor", NoExit, m)]
<1>1. Vol(m) = {} \/ Vol(m) = UNION {f[e] : e \in E}
  BY DEF Vol
<1>2. Quotable(ch) /\ Today \in Int
  BY ChainOf, SlotOf
<1>3. IsFiniteSet(E) /\ E \in SUBSET Int
  BY <1>2, ExpiriesOf
<1>4. ASSUME NEW e \in E PROVE Plays(f[e], m)
  <2> DEFINE condor == IronCondor(ch, e, 16, 4, 5)
  <2>1. Offers(condor, "iron_condor", e)
    BY <1>2, IronCondorOffers
  <2>2. Bids(condor, "iron_condor", {e}) /\ {e} \in SUBSET Int
    BY <1>3, <2>1, BidsAt
  <2>3. \A p \in condor : Tape("vol-condor", Direction(p), m)
    BY DEF Tape, Directional
  <2>4. \A x \in {e} : Timely("vol-condor", "iron_condor", x, NoExit)
    BY DEF Timely
  <2>5. "vol_income" \in Budgets /\ 60 \in Int
    BY DEF Budgets
  <2>6. f[e] = Sized(condor, "vol_income", "SPY", "vol_income", 60, "vol-condor", NoExit, m)
    OBVIOUS
  <2> HIDE DEF condor, f, E
  <2> QED BY <2>2, <2>3, <2>4, <2>5, <2>6, SizedPlays
<1> HIDE DEF f, E
<1>5. Plays(UNION {f[e] : e \in E}, m)
  BY <1>3, <1>4, PlaysAll
<1> QED BY <1>1, <1>5, NoPlays

\* Everything a cycle finds; on the frozen final date, single longs of the day.
LEMMA FoundPlays ==
  ASSUME NEW m \in Markets, slot \in 1 .. Len(Slots)
  PROVE  /\ Plays(Found(m), m)
         /\ Today = FinalDate => \A c \in Found(m) : c.structure = "single_long" /\ c.expiry = FinalDate
<1>1. Plays(Event(m), m) /\ \A c \in Permitted(m) : c.structure = "single_long" /\ c.expiry = Today
  BY EventPlays
<1>2. Plays(Permitted(m), m)
  <2>1. Permitted(m) \in SUBSET Event(m)
    BY DEF Permitted
  <2> QED BY <1>1, <2>1, FS_Subset DEF Plays
<1>3. Plays(Catalyst(m), m)
  BY EarningsPlays, PeadPlays, PlaysBoth, NoPlays DEF Catalyst
<1>4. Plays(Trend(m), m) /\ Plays(Vol(m), m)
  BY TrendPlays, VolPlays
<1>5. Plays(Trend(m) \cup Catalyst(m), m)
  BY <1>3, <1>4, PlaysBoth
<1>6. Plays((Trend(m) \cup Catalyst(m)) \cup Event(m), m)
  BY <1>1, <1>5, PlaysBoth
<1>7. Plays(((Trend(m) \cup Catalyst(m)) \cup Event(m)) \cup Vol(m), m)
  BY <1>4, <1>6, PlaysBoth
<1> QED BY <1>1, <1>2, <1>7 DEF Found, Frozen
-----------------------------------------------------------------------------
(* Rank and selection.                                                     *)

LEMMA SequenceOf ==
  ASSUME NEW S, IsFiniteSet(S)
  PROVE  SetToSeq(S) \in [1 .. Cardinality(S) -> S] /\ Cardinality(S) \in Nat
<1>1. Cardinality(S) \in Nat /\ ExistsBijection(1 .. Cardinality(S), S)
  BY FS_CardinalityType
<1>2. \E f \in [1 .. Cardinality(S) -> S] : IsInjective(f)
  BY <1>1 DEF ExistsBijection, Bijection, Injection
<1> QED BY <1>1, <1>2 DEF SetToSeq

\* A place of the rank is held by one of what was found.
LEMMA RankedOf ==
  ASSUME NEW m \in Markets, IsFiniteSet(Found(m)), \A c \in Found(m) : c.score \in Int
  PROVE  Ranked(m) \in Seq(Found(m))
<1> DEFINE s == SetToSeq(Found(m))
           n == Cardinality(Found(m))
           D == 1 .. n
           R == {t \in D \X D : s[t[1]].score > s[t[2]].score
                                  \/ (s[t[1]].score = s[t[2]].score /\ t[1] <= t[2])}
<1>1. s \in [D -> Found(m)] /\ n \in Nat
  BY SequenceOf
<1>2. \A i, j \in D : <<j, i>> \in R <=> (s[j].score > s[i].score \/ (s[j].score = s[i].score /\ j <= i))
  OBVIOUS
<1>3. \A i \in D : s[i] \in Found(m) /\ s[i].score \in Int
  BY <1>1
<1>4. Orders(R, D)
  <2>1. D \in SUBSET Int
    BY <1>1
  <2> DEFINE v(i) == s[i].score
  <2>2. \A i \in D : v(i) \in Int /\ i \in Int
    BY <1>3, <2>1
  <2>3. \A i, j \in D : <<j, i>> \in R <=> (v(j) > v(i) \/ (v(j) = v(i) /\ j <= i))
    BY <1>2
  <2> HIDE DEF R, D, v
  <2>4. \A i, j \in D : <<i, j>> \in R \/ <<j, i>> \in R
    <3>1. \A a, b, i, j \in Int : \/ a > b \/ (a = b /\ i <= j)
                                  \/ b > a \/ (b = a /\ j <= i)
      OBVIOUS
    <3> QED BY <2>2, <2>3, <3>1
  <2>5. \A i, j, k \in D : <<i, j>> \in R /\ <<j, k>> \in R => <<i, k>> \in R
    BY <2>2, <2>3
  <2>6. \A i, j \in D : <<i, j>> \in R /\ <<j, i>> \in R => i = j
    BY <2>2, <2>3
  <2> QED BY <2>4, <2>5, <2>6 DEF Orders, Compares
<1>5. IsFiniteSet(D) /\ Cardinality(D) = n
  <2>1. Cardinality(1 .. n) = (IF 1 > n THEN 0 ELSE n - 1 + 1) /\ IsFiniteSet(1 .. n)
    BY <1>1, FS_Interval
  <2> HIDE DEF n
  <2> QED BY <1>1, <2>1
<1>6. \A i \in D : Place(s, i) = Cardinality(UpTo(R, D, i))
  <2> SUFFICES ASSUME NEW i \in D PROVE Place(s, i) = Cardinality(UpTo(R, D, i))
    OBVIOUS
  <2>1. DOMAIN s = D
    BY <1>1
  <2> HIDE DEF s, D, R
  <2>2. {j \in DOMAIN s : s[j].score > s[i].score \/ (s[j].score = s[i].score /\ j <= i)} = UpTo(R, D, i)
    BY <1>2, <2>1 DEF UpTo
  <2> QED BY <2>2, Zenon DEF Place
<1>7. \A k \in D : (CHOOSE i \in D : Place(s, i) = k) \in D
  <2> SUFFICES ASSUME NEW k \in D PROVE \E i \in D : Place(s, i) = k
    OBVIOUS
  <2>1. k \in 1 .. Cardinality(D)
    BY <1>5
  <2> HIDE DEF s, R, D, n
  <2>2. \E i \in D : Cardinality(UpTo(R, D, i)) = k
    BY <1>4, <1>5, <2>1, PlaceTaken, Zenon
  <2> QED BY <1>6, <2>2
<1>8. Ranked(m) = [k \in D |-> s[CHOOSE i \in D : Place(s, i) = k]]
  <2>1. DOMAIN s = D
    BY <1>1
  <2>2. Ranked(m) = [k \in DOMAIN s |-> s[CHOOSE i \in DOMAIN s : Place(s, i) = k]]
    BY DEF Ranked
  <2> HIDE DEF s, D
  <2> QED BY <2>1, <2>2
<1>9. \A k \in D : s[CHOOSE i \in D : Place(s, i) = k] \in Found(m)
  BY <1>3, <1>7
<1>10. Ranked(m) \in [D -> Found(m)]
  <2> HIDE DEF s, D
  <2> QED BY <1>8, <1>9
<1> HIDE DEF s, R
<1> QED BY <1>1, <1>10

\* What a selection of n candidates may be.
Sound(sel, n) ==
  /\ Len(sel) <= MaxSelected
  /\ \A k \in DOMAIN sel : sel[k] \in 1 .. n /\ \A j \in 1 .. k - 1 : sel[j] # sel[k]
  /\ n > 0 => sel # <<>>

LEMMA FirstOf ==
  ASSUME NEW S, NEW seq \in Seq(S), NEW n \in Nat
  PROVE  /\ First(seq, n) \in Seq(S) /\ Len(First(seq, n)) = Lesser(n, Len(seq))
         /\ \A k \in 1 .. Lesser(n, Len(seq)) : k \in 1 .. Len(seq) /\ First(seq, n)[k] = seq[k]
<1>1. Lesser(n, Len(seq)) \in 0 .. Len(seq)
  BY DEF Lesser
<1> QED BY <1>1 DEF First

LEMMA FallbackIsSound ==
  ASSUME NEW n \in Nat \ {0}
  PROVE  Fallback(n) \in Seq(Nat) /\ Sound(Fallback(n), n)
<1> DEFINE l == Least(n)
<1>1. MaxSelected \in Nat \ {0}
  BY ParametersAssumption
<1>2. l \in Nat \ {0} /\ l <= n /\ l <= MaxSelected
  BY <1>1 DEF Least, Lesser
<1>3. Fallback(n) = [i \in 1 .. l |-> i]
  BY DEF Fallback
<1> HIDE DEF l
<1>4. Fallback(n) \in Seq(Nat) /\ Len(Fallback(n)) = l
  BY <1>2, <1>3
<1>5. \A k \in 1 .. l : Fallback(n)[k] = k
  BY <1>3
<1> QED BY <1>2, <1>4, <1>5 DEF Sound

LEMMA SelectionOf ==
  ASSUME NEW reply \in Replies, NEW n \in Nat
  PROVE  Selection(reply, n) \in Seq(Int) /\ Sound(Selection(reply, n), n)
<1>1. MaxSelected \in Nat \ {0} /\ (reply = NoAnswer \/ reply \in Seq(Int))
  BY ParametersAssumption DEF NoAnswer
<1>2. CASE n = 0
  BY <1>1, <1>2 DEF Selection, Sound
<1>3. CASE n # 0 /\ reply = NoAnswer
  BY <1>3, FallbackIsSound DEF Selection
<1>4. CASE n # 0 /\ reply # NoAnswer
  <2>1. reply \in Seq(Int) /\ Selection(reply, n) = Validated(reply, n)
    BY <1>1, <1>4 DEF Selection
  <2> DEFINE window == First(reply, 2 * MaxSelected)
             named == {k \in DOMAIN window : window[k] \in 1 .. n /\ \A j \in 1 .. k - 1 : window[j] # window[k]}
             R == {t \in named \X named : t[1] <= t[2]}
             at(k) == CHOOSE j \in named : Cardinality({i \in named : i <= j}) = k
             kept == [k \in 1 .. Cardinality(named) |-> window[at(k)]]
  <2>2. window \in Seq(Int)
    BY <1>1, <2>1, FirstOf
  <2>3. named \in SUBSET (1 .. Len(window)) /\ Len(window) \in Nat
    BY <2>2
  <2>4. IsFiniteSet(named) /\ Cardinality(named) \in Nat
    <3>1. IsFiniteSet(1 .. Len(window))
      BY <2>3, FS_Interval
    <3> HIDE DEF named, window
    <3> QED BY <2>3, <3>1, FS_Subset, FS_CardinalityType
  <2>5. \A j \in named : window[j] \in 1 .. n /\ \A i \in named : i # j => window[i] # window[j]
    <3>1. \A i, j \in named : i < j => window[i] # window[j]
      BY <2>3
    <3>2. \A j \in named : window[j] \in 1 .. n /\ j \in Int
      BY <2>3
    <3> HIDE DEF named, window
    <3> QED BY <3>1, <3>2
  <2>6. Orders(R, named)
    <3>1. \A i, j \in named : <<i, j>> \in R <=> i <= j
      OBVIOUS
    <3>2. \A i \in named : i \in Int
      BY <2>3
    <3> HIDE DEF R, named
    <3> QED BY <3>1, <3>2 DEF Orders, Compares
  <2>7. \A k \in 1 .. Cardinality(named) : at(k) \in named /\ Cardinality({i \in named : i <= at(k)}) = k
    <3> SUFFICES ASSUME NEW k \in 1 .. Cardinality(named)
                 PROVE  \E j \in named : Cardinality({i \in named : i <= j}) = k
      OBVIOUS
    <3>1. \A j \in named : {i \in named : i <= j} = UpTo(R, named, j)
      BY DEF UpTo
    <3> HIDE DEF R, named
    <3>2. \E j \in named : Cardinality(UpTo(R, named, j)) = k
      BY <2>4, <2>6, PlaceTaken
    <3> QED BY <3>1, <3>2
  <2>8. \A k \in 1 .. Cardinality(named) : \A j \in 1 .. Cardinality(named) : at(j) = at(k) => j = k
    <3> HIDE DEF named
    <3> QED BY <2>7
  <2>9. /\ kept \in Seq(Int) /\ Len(kept) = Cardinality(named)
        /\ \A k \in 1 .. Cardinality(named) : kept[k] = window[at(k)]
    <3>1. \A j \in named : window[j] \in Int
      <4> HIDE DEF window, named
      <4> QED BY <2>5
    <3>2. \A k \in 1 .. Cardinality(named) : window[at(k)] \in Int
      <4> HIDE DEF window, named, at
      <4> QED BY <2>7, <3>1
    <3> HIDE DEF window, named, at
    <3> QED BY <2>4, <3>2
  <2>10. \A k \in 1 .. Cardinality(named) :
           kept[k] \in 1 .. n /\ \A j \in 1 .. Cardinality(named) : j # k => kept[j] # kept[k]
    <3> HIDE DEF window, named, at, kept
    <3> QED BY <2>5, <2>7, <2>8, <2>9
  <2>11. Validated(reply, n) = IF kept = <<>> THEN Fallback(n) ELSE First(kept, MaxSelected)
    BY DEF Validated, Named
  <2> HIDE DEF window, named, at, kept, R
  <2>12. CASE kept = <<>>
    BY <1>4, <2>1, <2>11, <2>12, FallbackIsSound
  <2>13. CASE kept # <<>>
    <3> DEFINE sel == First(kept, MaxSelected)
               l == Lesser(MaxSelected, Len(kept))
    <3>0. MaxSelected \in Nat /\ kept \in Seq(Int)
      BY <1>1, <2>9
    <3>1. /\ sel \in Seq(Int) /\ Len(sel) = l
          /\ \A k \in 1 .. l : k \in 1 .. Len(kept) /\ sel[k] = kept[k]
      <4>1. \A seq \in Seq(Int), q \in Nat :
              /\ First(seq, q) \in Seq(Int) /\ Len(First(seq, q)) = Lesser(q, Len(seq))
              /\ \A k \in 1 .. Lesser(q, Len(seq)) : k \in 1 .. Len(seq) /\ First(seq, q)[k] = seq[k]
        BY FirstOf
      <4> QED BY ONLY <3>0, <4>1
    <3>2. l \in Nat \ {0} /\ l <= MaxSelected /\ l <= Len(kept)
      BY <1>1, <2>9, <2>13 DEF Lesser
    <3> HIDE DEF sel, l
    <3>3. \A k \in 1 .. l : sel[k] \in 1 .. n /\ \A j \in 1 .. k - 1 : sel[j] # sel[k]
      <4> SUFFICES ASSUME NEW k \in 1 .. l
                   PROVE  sel[k] \in 1 .. n /\ \A j \in 1 .. k - 1 : sel[j] # sel[k]
        OBVIOUS
      <4>1. k \in 1 .. Cardinality(named) /\ sel[k] = kept[k] /\ sel[k] \in 1 .. n
        BY <2>9, <2>10, <3>1
      <4>2. \A j \in 1 .. k - 1 : j \in 1 .. l /\ j # k
        BY <3>2
      <4>3. \A j \in 1 .. k - 1 : j \in 1 .. Cardinality(named) /\ sel[j] = kept[j] /\ j # k
        BY <2>9, <3>1, <4>2
      <4> QED BY <2>10, <4>1, <4>3
    <3>4. DOMAIN sel = 1 .. l /\ sel # <<>>
      BY <3>1, <3>2
    <3>5. Sound(sel, n)
      BY <3>1, <3>2, <3>3, <3>4 DEF Sound
    <3> QED BY <2>1, <2>11, <2>13, <3>1, <3>5 DEF sel
  <2> QED BY <2>12, <2>13
<1> QED BY <1>2, <1>3, <1>4
-----------------------------------------------------------------------------
(* The invariant.                                                          *)

Phases == {"exits", "engines", "proposer", "admit", "idle"}

Fields == {"engine", "label", "structure", "symbol", "expiry", "exit", "loss", "day", "slot", "missed"}

Exits == {NoExit, <<EarningsDate + 1, 935>>, <<NfpDate, 935>>}

\* What is known of a structure that is held, whatever became of the day.
Kept(p) ==
  /\ DOMAIN p = Fields /\ p.loss \in Int /\ p.expiry \in Int /\ p.exit \in Exits
  /\ p.label = "catalyst-straddle" =>
       p.day < EarningsDate /\ p.expiry > EarningsDate /\ p.exit = <<EarningsDate + 1, 935>>
  /\ p.label = "event-nfp-strangle" =>
       p.day < NfpDate /\ p.expiry = NfpDate /\ p.exit = <<NfpDate, 935>>
  /\ p.day = FinalDate => p.structure = "single_long" /\ p.expiry = FinalDate

Before(x) == Today < x[1] \/ (Today = x[1] /\ Clock < x[2])

\* A structure that no cycle failed to price waits for its exit: the cycle that
\* asks for it runs on its day at the latest.
Awaited ==
  \A p \in book : ~p.missed /\ p.exit # NoExit =>
    /\ Today <= p.exit[1]
    /\ phase # "exits" => Before(p.exit)

BookInv == IsFiniteSet(book) /\ (\A p \in book : Kept(p)) /\ Awaited

\* What is known of a candidate until the next cycle.
Ready(c) ==
  /\ Priced(c) /\ c.expiry \in Int
  /\ Tape(c.label, Direction(c), market) /\ Timely(c.label, c.structure, c.expiry, c.exit)
  /\ Today = FinalDate => c.structure = "single_long" /\ c.expiry = FinalDate

CandsInv ==
  /\ cands \in Seq({cands[i] : i \in DOMAIN cands})
  /\ \A i \in DOMAIN cands : Ready(cands[i])
  /\ phase \in {"proposer", "admit"} => \A i \in DOMAIN cands : Weighed(cands[i], market)
  /\ phase \in {"exits", "engines"} => cands = <<>>

ChosenInv ==
  /\ chosen \in Seq(Int)
  /\ phase \in {"admit", "idle"} => Sound(chosen, Len(cands))
  /\ phase \in {"exits", "engines", "proposer"} => chosen = <<>>

CycleInv == slot \in 1 .. Len(Slots) /\ phase \in Phases /\ market \in Markets

CandInv == CycleInv /\ BookInv /\ CandsInv /\ ChosenInv /\ OverdueIsUnpriced

\* The risk of the book is a number, whatever is held.
LEMMA OpenRiskIsInt ==
  ASSUME IsFiniteSet(book), \A p \in book : Kept(p)
  PROVE  OpenRisk \in Int
<1> DEFINE f == [p \in book |-> p.loss]
<1>1. \A p \in book : f[p] \in Int
  BY DEF Kept
<1>2. OpenRisk = SumFunctionOnSet(f, book)
  BY DEF OpenRisk, LossOf
<1> HIDE DEF f
<1> QED BY <1>1, <1>2, SumInt

\* What a weighed candidate's quantity does to the caps.
LEMMA WeighedFits ==
  ASSUME NEW c, NEW m, c.unit \in Int, Weighed(c, m), OpenRisk \in Int
  PROVE  /\ c.qty \in Nat /\ c.unit * c.qty \in Int
         /\ LET fits(q) == /\ q * c.unit <= EngineLossCap(Cap[c.budget], m.halved)
                           /\ q * c.unit + OpenRisk <= AtRiskCap
            IN  fits(c.qty) /\ ~fits(c.qty + 1)
<1> DEFINE cap == EngineLossCap(Cap[c.budget], m.halved)
           u == c.unit
           q == c.qty
<1>1. cap \in Int /\ AtRiskCap \in Int
  <2>1. Cap[c.budget] \in Nat /\ AtRiskCap \in Nat
    BY ParametersAssumption DEF Weighed
  <2>2. \A n \in Nat : n \div 2 \in Int
    OBVIOUS
  <2> QED BY <2>1, <2>2 DEF EngineLossCap
<1>2. q = FixedQuantity(u, cap, OpenRisk, AtRiskCap) /\ q > 0
  BY DEF Weighed
<1> HIDE DEF cap, u, q
<1>3. u \in Int
  BY DEF u
<1>4. u \in Nat /\ u > 0
  <2>1. ~(u <= 0)
    BY <1>2 DEF FixedQuantity
  <2> QED BY <1>3, <2>1
<1>5. Amounts(u, cap, OpenRisk, AtRiskCap)
  BY <1>1, <1>4 DEF Amounts
<1>6. q \in Nat /\ u * q <= cap /\ u * q + OpenRisk <= AtRiskCap
  BY <1>2, <1>5, SizedWithinCaps
<1>7. ~(u * (q + 1) <= cap /\ u * (q + 1) + OpenRisk <= AtRiskCap)
  BY <1>2, <1>5, SizedIsLargest
<1>8. u * q = q * u /\ u * (q + 1) = (q + 1) * u /\ u * q \in Int
  BY <1>3, <1>6
<1>9. /\ q \in Nat /\ u * q \in Int
      /\ q * u <= cap /\ q * u + OpenRisk <= AtRiskCap
      /\ ~((q + 1) * u <= cap /\ (q + 1) * u + OpenRisk <= AtRiskCap)
  BY <1>6, <1>7, <1>8
<1> QED BY <1>9, Zenon DEF u, q, cap

LEMMA CandInit == ASSUME Init PROVE CandInv
<1>1. CycleInv
  BY SlotsAssumption DEF Init, CycleInv, Phases
<1>2. BookInv
  BY FS_EmptySet DEF Init, BookInv, Awaited
<1>3. CandsInv /\ ChosenInv /\ OverdueIsUnpriced
  BY DEF Init, CandsInv, ChosenInv, OverdueIsUnpriced
<1> QED BY <1>1, <1>2, <1>3 DEF CandInv
\* What is known of a candidate is of the market and the day, and of nothing else.
LEMMA ReadyStays ==
  ASSUME slot' = slot, market' = market
  PROVE  /\ Today' = Today /\ Clock' = Clock
         /\ \A c : Ready(c) => Ready(c)'
         /\ \A x : Before(x) <=> Before(x)'
<1>1. Today' = Today /\ Clock' = Clock
  BY DEF Today, Clock
<1>2. ASSUME NEW c, Ready(c) PROVE Ready(c)'
  <2>1. Timely(c.label, c.structure, c.expiry, c.exit)'
    BY <1>1, <1>2 DEF Ready, Timely
  <2>2. Tape(c.label, Direction(c), market)'
    BY <1>2 DEF Ready, Tape
  <2> QED BY <1>1, <1>2, <2>1, <2>2 DEF Ready
<1>3. \A x : Before(x) <=> Before(x)'
  BY <1>1 DEF Before
<1> QED BY <1>1, <1>2, <1>3

\* What is known of a structure is of the structure alone.
LEMMA KeptStays == \A p : Kept(p) => Kept(p)'
BY DEF Kept

LEMMA KeptMissed ==
  ASSUME NEW p, Kept(p)
  PROVE  LET q == [p EXCEPT !.missed = TRUE]
         IN  Kept(q) /\ q.missed
<1> DEFINE q == [p EXCEPT !.missed = TRUE]
<1>1. DOMAIN p = Fields
  BY DEF Kept
<1>2. /\ DOMAIN q = Fields /\ q.missed
      /\ q.loss = p.loss /\ q.expiry = p.expiry /\ q.exit = p.exit /\ q.label = p.label
      /\ q.day = p.day /\ q.structure = p.structure
  BY <1>1 DEF Fields
<1> HIDE DEF q
<1>3. Kept(q)
  BY <1>2 DEF Kept
<1> QED BY <1>2, <1>3 DEF q

LEMMA GenerateStep ==
  ASSUME CandInv, Generate
  PROVE  CandInv'
<1>1. /\ phase = "engines" /\ phase' = "proposer" /\ cands' = Ranked(market)
      /\ slot' = slot /\ market' = market /\ book' = book /\ chosen' = chosen
  BY DEF Generate
<1>2. /\ slot \in 1 .. Len(Slots) /\ market \in Markets
      /\ IsFiniteSet(book) /\ \A p \in book : Kept(p)
      /\ chosen = <<>>
  BY <1>1 DEF CandInv, CycleInv, BookInv, ChosenInv
<1>3. CycleInv'
  BY <1>1, <1>2 DEF CycleInv, Phases
<1>4. BookInv'
  <2>1. \A p \in book' : Kept(p)'
    BY <1>1, <1>2, KeptStays
  <2>2. Awaited'
    <3>1. \A p \in book : ~p.missed /\ p.exit # NoExit => Today <= p.exit[1] /\ Before(p.exit)
      BY <1>1 DEF CandInv, BookInv, Awaited
    <3> QED BY <1>1, <3>1, ReadyStays DEF Awaited
  <2> QED BY <1>1, <1>2, <2>1, <2>2 DEF BookInv
<1>5. /\ Plays(Found(market), market)
      /\ Today = FinalDate => \A c \in Found(market) : c.structure = "single_long" /\ c.expiry = FinalDate
  BY <1>2, FoundPlays
<1>6. IsFiniteSet(Found(market)) /\ \A c \in Found(market) : Candidate(c, market)
  BY <1>5 DEF Plays
<1>7. cands' \in Seq(Found(market))
  <2>1. \A c \in Found(market) : c.score \in Int
    BY <1>6 DEF Candidate
  <2> QED BY <1>1, <1>2, <1>6, <2>1, RankedOf
<1>8. \A i \in DOMAIN cands' : cands'[i] \in Found(market)
  BY <1>7
<1>9. \A c \in Found(market) : Ready(c) /\ Weighed(c, market)
  BY <1>5, <1>6 DEF Candidate, Ready
<1>10. CandsInv'
  <2>1. cands' \in Seq({cands'[i] : i \in DOMAIN cands'})
    BY <1>7
  <2>2. (\A i \in DOMAIN cands : Ready(cands[i]))'
    BY <1>1, <1>8, <1>9, ReadyStays
  <2>3. (\A i \in DOMAIN cands : Weighed(cands[i], market))'
    <3>1. OpenRisk' = OpenRisk
      BY <1>1 DEF OpenRisk
    <3>2. \A c : Weighed(c, market) => Weighed(c, market)'
      BY <1>1, <3>1 DEF Weighed
    <3> QED BY <1>8, <1>9, <3>2
  <2> QED BY <1>1, <2>1, <2>2, <2>3 DEF CandsInv
<1>11. ChosenInv'
  BY <1>1, <1>2 DEF ChosenInv
<1>12. OverdueIsUnpriced'
  BY <1>1 DEF OverdueIsUnpriced
<1> QED BY <1>3, <1>4, <1>10, <1>11, <1>12 DEF CandInv

LEMMA SelectStep ==
  ASSUME CandInv, Select
  PROVE  CandInv'
<1>1. /\ phase = "proposer" /\ phase' = "admit" /\ cands' = cands
      /\ slot' = slot /\ market' = market /\ book' = book
      /\ \E reply \in Replies : chosen' = Selection(reply, Len(cands))
  BY DEF Select
<1>2. CycleInv'
  BY <1>1 DEF CandInv, CycleInv, Phases
<1>3. BookInv'
  <2>1. \A p \in book' : Kept(p)'
    BY <1>1, KeptStays DEF CandInv, BookInv
  <2>2. Awaited'
    <3>1. \A p \in book : ~p.missed /\ p.exit # NoExit => Today <= p.exit[1] /\ Before(p.exit)
      BY <1>1 DEF CandInv, BookInv, Awaited
    <3> QED BY <1>1, <3>1, ReadyStays DEF Awaited
  <2> QED BY <1>1, <2>1, <2>2 DEF CandInv, BookInv
<1>4. CandsInv'
  <2>1. /\ cands \in Seq({cands[i] : i \in DOMAIN cands})
        /\ \A i \in DOMAIN cands : Ready(cands[i]) /\ Weighed(cands[i], market)
    BY <1>1 DEF CandInv, CandsInv
  <2>2. (\A i \in DOMAIN cands : Ready(cands[i]))'
    BY <1>1, <2>1, ReadyStays
  <2>3. OpenRisk' = OpenRisk
    BY <1>1 DEF OpenRisk
  <2>4. (\A i \in DOMAIN cands : Weighed(cands[i], market))'
    BY <1>1, <2>1, <2>3 DEF Weighed
  <2> QED BY <1>1, <2>1, <2>2, <2>4 DEF CandsInv
<1>5. chosen' \in Seq(Int) /\ Sound(chosen', Len(cands))
  <2>1. Len(cands) \in Nat
    <3>1. cands \in Seq({cands[i] : i \in DOMAIN cands})
      BY DEF CandInv, CandsInv
    <3> QED BY <3>1
  <2> QED BY <1>1, <2>1, SelectionOf
<1>6. ChosenInv'
  BY <1>1, <1>5 DEF ChosenInv
<1>7. OverdueIsUnpriced'
  BY <1>1 DEF OverdueIsUnpriced
<1> QED BY <1>2, <1>3, <1>4, <1>6, <1>7 DEF CandInv
LEMMA CandsKept ==
  ASSUME CandInv, slot' = slot, market' = market, cands' = cands,
         phase' \notin {"proposer", "admit"}, phase' \in {"exits", "engines"} => cands = <<>>
  PROVE  CandsInv'
<1>1. /\ cands \in Seq({cands[i] : i \in DOMAIN cands})
      /\ \A i \in DOMAIN cands : Ready(cands[i])
  BY DEF CandInv, CandsInv
<1>2. (\A i \in DOMAIN cands : Ready(cands[i]))'
  BY <1>1, ReadyStays
<1> QED BY <1>1, <1>2 DEF CandsInv

\* A close that is not asked for is not due.
LEMMA DueIsClosed ==
  ASSUME NEW p, NEW pnl, DecideExit(p, pnl) = "none", p.exit # NoExit => Today <= p.exit[1],
         Kept(p), Today \in Nat, Clock \in Nat
  PROVE  ~Overdue(p) /\ (p.exit # NoExit => Before(p.exit))
<1>1. /\ ~(p.expiry = Today /\ Clock >= 1515)
      /\ ~(p.exit[1] = Today /\ Clock >= p.exit[2])
      /\ ~(Today = FinalDate /\ Clock >= FlattenAt)
  BY DEF DecideExit
<1>2. p.exit # NoExit => p.exit[1] \in Nat /\ p.exit[2] \in Nat
  BY ParametersAssumption DEF Kept, Exits
<1> QED BY <1>1, <1>2 DEF Overdue, Before

LEMMA ManageExitsStep ==
  ASSUME CandInv, ManageExits
  PROVE  CandInv'
<1>1. /\ phase = "exits" /\ phase' = "engines"
      /\ slot' = slot /\ market' = market /\ cands' = cands /\ chosen' = chosen
  BY DEF ManageExits
<1>2. PICK priced \in SUBSET book : \E pnl \in [priced -> PnlMoves] :
        book' = {p \in priced : DecideExit(p, pnl[p]) = "none"}
                  \cup {[p EXCEPT !.missed = TRUE] : p \in book \ priced}
  BY DEF ManageExits
<1>3. PICK pnl \in [priced -> PnlMoves] :
        book' = {p \in priced : DecideExit(p, pnl[p]) = "none"}
                  \cup {[p EXCEPT !.missed = TRUE] : p \in book \ priced}
  BY <1>2
<1>4. /\ slot \in 1 .. Len(Slots) /\ market \in Markets /\ cands = <<>> /\ chosen = <<>>
      /\ IsFiniteSet(book) /\ \A p \in book : Kept(p)
      /\ \A p \in book : ~p.missed /\ p.exit # NoExit => Today <= p.exit[1]
  BY <1>1 DEF CandInv, CycleInv, BookInv, CandsInv, ChosenInv, Awaited
<1>5. Today \in Nat /\ Clock \in Nat
  BY <1>4, SlotOf
<1> DEFINE left == {p \in priced : DecideExit(p, pnl[p]) = "none"}
           missing == {[p EXCEPT !.missed = TRUE] : p \in book \ priced}
<1>6. book' = left \cup missing
  BY <1>3
<1>7. \A p \in left : p \in book /\ DecideExit(p, pnl[p]) = "none"
  BY <1>2
<1>8. \A q \in missing : Kept(q) /\ q.missed
  BY <1>4, KeptMissed
<1>9. IsFiniteSet(book')
  <2> DEFINE late == [p \in book |-> [p EXCEPT !.missed = TRUE]]
  <2>1. missing = {late[p] : p \in book \ priced}
    OBVIOUS
  <2>2. IsFiniteSet(book \ priced) /\ IsFiniteSet(left)
    BY <1>2, <1>4, FS_Subset
  <2> HIDE DEF late, left, missing
  <2>3. IsFiniteSet(missing)
    BY <2>1, <2>2, ImageIsFinite
  <2> QED BY <1>6, <2>2, <2>3, FS_Union
<1> HIDE DEF left, missing
<1>10. \A p \in book' : Kept(p)
  BY <1>4, <1>6, <1>7, <1>8
<1>11. ASSUME NEW p \in book', ~p.missed PROVE ~Overdue(p) /\ (p.exit # NoExit => Before(p.exit))
  <2>1. p \in book /\ DecideExit(p, pnl[p]) = "none"
    BY <1>6, <1>7, <1>8, <1>11
  <2>2. p.exit # NoExit => Today <= p.exit[1]
    BY <1>4, <1>11, <2>1
  <2> QED BY <1>4, <1>5, <2>1, <2>2, DueIsClosed
<1>12. \A p : Overdue(p)' => Overdue(p)
  BY <1>1, ReadyStays DEF Overdue
<1>13. CycleInv'
  BY <1>1, <1>4 DEF CycleInv, Phases
<1>14. BookInv'
  <2>1. (\A p \in book : Kept(p))'
    BY <1>10, KeptStays
  <2>2. Awaited'
    <3>1. ASSUME NEW p \in book', ~p.missed, p.exit # NoExit
          PROVE  Today' <= p.exit[1] /\ Before(p.exit)'
      <4>1. Before(p.exit) /\ Kept(p)
        BY <1>10, <1>11, <3>1
      <4>2. Today <= p.exit[1]
        <5>1. p.exit[1] \in Nat
          BY <3>1, <4>1, ParametersAssumption DEF Kept, Exits
        <5> QED BY <1>5, <4>1, <5>1 DEF Before
      <4> QED BY <1>1, <4>1, <4>2, ReadyStays
    <3> QED BY <3>1 DEF Awaited
  <2> QED BY <1>9, <2>1, <2>2 DEF BookInv
<1>15. CandsInv'
  BY <1>1, <1>4, CandsKept
<1>16. ChosenInv'
  BY <1>1, <1>4 DEF ChosenInv
<1>17. OverdueIsUnpriced'
  BY <1>11, <1>12 DEF OverdueIsUnpriced
<1> QED BY <1>13, <1>14, <1>15, <1>16, <1>17 DEF CandInv
\* The cycles follow each other in time.
LEMMA CyclesInOrder ==
  ASSUME NEW i \in 1 .. Len(Slots), NEW j \in 1 .. Len(Slots), j <= i
  PROVE  /\ Slots[i][1] \in Nat /\ Slots[i][2] \in Nat /\ Slots[j][1] \in Nat /\ Slots[j][2] \in Nat
         /\ Slots[j][1] <= Slots[i][1] /\ (Slots[j][1] = Slots[i][1] => Slots[j][2] <= Slots[i][2])
<1>1. j \in 1 .. i
  OBVIOUS
<1>2. Slots[i] \in Nat \X Nat /\ Slots[j] \in Nat \X Nat
  BY SlotsAssumption
<1> QED BY <1>1, <1>2, SlotsAssumption

\* A cycle that is never missed lies between one before an exit and one on a later
\* day, so that no later day begins with the exit still to come.
LEMMA ExitIsNotSkipped ==
  ASSUME slot \in 1 .. Len(Slots), NEW next \in slot + 1 .. Len(Slots),
         \A i \in slot + 1 .. next - 1 : Skippable(i),
         NEW x \in Exits, x # NoExit, Before(x)
  PROVE  Slots[next][1] <= x[1]
<1> SUFFICES ASSUME ~(Slots[next][1] <= x[1]) PROVE FALSE
  OBVIOUS
<1>1. x[1] \in {EarningsDate + 1, NfpDate} /\ x[1] \in Nat /\ x[2] = 935
  BY ParametersAssumption DEF Exits
<1>2. next \in 1 .. Len(Slots) /\ Len(Slots) \in Nat
  BY SlotsAssumption
<1>3. Slots[next][1] \in Nat
  BY <1>2, CyclesInOrder
<1>4. Slots[next][1] > x[1]
  BY <1>1, <1>3
<1>5. PICK i \in 1 .. Len(Slots) :
        Slots[i][1] = x[1] /\ Slots[i][2] >= SureTime /\ Slots[i][2] >= 935
  <2>1. \A day \in {EarningsDate + 1, NfpDate} :
          (\E k \in 1 .. Len(Slots) : Slots[k][1] > day) =>
            \E k \in 1 .. Len(Slots) :
              Slots[k][1] = day /\ Slots[k][2] >= SureTime /\ Slots[k][2] >= 935
    BY SlotsAssumption
  <2> DEFINE day == x[1]
  <2>2. day \in {EarningsDate + 1, NfpDate} /\ \E k \in 1 .. Len(Slots) : Slots[k][1] > day
    BY <1>1, <1>2, <1>4
  <2> HIDE DEF day
  <2>3. \E k \in 1 .. Len(Slots) :
          Slots[k][1] = day /\ Slots[k][2] >= SureTime /\ Slots[k][2] >= 935
    BY <2>1, <2>2, Zenon
  <2> QED BY <2>3 DEF day
<1>6. SureTime \in Nat
  BY ParametersAssumption
<1>7. i > slot
  <2> SUFFICES ASSUME i <= slot PROVE FALSE
    BY <1>2
  <2>1. /\ Slots[slot][1] \in Nat /\ Slots[slot][2] \in Nat /\ Slots[i][1] \in Nat /\ Slots[i][2] \in Nat
        /\ Slots[i][1] <= Slots[slot][1] /\ (Slots[i][1] = Slots[slot][1] => Slots[i][2] <= Slots[slot][2])
    BY CyclesInOrder
  <2>2. Slots[slot][1] < x[1] \/ (Slots[slot][1] = x[1] /\ Slots[slot][2] < x[2])
    BY DEF Before, Today, Clock
  <2> QED BY <1>1, <1>5, <2>1, <2>2
<1>8. i < next
  <2> SUFFICES ASSUME next <= i PROVE FALSE
    BY <1>2
  <2>1. Slots[next][1] <= Slots[i][1]
    BY <1>2, CyclesInOrder
  <2> QED BY <1>1, <1>3, <1>4, <1>5, <2>1
<1>9. Slots[i][2] < SureTime
  <2>1. i \in slot + 1 .. next - 1
    BY <1>2, <1>7, <1>8
  <2> QED BY <2>1 DEF Skippable
<1>10. Slots[i][2] \in Nat
  BY CyclesInOrder
<1> QED BY <1>5, <1>6, <1>9, <1>10

LEMMA ObserveStep ==
  ASSUME CandInv, Observe
  PROVE  CandInv'
<1>1. /\ phase = "idle" /\ phase' = "exits" /\ market' \in Markets
      /\ cands' = <<>> /\ chosen' = <<>>
  BY DEF Observe
<1>2. PICK next \in slot + 1 .. Len(Slots) :
        /\ \A i \in slot + 1 .. next - 1 : Skippable(i)
        /\ slot' = next
        /\ book' = {p \in book : p.expiry >= Slots[next][1]}
  BY DEF Observe
<1>3. /\ slot \in 1 .. Len(Slots) /\ IsFiniteSet(book) /\ \A p \in book : Kept(p)
      /\ \A p \in book : ~p.missed /\ p.exit # NoExit => Before(p.exit)
  BY <1>1 DEF CandInv, CycleInv, BookInv, Awaited
<1>4. CycleInv'
  <2>1. Len(Slots) \in Nat
    BY SlotsAssumption
  <2> QED BY <1>1, <1>2, <1>3, <2>1 DEF CycleInv, Phases
<1>5. BookInv'
  <2>1. book' \in SUBSET book
    BY <1>2
  <2>2. IsFiniteSet(book')
    BY <1>3, <2>1, FS_Subset
  <2>3. (\A p \in book : Kept(p))'
    BY <1>3, <2>1, KeptStays
  <2>4. ASSUME NEW p \in book, ~p.missed, p.exit # NoExit
        PROVE  Slots[next][1] <= p.exit[1]
    <3>1. p.exit \in Exits /\ Before(p.exit)
      BY <1>3, <2>4 DEF Kept
    <3> QED BY <1>2, <1>3, <2>4, <3>1, ExitIsNotSkipped
  <2>5. Awaited'
    BY <1>1, <1>2, <2>1, <2>4 DEF Awaited, Today
  <2> QED BY <2>2, <2>3, <2>5 DEF BookInv
<1>6. CandsInv' /\ ChosenInv'
  BY <1>1 DEF CandsInv, ChosenInv
<1>7. OverdueIsUnpriced'
  BY <1>1 DEF OverdueIsUnpriced
<1> QED BY <1>4, <1>5, <1>6, <1>7 DEF CandInv

LEMMA AdmitStep ==
  ASSUME CandInv, Admit
  PROVE  CandInv'
<1>1. /\ phase = "admit" /\ phase' = "idle"
      /\ slot' = slot /\ market' = market /\ cands' = cands /\ chosen' = chosen
  BY DEF Admit
<1>2. PICK taken \in SUBSET {cands[chosen[k]] : k \in DOMAIN chosen} :
        book' = book \cup {Opened(c) : c \in taken}
  BY DEF Admit
<1>3. /\ slot \in 1 .. Len(Slots) /\ market \in Markets
      /\ IsFiniteSet(book) /\ \A p \in book : Kept(p)
      /\ \A p \in book : ~p.missed /\ p.exit # NoExit => Today <= p.exit[1] /\ Before(p.exit)
      /\ cands \in Seq({cands[i] : i \in DOMAIN cands})
      /\ \A i \in DOMAIN cands : Ready(cands[i]) /\ Weighed(cands[i], market)
      /\ chosen \in Seq(Int) /\ Sound(chosen, Len(cands))
  BY <1>1 DEF CandInv, CycleInv, BookInv, Awaited, CandsInv, ChosenInv
<1>4. \A k \in DOMAIN chosen : chosen[k] \in DOMAIN cands
  <2>1. DOMAIN cands = 1 .. Len(cands)
    BY <1>3
  <2> QED BY <1>3, <2>1 DEF Sound
<1>5. \A c \in taken : Ready(c) /\ Weighed(c, market)
  BY <1>2, <1>3, <1>4
<1>6. Today \in Nat /\ Clock \in Nat
  BY <1>3, SlotOf
<1> DEFINE open == [c \in taken |-> Opened(c)]
<1>7. book' = book \cup {open[c] : c \in taken}
  BY <1>2
<1>8. IsFiniteSet(book')
  <2> DEFINE pick == [k \in DOMAIN chosen |-> cands[chosen[k]]]
             all == {pick[k] : k \in DOMAIN chosen}
  <2>1. DOMAIN chosen = 1 .. Len(chosen) /\ Len(chosen) \in Nat
    BY <1>3
  <2>2. IsFiniteSet(DOMAIN chosen)
    <3> DEFINE l == Len(chosen)
    <3>1. l \in Nat /\ DOMAIN chosen = 1 .. l /\ 1 \in Int /\ l \in Int
      BY <2>1
    <3> HIDE DEF l
    <3>2. IsFiniteSet(1 .. l)
      BY ONLY <3>1, FS_Interval
    <3> QED BY <3>1, <3>2
  <2>3. taken \in SUBSET all
    BY <1>2
  <2> HIDE DEF pick, open
  <2>4. IsFiniteSet(all)
    BY <2>2, ImageIsFinite
  <2>5. IsFiniteSet(taken)
    BY <2>3, <2>4, FS_Subset
  <2>6. IsFiniteSet({open[c] : c \in taken})
    BY <2>5, ImageIsFinite
  <2> QED BY <1>3, <1>7, <2>6, FS_Union
<1>9. ASSUME NEW c \in taken
      PROVE  Kept(open[c]) /\ (open[c].exit # NoExit => Today <= open[c].exit[1] /\ Before(open[c].exit))
  <2> DEFINE p == open[c]
  <2>1. DOMAIN p = Fields
    BY DEF Opened, Fields
  <2>2. /\ p.label = c.label /\ p.structure = c.structure /\ p.expiry = c.expiry /\ p.exit = c.exit
        /\ p.loss = c.unit * c.qty /\ p.day = Today
    BY DEF Opened
  <2>3. Ready(c) /\ Weighed(c, market) /\ OpenRisk \in Int
    BY <1>3, <1>5, OpenRiskIsInt
  <2>4. p.loss \in Int /\ c.expiry \in Int
    BY <2>2, <2>3, WeighedFits DEF Ready, Priced
  <2>5. EarningsDate \in Nat /\ NfpDate \in Nat
    BY ParametersAssumption
  <2>6. Timely(c.label, c.structure, c.expiry, c.exit)
    BY <2>3 DEF Ready
  <2>7. Today = FinalDate => c.structure = "single_long" /\ c.expiry = FinalDate
    BY <2>3 DEF Ready
  <2> HIDE DEF p, open
  <2>8. p.exit \in Exits
    BY <2>2, <2>6 DEF Timely, Exits
  <2>9. Kept(p)
    BY <2>1, <2>2, <2>4, <2>6, <2>7, <2>8 DEF Kept, Timely
  <2>10. p.exit # NoExit => Today < p.exit[1] /\ p.exit[1] \in Nat
    <3>1. CASE c.label = "catalyst-straddle"
      BY <1>6, <2>2, <2>5, <2>6, <3>1 DEF Timely
    <3>2. CASE c.label = "event-nfp-strangle"
      BY <1>6, <2>2, <2>5, <2>6, <3>2 DEF Timely
    <3>3. CASE c.label \notin {"catalyst-straddle", "event-nfp-strangle"}
      BY <2>2, <2>6, <3>3 DEF Timely
    <3> QED BY <3>1, <3>2, <3>3
  <2>11. p.exit # NoExit => Today <= p.exit[1] /\ Before(p.exit)
    BY <1>6, <2>10 DEF Before
  <2> QED BY <2>9, <2>11 DEF p
<1> HIDE DEF open
<1>10. BookInv'
  <2>1. (\A p \in book : Kept(p))'
    BY <1>3, <1>7, <1>9, KeptStays
  <2>2. \A p \in book' : ~p.missed /\ p.exit # NoExit => Today <= p.exit[1] /\ Before(p.exit)
    BY <1>3, <1>7, <1>9
  <2>3. Awaited'
    BY <1>1, <2>2, ReadyStays DEF Awaited
  <2> QED BY <1>8, <2>1, <2>3 DEF BookInv
<1>11. CycleInv'
  BY <1>1, <1>3 DEF CycleInv, Phases
<1>12. CandsInv'
  BY <1>1, CandsKept
<1>13. ChosenInv'
  BY <1>1, <1>3 DEF ChosenInv
<1>14. OverdueIsUnpriced'
  BY <1>1 DEF OverdueIsUnpriced
<1> QED BY <1>10, <1>11, <1>12, <1>13, <1>14 DEF CandInv
LEMMA CandStep ==
  ASSUME CandInv, [Next]_vars
  PROVE  CandInv'
<1>1. CASE Observe
  BY <1>1, ObserveStep
<1>2. CASE ManageExits
  BY <1>2, ManageExitsStep
<1>3. CASE Generate
  BY <1>3, GenerateStep
<1>4. CASE Select
  BY <1>4, SelectStep
<1>5. CASE Admit
  BY <1>5, AdmitStep
<1>6. CASE UNCHANGED vars
  <2>1. /\ slot' = slot /\ phase' = phase /\ market' = market /\ book' = book
        /\ cands' = cands /\ chosen' = chosen
    BY <1>6 DEF vars
  <2>2. CycleInv' /\ ChosenInv'
    BY <2>1 DEF CandInv, CycleInv, ChosenInv
  <2>3. BookInv'
    <3>1. \A p \in book : Kept(p)
      BY DEF CandInv, BookInv
    <3>2. (\A p \in book : Kept(p))'
      BY <2>1, <3>1, KeptStays
    <3>3. Awaited'
      <4>1. Awaited
        BY DEF CandInv, BookInv
      <4> QED BY <2>1, <4>1, ReadyStays DEF Awaited
    <3> QED BY <2>1, <3>2, <3>3 DEF CandInv, BookInv
  <2>4. CandsInv'
    <3>1. CandsInv
      BY DEF CandInv
    <3>2. (\A i \in DOMAIN cands : Ready(cands[i]))'
      BY <2>1, <3>1, ReadyStays DEF CandsInv
    <3>3. OpenRisk' = OpenRisk
      BY <2>1 DEF OpenRisk
    <3>4. (phase \in {"proposer", "admit"} => \A i \in DOMAIN cands : Weighed(cands[i], market))'
      BY <2>1, <3>1, <3>3 DEF CandsInv, Weighed
    <3> QED BY <2>1, <3>1, <3>2, <3>4 DEF CandsInv
  <2>5. OverdueIsUnpriced'
    <3>1. \A p : Overdue(p)' => Overdue(p)
      BY <2>1, ReadyStays DEF Overdue
    <3> QED BY <2>1, <3>1 DEF CandInv, OverdueIsUnpriced
  <2> QED BY <2>2, <2>3, <2>4, <2>5 DEF CandInv
<1> QED BY <1>1, <1>2, <1>3, <1>4, <1>5, <1>6 DEF Next

LEMMA CandAlways == Spec => []CandInv
<1>1. Init => CandInv
  BY CandInit
<1>2. CandInv /\ [Next]_vars => CandInv'
  BY CandStep
<1> QED BY <1>1, <1>2, PTL DEF Spec

-----------------------------------------------------------------------------
(* The theorems.                                                           *)

\* The loss a candidate declares is the worst its legs can do (structures.py),
\* for any chain a feed can quote.
THEOREM LossAlwaysDeclared == Spec => []LossIsDeclared
<1>1. CandInv => LossIsDeclared
  <2> SUFFICES ASSUME CandInv, NEW i \in DOMAIN cands
               PROVE  WorstLoss(cands[i], Far) <= cands[i].unit + 100 * ExtraWing(cands[i])
    BY DEF LossIsDeclared
  <2> DEFINE c == cands[i]
             spots == Far \cup Ends(c)
             f == [s \in spots |-> -Profit(c, s)]
             losses == {f[s] : s \in spots}
  <2>1. Priced(c)
    BY DEF CandInv, CandsInv, Ready
  <2>2. spots \in SUBSET Int
    <3>1. Far \in SUBSET Int
      BY BeyondIsNat DEF Far
    <3>2. \A l \in c.legs : l.strike \in Int
      BY <2>1, BeyondIsNat DEF Priced, Leg
    <3> QED BY <3>1, <3>2 DEF Ends
  <2>3. IsFiniteSet(spots) /\ spots # {}
    <3>1. IsFiniteSet(Far) /\ Far # {}
      <4>1. Far = {0} \cup {Beyond}
        BY DEF Far
      <4>2. IsFiniteSet({0}) /\ IsFiniteSet({Beyond})
        BY FS_Singleton
      <4> QED BY <4>1, <4>2, FS_Union
    <3>2. IsFiniteSet(Ends(c))
      <4> DEFINE g == [l \in c.legs |-> l.strike]
      <4>1. Ends(c) = {g[l] : l \in c.legs}
        BY DEF Ends
      <4>2. IsFiniteSet(c.legs)
        BY <2>1 DEF Priced
      <4> HIDE DEF g, c
      <4> QED BY <4>1, <4>2, ImageIsFinite
    <3> HIDE DEF c
    <3> QED BY <3>1, <3>2, FS_Union
  <2>4. \A s \in spots : f[s] \in Int /\ f[s] <= c.unit + 100 * ExtraWing(c)
    <3>1. \A s \in Int : Payoff(c, s) \in Int /\ -Profit(c, s) <= c.unit + 100 * ExtraWing(c)
                         /\ c.limit \in Int
      BY <2>1 DEF Priced
    <3>2. \A s \in Int : -Profit(c, s) \in Int
      BY <3>1 DEF Profit
    <3> HIDE DEF c
    <3> QED BY <2>2, <3>1, <3>2
  <2>5. WorstLoss(c, Far) = Max(losses)
    <3>1. losses = {-Profit(c, s) : s \in Far \cup Ends(c)}
      OBVIOUS
    <3> HIDE DEF losses, c
    <3> QED BY <3>1, Zenon DEF WorstLoss
  <2>6. losses \in SUBSET Int /\ IsFiniteSet(losses) /\ losses # {}
    <3> HIDE DEF spots, f, c
    <3> QED BY <2>3, <2>4, ImageIsFinite
  <2>7. Max(losses) \in losses
    BY <2>6, MaxIsMax
  <2> HIDE DEF f, spots
  <2>8. PICK s \in spots : Max(losses) = f[s]
    BY <2>7
  <2> QED BY <2>4, <2>5, <2>8
<1> QED BY <1>1, CandAlways, PTL

\* A candidate has the largest quantity its caps allow (sizing.py:70-104,
\* run_cycle), whatever is held.
THEOREM AlwaysSizedToTheCap == Spec => []SizedToTheCap
<1>1. CandInv => SizedToTheCap
  <2> SUFFICES ASSUME CandInv, phase \in {"proposer", "admit"}, NEW i \in DOMAIN cands
               PROVE  LET c       == cands[i]
                          fits(q) == /\ q * c.unit <= EngineLossCap(Cap[c.budget], market.halved)
                                     /\ q * c.unit + OpenRisk <= AtRiskCap
                      IN  fits(c.qty) /\ ~fits(c.qty + 1)
    BY DEF SizedToTheCap
  <2>1. cands[i].unit \in Int /\ Weighed(cands[i], market)
    BY DEF CandInv, CandsInv, Ready, Priced
  <2>2. OpenRisk \in Int
    BY OpenRiskIsInt DEF CandInv, BookInv
  <2> QED BY <2>1, <2>2, WeighedFits
<1> QED BY <1>1, CandAlways, PTL

\* The trend vector bets with the regime (engine.py:95-170), save for the long that a
\* breakout authorizes in risk_off.
THEOREM AlwaysWithTheTape == Spec => []WithTheTape
<1>1. CandInv => WithTheTape
  <2> SUFFICES ASSUME CandInv, NEW i \in DOMAIN cands, cands[i].label \in Directional
               PROVE  CASE Mode(market) = "risk_on" -> Direction(cands[i]) = 1
                        [] Mode(market) = "chop" -> Breakout(market) /\ Direction(cands[i]) = 1
                        [] OTHER -> \/ Direction(cands[i]) = -1
                                    \/ /\ cands[i].label = "trend-single" /\ Breakout(market)
                                       /\ Direction(cands[i]) = 1
    BY DEF WithTheTape
  <2>1. Tape(cands[i].label, Direction(cands[i]), market)
    BY DEF CandInv, CandsInv, Ready
  <2>2. Mode(market) \in {"risk_on", "risk_off", "chop"}
    BY DEF Mode
  <2>3. CASE Mode(market) = "risk_on"
    BY <2>1, <2>3 DEF Tape
  <2>4. CASE Mode(market) = "chop"
    BY <2>1, <2>4 DEF Tape
  <2>5. CASE Mode(market) = "risk_off"
    BY <2>1, <2>5 DEF Tape
  <2> QED BY <2>2, <2>3, <2>4, <2>5
<1> QED BY <1>1, CandAlways, PTL

\* What is traded of a model's answer names candidates, each once, at most the limit
\* and not nothing (proposer.py, _validated and the fallback), for any answer.
THEOREM SelectionAlwaysSound == Spec => []SelectionIsSound
<1>1. CandInv => SelectionIsSound
  <2> SUFFICES ASSUME CandInv PROVE SelectionIsSound
    OBVIOUS
  <2>1. MaxSelected \in Nat
    BY ParametersAssumption
  <2>2. phase \in Phases /\ ChosenInv /\ CandsInv
    BY DEF CandInv, CycleInv
  <2>3. CASE phase \in {"admit", "idle"}
    <3>1. Sound(chosen, Len(cands))
      BY <2>2, <2>3 DEF ChosenInv
    <3>2. (cands # <<>> => Len(cands) > 0) /\ DOMAIN cands = 1 .. Len(cands)
      <4>1. cands \in Seq({cands[i] : i \in DOMAIN cands})
        BY <2>2 DEF CandsInv
      <4> QED BY <4>1
    <3> QED BY <3>1, <3>2 DEF SelectionIsSound, Sound
  <2>4. CASE phase \in {"exits", "engines", "proposer"}
    <3>1. chosen = <<>> /\ phase # "admit"
      BY <2>2, <2>4 DEF ChosenInv
    <3>2. Len(chosen) <= MaxSelected
      BY <2>1, <3>1
    <3> QED BY <3>1, <3>2 DEF SelectionIsSound
  <2> QED BY <2>2, <2>3, <2>4 DEF Phases
<1> QED BY <1>1, CandAlways, PTL

\* An event structure is bought before its event and outlives its exit, and what is
\* opened on the frozen final date dies with it (engine.py, exits.py).
THEOREM EventAlwaysOutlived == Spec => []EventIsOutlived
<1>1. CandInv => EventIsOutlived
  <2> SUFFICES ASSUME CandInv PROVE EventIsOutlived
    OBVIOUS
  <2>1. \A p \in book : Kept(p)
    BY DEF CandInv, BookInv
  <2>2. EarningsDate \in Nat /\ NfpDate \in Nat
    BY ParametersAssumption
  <2> QED BY <2>1, <2>2 DEF EventIsOutlived, Kept
<1> QED BY <1>1, CandAlways, PTL

\* Nothing that a cycle could price is held past its time (exits.py, decide_exit,
\* and _manage_exits), for any schedule whose event days have a sure cycle.
THEOREM OverdueAlwaysUnpriced == Spec => []OverdueIsUnpriced
<1>1. CandInv => OverdueIsUnpriced
  BY DEF CandInv
<1> QED BY <1>1, CandAlways, PTL
===============================================================================
