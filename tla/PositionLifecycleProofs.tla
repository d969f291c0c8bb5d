------------------------ MODULE PositionLifecycleProofs ------------------------
(***************************************************************************)
(* LifecycleInv is inductive for every set of structures, legs, sizes and  *)
(* faults: what a structure records is borne out by its close orders, and  *)
(* no two of these work at once, over crashes and lost answers.  StakeInv  *)
(* is inductive beside it, whatever fails: what the account holds is what  *)
(* the structures have left.  OwnedInv is, while statuses are all that     *)
(* fails: the orphan path finds nothing.                                   *)
(***************************************************************************)
EXTENDS PositionLifecycle, FiniteSums

\* The orders and fills of a sequence of orders, whichever state it is of.
OrderIn(os, g) == {i \in DOMAIN os : os[i].for = g}
Fill(os, S)    == SumFunctionOnSet([i \in DOMAIN os |-> os[i].filled], S)
Sized(os)      == /\ os \in Seq(Order)
                  /\ \A i \in DOMAIN os : /\ os[i].filled <= os[i].size
                                          /\ os[i].working => os[i].filled < os[i].size

\* What orders do over time: fill, end, and be joined by others.
Grown(os, ns) ==
  /\ Sized(os) /\ Sized(ns) /\ DOMAIN os \subseteq DOMAIN ns
  /\ \A i \in DOMAIN os : /\ ns[i].for = os[i].for /\ ns[i].size = os[i].size
                          /\ ns[i].legs = os[i].legs
                          /\ os[i].filled <= ns[i].filled
                          /\ ns[i].working => os[i].working

LEMMA OrdersAre ==
  ASSUME NEW os \in Seq(Order)
  PROVE  /\ Len(os) \in Nat /\ DOMAIN os = 1..Len(os) /\ IsFiniteSet(DOMAIN os)
         /\ \A i \in DOMAIN os : /\ os[i] \in Order /\ os[i].filled \in Nat /\ os[i].size \in Nat
                                 /\ os[i].for \in Groups \cup {Orphan} /\ os[i].legs \in LegSets
<1>1. Len(os) \in Nat /\ DOMAIN os = 1..Len(os)
  OBVIOUS
<1>2. IsFiniteSet(1..Len(os))
  BY <1>1, FS_Interval
<1>3. \A i \in 1..Len(os) : os[i] \in Order
  OBVIOUS
<1>4. \A o \in Order : /\ o.filled \in Nat /\ o.size \in Nat /\ o.legs \in LegSets
                       /\ o.for \in Groups \cup {Orphan}
  BY DEF Order
<1> QED BY <1>1, <1>2, <1>3, <1>4

LEMMA FillFacts ==
  ASSUME NEW os \in Seq(Order), NEW S \in SUBSET DOMAIN os
  PROVE  /\ IsFiniteSet(S) /\ Fill(os, S) \in Nat
         /\ \A i \in S : Fill(os, S) = os[i].filled + Fill(os, S \ {i})
<1> DEFINE f == [i \in DOMAIN os |-> os[i].filled]
<1>1. IsFiniteSet(DOMAIN os)
  BY OrdersAre
<1>2. IsFiniteSet(S)
  BY <1>1, FS_Subset
<1>3. \A i \in DOMAIN os : os[i].filled \in Nat
  BY OrdersAre
<1>4. \A i \in DOMAIN os : f[i] = os[i].filled
  OBVIOUS
<1>5. \A i \in S : f[i] \in Nat /\ f[i] \in Int
  BY <1>3, <1>4
<1> HIDE DEF f
<1>6. SumFunctionOnSet(f, S) \in Nat
  BY <1>2, <1>5, SumGrows
<1>7. \A i \in S : SumFunctionOnSet(f, S) = f[i] + SumFunctionOnSet(f, S \ {i})
  BY <1>2, <1>5, SumSplit
<1>8. \A T : Fill(os, T) = SumFunctionOnSet(f, T)
  BY DEF Fill, f
<1> QED BY <1>2, <1>4, <1>6, <1>7, <1>8

\* Fills of more orders, each filled no less, are no less.
LEMMA FillGrows ==
  ASSUME NEW os \in Seq(Order), NEW ns \in Seq(Order),
         NEW S \in SUBSET DOMAIN os, NEW T \in SUBSET DOMAIN ns, S \subseteq T,
         \A i \in S : os[i].filled <= ns[i].filled
  PROVE  Fill(os, S) <= Fill(ns, T)
<1> DEFINE f == [i \in DOMAIN os |-> os[i].filled]
           g == [i \in DOMAIN ns |-> ns[i].filled]
<1>1. IsFiniteSet(S) /\ IsFiniteSet(T) /\ Fill(os, S) \in Nat
  BY FillFacts
<1>2. /\ \A i \in DOMAIN os : os[i].filled \in Nat
      /\ \A i \in DOMAIN ns : ns[i].filled \in Nat
  BY OrdersAre
<1>3. /\ \A i \in S : f[i] \in Nat /\ g[i] \in Nat /\ f[i] <= g[i]
      /\ \A i \in T : g[i] \in Nat
  BY <1>2
<1>4. Fill(os, S) = SumFunctionOnSet(f, S) /\ \A U : Fill(ns, U) = SumFunctionOnSet(g, U)
  BY DEF Fill
<1> HIDE DEF f, g
<1>5. SumFunctionOnSet(f, S) <= SumFunctionOnSet(g, S)
  BY <1>1, <1>3, SumMonotone
<1>6. SumFunctionOnSet(g, S) <= SumFunctionOnSet(g, T) /\ SumFunctionOnSet(g, S) \in Nat
      /\ SumFunctionOnSet(g, T) \in Nat
  BY <1>1, <1>3, SumGrows
<1> QED BY <1>1, <1>4, <1>5, <1>6

\* Orders filled alike have the same fills.
LEMMA FillSame ==
  ASSUME NEW os \in Seq(Order), NEW ns \in Seq(Order),
         NEW S \in SUBSET DOMAIN os, S \subseteq DOMAIN ns,
         \A i \in S : os[i].filled = ns[i].filled
  PROVE  Fill(os, S) = Fill(ns, S)
<1> DEFINE f == [i \in DOMAIN os |-> os[i].filled]
           g == [i \in DOMAIN ns |-> ns[i].filled]
<1>1. IsFiniteSet(S)
  BY FillFacts
<1>2. \A i \in DOMAIN os : os[i].filled \in Nat
  BY OrdersAre
<1>3. \A i \in S : f[i] \in Int /\ f[i] = g[i]
  BY <1>2
<1>4. Fill(os, S) = SumFunctionOnSet(f, S) /\ Fill(ns, S) = SumFunctionOnSet(g, S)
  BY DEF Fill
<1> HIDE DEF f, g
<1> QED BY <1>1, <1>3, <1>4, SumSame

\* No orders, no fills.
LEMMA FillNothing == \A os : Fill(os, {}) = 0
BY SumEmpty DEF Fill

-----------------------------------------------------------------------------
(* One record against the orders.                                          *)

Unentered == {"none", "pending", "dropped"}
Left(r, g, os) == r.qty + Fill(os, OrderIn(os, g) \ {r.close})
BorneOut(r, g, os) ==
  /\ r.close # 0 => r.stage = "open" /\ r.close \in OrderIn(os, g) /\ os[r.close].size = r.qty
  /\ r.stage \in Unentered => OrderIn(os, g) = {}
  /\ r.stage = "open" => r.qty > 0 /\ Left(r, g, os) >= Size[g]
  /\ r.stage = "closed" => Fill(os, OrderIn(os, g)) >= Size[g]
Exactly(r, g, os) ==
  /\ \A i \in OrderIn(os, g) : os[i].working => i = r.close
  /\ r.stage = "open" => Left(r, g, os) = Size[g]

\* The invariant in those terms, now and after a step.
LEMMA InTheseTerms ==
  /\ \A b : Accounted(b) <=> \A g \in Groups : BorneOut(b[g], g, orders)
  /\ (Recorded /\ LotsAreKnown) <=> \A g \in Groups : Exactly(book[g], g, orders)
BY DEF Accounted, BorneOut, Unentered, Left, OrdersOf, OrderIn, FilledBy, Fill, Recorded,
       LotsAreKnown, Exactly, Working, Open

LEMMA InTheseTermsThen ==
  /\ Accounted(ledger)' <=> \A g \in Groups : BorneOut(ledger'[g], g, orders')
  /\ Accounted(book)' <=> \A g \in Groups : BorneOut(book'[g], g, orders')
  /\ (Recorded /\ LotsAreKnown)' <=> \A g \in Groups : Exactly(book'[g], g, orders')
BY DEF Accounted, BorneOut, Unentered, Left, OrdersOf, OrderIn, FilledBy, Fill, Recorded,
       LotsAreKnown, Exactly, Working, Open
\* A record stays borne out while orders fill, end and are joined by others.
LEMMA GrownBorneOut ==
  ASSUME NEW r \in Record, NEW g \in Groups, NEW os, NEW ns, Grown(os, ns), BorneOut(r, g, os),
         r.stage \in Unentered => \A i \in DOMAIN ns \ DOMAIN os : ns[i].for # g
  PROVE  BorneOut(r, g, ns)
<1>1. /\ os \in Seq(Order) /\ ns \in Seq(Order)
      /\ OrderIn(os, g) \in SUBSET DOMAIN os /\ OrderIn(ns, g) \in SUBSET DOMAIN ns
      /\ OrderIn(os, g) \subseteq OrderIn(ns, g)
      /\ \A i \in OrderIn(os, g) : os[i].filled <= ns[i].filled
      /\ \A i \in OrderIn(os, g) : ns[i].size = os[i].size
  BY DEF Grown, Sized, OrderIn
<1>2. \A c : /\ Fill(os, OrderIn(os, g) \ {c}) <= Fill(ns, OrderIn(ns, g) \ {c})
             /\ Fill(os, OrderIn(os, g) \ {c}) \in Nat /\ Fill(ns, OrderIn(ns, g) \ {c}) \in Nat
  <2> TAKE c
  <2>1. /\ OrderIn(os, g) \ {c} \in SUBSET DOMAIN os /\ OrderIn(ns, g) \ {c} \in SUBSET DOMAIN ns
        /\ OrderIn(os, g) \ {c} \subseteq OrderIn(ns, g) \ {c}
        /\ \A i \in OrderIn(os, g) \ {c} : os[i].filled <= ns[i].filled
    BY <1>1
  <2> QED BY <1>1, <2>1, FillGrows, FillFacts
<1>3. /\ Fill(os, OrderIn(os, g)) <= Fill(ns, OrderIn(ns, g))
      /\ Fill(os, OrderIn(os, g)) \in Nat /\ Fill(ns, OrderIn(ns, g)) \in Nat
  BY <1>1, FillGrows, FillFacts
<1>4. r.qty \in Nat /\ Size[g] \in Nat
  BY LifecycleAssumption DEF Record
<1>5. r.stage \in Unentered => OrderIn(ns, g) = {}
  BY <1>1 DEF BorneOut, OrderIn, Grown
<1>6. r.stage = "open" => r.qty > 0 /\ Left(r, g, ns) >= Size[g]
  <2>1. /\ Left(r, g, os) = r.qty + Fill(os, OrderIn(os, g) \ {r.close})
        /\ Left(r, g, ns) = r.qty + Fill(ns, OrderIn(ns, g) \ {r.close})
    BY DEF Left
  <2>2. Left(r, g, os) <= Left(r, g, ns) /\ Left(r, g, os) \in Nat /\ Left(r, g, ns) \in Nat
    <3> DEFINE before == Fill(os, OrderIn(os, g) \ {r.close})
               after  == Fill(ns, OrderIn(ns, g) \ {r.close})
    <3>1. before <= after /\ before \in Nat /\ after \in Nat
      BY <1>2
    <3>2. Left(r, g, os) = r.qty + before /\ Left(r, g, ns) = r.qty + after
      BY <2>1
    <3> HIDE DEF before, after
    <3> QED BY <1>4, <3>1, <3>2
  <2>3. r.stage = "open" => r.qty > 0 /\ Left(r, g, os) >= Size[g]
    BY DEF BorneOut
  <2> QED BY <1>4, <2>2, <2>3
<1>7. r.stage = "closed" => Fill(ns, OrderIn(ns, g)) >= Size[g]
  BY <1>3, <1>4 DEF BorneOut
<1> QED BY <1>1, <1>5, <1>6, <1>7 DEF BorneOut

\* It says exactly what is left while no order but its own fills or comes.
LEMMA StillExactly ==
  ASSUME NEW r, NEW g \in Groups, NEW os, NEW ns, Grown(os, ns), Exactly(r, g, os),
         \A i \in DOMAIN ns \ DOMAIN os : ns[i].for # g,
         \A i \in OrderIn(os, g) \ {r.close} : ns[i].filled = os[i].filled
  PROVE  Exactly(r, g, ns)
<1>1. OrderIn(ns, g) = OrderIn(os, g)
  BY DEF OrderIn, Grown
<1>2. Fill(os, OrderIn(os, g) \ {r.close}) = Fill(ns, OrderIn(os, g) \ {r.close})
  <2>1. /\ os \in Seq(Order) /\ ns \in Seq(Order)
        /\ OrderIn(os, g) \ {r.close} \in SUBSET DOMAIN os
        /\ OrderIn(os, g) \ {r.close} \subseteq DOMAIN ns
    BY DEF Grown, Sized, OrderIn
  <2> QED BY <2>1, FillSame
<1>3. \A i \in OrderIn(os, g) : ns[i].working => i = r.close
  BY DEF Exactly, Grown, OrderIn
<1> QED BY <1>1, <1>2, <1>3 DEF Exactly, Left

\* What the operations on a record leave in its fields.
LEMMA RecordOps ==
  ASSUME NEW r \in Record
  PROVE  /\ Quarantine(r) = [stage |-> r.stage, qty |-> r.qty, close |-> r.close,
                             quarantined |-> TRUE, remainder |-> r.remainder]
         /\ Closed(r) = [stage |-> "closed", qty |-> r.qty, close |-> 0,
                         quarantined |-> FALSE, remainder |-> r.remainder]
         /\ Release(r) = [stage |-> r.stage, qty |-> r.qty, close |-> 0,
                          quarantined |-> r.quarantined, remainder |-> r.remainder]
         /\ \A n : Reduce(r, n) = [stage |-> r.stage, qty |-> r.qty - n, close |-> 0,
                                   quarantined |-> r.quarantined, remainder |-> TRUE]
<1>1. Quarantine(r) = [r EXCEPT !.quarantined = TRUE]
  BY DEF Quarantine
<1>2. Closed(r) = [r EXCEPT !.stage = "closed", !.close = 0, !.quarantined = FALSE]
  BY DEF Closed
<1>3. Release(r) = [r EXCEPT !.close = 0]
  BY DEF Release
<1>4. \A n : Reduce(r, n) = [r EXCEPT !.qty = r.qty - n, !.close = 0, !.remainder = TRUE]
  BY DEF Reduce
<1>5. Quarantine(r) = [stage |-> r.stage, qty |-> r.qty, close |-> r.close,
                       quarantined |-> TRUE, remainder |-> r.remainder]
  BY <1>1 DEF Record
<1>6. Closed(r) = [stage |-> "closed", qty |-> r.qty, close |-> 0,
                   quarantined |-> FALSE, remainder |-> r.remainder]
  BY <1>2 DEF Record
<1>7. Release(r) = [stage |-> r.stage, qty |-> r.qty, close |-> 0,
                    quarantined |-> r.quarantined, remainder |-> r.remainder]
  BY <1>3 DEF Record
<1>8. ASSUME NEW n
      PROVE  Reduce(r, n) = [stage |-> r.stage, qty |-> r.qty - n, close |-> 0,
                             quarantined |-> r.quarantined, remainder |-> TRUE]
  <2> DEFINE m == r.qty - n
  <2>1. Reduce(r, n) = [r EXCEPT !.qty = m, !.close = 0, !.remainder = TRUE]
    BY <1>4
  <2> HIDE DEF m
  <2>2. Reduce(r, n) = [stage |-> r.stage, qty |-> m, close |-> 0,
                        quarantined |-> r.quarantined, remainder |-> TRUE]
    BY <2>1 DEF Record
  <2> QED BY <2>2 DEF m
<1> QED BY <1>5, <1>6, <1>7, <1>8

\* Putting a structure aside changes nothing the orders can contradict.
LEMMA Quarantined ==
  ASSUME NEW r \in Record, NEW g, NEW os
  PROVE  /\ Quarantine(r) \in Record
         /\ Quarantine(r).stage = r.stage /\ Quarantine(r).close = r.close
         /\ BorneOut(r, g, os) => BorneOut(Quarantine(r), g, os)
         /\ Exactly(r, g, os) => Exactly(Quarantine(r), g, os)
<1> DEFINE q == Quarantine(r)
<1>1. q = [stage |-> r.stage, qty |-> r.qty, close |-> r.close, quarantined |-> TRUE,
           remainder |-> r.remainder]
  BY RecordOps
<1>2. q \in Record
  BY <1>1 DEF Record
<1>3. q.stage = r.stage /\ q.close = r.close /\ q.qty = r.qty
  BY <1>1
<1> HIDE DEF q
<1>4. Left(q, g, os) = Left(r, g, os)
  BY <1>3 DEF Left
<1>5. (BorneOut(r, g, os) => BorneOut(q, g, os)) /\ (Exactly(r, g, os) => Exactly(q, g, os))
  BY <1>3, <1>4 DEF BorneOut, Exactly
<1> QED BY <1>2, <1>3, <1>5 DEF q

\* A structure no order was ever sent for is entered in full.
LEMMA EnteredRight ==
  ASSUME NEW g \in Groups, NEW os, OrderIn(os, g) = {}
  PROVE  Entered(g) \in Record /\ BorneOut(Entered(g), g, os) /\ Exactly(Entered(g), g, os)
<1>1. Size[g] \in Nat \ {0} /\ MaxOrders \in Nat
  BY LifecycleAssumption
<1>2. Entered(g) \in Record
  BY <1>1 DEF Entered, Record, Stages
<1>3. /\ Entered(g).close = 0 /\ Entered(g).stage = "open" /\ Entered(g).qty = Size[g]
  BY DEF Entered
<1>4. Left(Entered(g), g, os) = Size[g]
  <2>1. OrderIn(os, g) \ {0} = {}
    OBVIOUS
  <2> QED BY <1>1, <1>3, <2>1, FillNothing DEF Left
<1> QED BY <1>1, <1>2, <1>3, <1>4 DEF BorneOut, Exactly, Unentered

-----------------------------------------------------------------------------
\* _reconcile_close: whatever the broker says of a close, the record it leaves
\* is borne out, and it stops waiting only for an order that is over.
LEMMA Resolved ==
  ASSUME TypeOK, NEW g \in Groups, BorneOut(book[g], g, orders),
         book[g].stage = "open", book[g].close # 0
  PROVE  /\ Resolution(g) \in Record
         /\ Resolution(g).close \in {0, book[g].close}
         /\ Resolution(g).stage \in {"open", "closed"}
         /\ BorneOut(Resolution(g), g, orders)
         /\ Exactly(book[g], g, orders) => Exactly(Resolution(g), g, orders)
         /\ Resolution(g).close = 0 => ~orders[book[g].close].working
<1> DEFINE r == book[g]
           c == r.close
           o == orders[c]
           S == OrderIn(orders, g)
<1>1. /\ r \in Record /\ r.qty \in Nat /\ r.qty > 0 /\ c \in S /\ c # 0 /\ o.size = r.qty
      /\ r.stage = "open" /\ orders \in Seq(Order)
  BY DEF BorneOut, TypeOK, Record
<1>2. /\ S \in SUBSET DOMAIN orders /\ o.filled \in Nat /\ o.filled <= o.size
      /\ o.working => o.filled < o.size
  BY <1>1, OrdersAre DEF OrderIn, TypeOK
<1>3. /\ Fill(orders, S \ {c}) \in Nat /\ Fill(orders, S) = o.filled + Fill(orders, S \ {c})
      /\ S \ {0} = S
  <2>1. S \ {c} \in SUBSET DOMAIN orders
    BY <1>2
  <2>2. 0 \notin DOMAIN orders
    BY <1>1, OrdersAre
  <2> QED BY <1>1, <1>2, <2>1, <2>2, FillFacts
<1>4. Left(r, g, orders) = r.qty + Fill(orders, S \ {c}) /\ Left(r, g, orders) >= Size[g]
  BY <1>1 DEF Left, BorneOut
<1>5. Size[g] \in Nat
  BY LifecycleAssumption
<1>7. CASE Done(r, o)
  <2> DEFINE q == Closed(r)
  <2>1. Resolution(g) = q
    BY <1>1, <1>2, <1>7 DEF Resolution, Done, Over
  <2>2. q = [stage |-> "closed", qty |-> r.qty, close |-> 0, quarantined |-> FALSE,
             remainder |-> r.remainder]
    BY <1>1, RecordOps
  <2>3. q \in Record
    BY <1>1, <2>2, LifecycleAssumption DEF Record, Stages
  <2>4. q.stage = "closed" /\ q.close = 0
    BY <2>2
  <2>5. Fill(orders, S) >= Size[g] /\ ~o.working
    BY <1>1, <1>2, <1>3, <1>4, <1>5, <1>7 DEF Done
  <2>6. BorneOut(q, g, orders)
    BY <2>4, <2>5 DEF BorneOut, Unentered
  <2>7. Exactly(r, g, orders) => Exactly(q, g, orders)
    BY <2>4, <2>5 DEF Exactly
  <2> HIDE DEF q
  <2> QED BY <2>1, <2>3, <2>4, <2>5, <2>6, <2>7
<1>8. CASE ~Done(r, o) /\ Over(o) /\ o.filled = 0
  <2> DEFINE q == Release(r)
  <2>1. Resolution(g) = q
    BY <1>1, <1>2, <1>8 DEF Resolution, Done, Over
  <2>2. q = [stage |-> r.stage, qty |-> r.qty, close |-> 0, quarantined |-> r.quarantined,
             remainder |-> r.remainder]
    BY <1>1, RecordOps
  <2>3. q \in Record
    BY <1>1, <2>2, LifecycleAssumption DEF Record
  <2>4. q.stage = "open" /\ q.close = 0 /\ q.qty = r.qty
    BY <1>1, <2>2
  <2>5. Left(q, g, orders) = Left(r, g, orders) /\ ~o.working
    <3>1. Left(q, g, orders) = r.qty + Fill(orders, S)
      BY <1>3, <2>4 DEF Left
    <3>2. Fill(orders, S) = Fill(orders, S \ {c})
      BY <1>3, <1>8
    <3> QED BY <1>4, <1>8, <3>1, <3>2 DEF Over
  <2>6. BorneOut(q, g, orders)
    BY <1>1, <1>4, <2>4, <2>5 DEF BorneOut, Unentered
  <2>7. Exactly(r, g, orders) => Exactly(q, g, orders)
    BY <1>1, <2>4, <2>5 DEF Exactly
  <2> HIDE DEF q
  <2> QED BY <2>1, <2>3, <2>4, <2>5, <2>6, <2>7
<1>9. CASE ~Done(r, o) /\ ~Over(o) /\ o.filled = 0
  <2>1. Resolution(g) = r
    BY <1>1, <1>2, <1>9 DEF Resolution, Done, Over
  <2> QED BY <1>1, <2>1
<1>10. CASE ~Done(r, o) /\ o.filled > 0 /\ Over(o) /\ Confirmed(g, o.filled)
  <2> DEFINE q == Reduce(r, o.filled)
  <2>1. Resolution(g) = q
    BY <1>1, <1>2, <1>10 DEF Resolution, Done, Over
  <2>2. q = [stage |-> r.stage, qty |-> r.qty - o.filled, close |-> 0,
             quarantined |-> r.quarantined, remainder |-> TRUE]
    BY <1>1, RecordOps
  <2>3. o.filled < r.qty /\ r.qty - o.filled \in Nat /\ r.qty - o.filled > 0
    BY <1>1, <1>2, <1>10 DEF Confirmed
  <2>4. q \in Record
    BY <1>1, <2>2, <2>3, LifecycleAssumption DEF Record
  <2>5. q.stage = "open" /\ q.close = 0 /\ q.qty = r.qty - o.filled
    BY <1>1, <2>2
  <2>6. Left(q, g, orders) = Left(r, g, orders)
    <3>1. Left(q, g, orders) = (r.qty - o.filled) + (o.filled + Fill(orders, S \ {c}))
      BY <1>3, <2>5 DEF Left
    <3>2. \A x, y, z \in Int : (x - y) + (y + z) = x + z
      OBVIOUS
    <3> QED BY <1>1, <1>2, <1>3, <1>4, <3>1, <3>2
  <2>7. ~o.working
    BY <1>10 DEF Over
  <2>8. BorneOut(q, g, orders)
    BY <1>4, <2>3, <2>5, <2>6 DEF BorneOut, Unentered
  <2>9. Exactly(r, g, orders) => Exactly(q, g, orders)
    BY <1>1, <2>5, <2>6, <2>7 DEF Exactly
  <2> HIDE DEF q
  <2> QED BY <2>1, <2>4, <2>5, <2>7, <2>8, <2>9
<1>11. CASE ~Done(r, o) /\ o.filled > 0 /\ ~(Over(o) /\ Confirmed(g, o.filled))
  <2>1. Resolution(g) = Quarantine(r)
    BY <1>1, <1>2, <1>11 DEF Resolution, Done, Over
  <2> QED BY <1>1, <2>1, Quarantined
<1> QED BY <1>2, <1>7, <1>8, <1>9, <1>10, <1>11
-----------------------------------------------------------------------------
(* What the steps do to the orders.                                        *)

\* A close is sent.
Sending(os, ns, o) == ns = Append(os, o) /\ o \in Order /\ o.filled = 0 /\ o.size > 0
Extended(os, ns, o) ==
  /\ Grown(os, ns) /\ Len(ns) = Len(os) + 1 /\ Len(ns) \in Nat /\ Len(ns) # 0
  /\ Len(ns) \notin DOMAIN os /\ DOMAIN ns = DOMAIN os \cup {Len(ns)}
  /\ ns[Len(ns)] = o
  /\ \A i \in DOMAIN os : ns[i] = os[i]
LEMMA Sent ==
  ASSUME NEW os, Sized(os), NEW o, NEW ns, Sending(os, ns, o)
  PROVE  Extended(os, ns, o)
<1>1. /\ os \in Seq(Order) /\ ns \in Seq(Order) /\ ns = Append(os, o)
      /\ o \in Order /\ o.filled = 0 /\ o.size > 0
  BY DEF Sized, Sending
<1>2. Len(os) \in Nat /\ DOMAIN os = 1..Len(os)
  BY <1>1, OrdersAre
<1>3. /\ Len(ns) = Len(os) + 1 /\ DOMAIN ns = 1..(Len(os) + 1)
      /\ ns[Len(os) + 1] = o /\ \A i \in 1..Len(os) : ns[i] = os[i]
  BY <1>1, <1>2
<1>4. /\ Len(ns) \in Nat /\ Len(ns) # 0 /\ Len(ns) \notin DOMAIN os
      /\ DOMAIN ns = DOMAIN os \cup {Len(ns)} /\ ns[Len(ns)] = o
  BY <1>2, <1>3
<1>5. Sized(ns)
  <2> SUFFICES ASSUME NEW i \in DOMAIN ns
               PROVE  ns[i].filled <= ns[i].size /\ (ns[i].working => ns[i].filled < ns[i].size)
    BY <1>1 DEF Sized
  <2>1. CASE i \in DOMAIN os
    BY <1>2, <1>3, <2>1 DEF Sized
  <2>2. CASE i = Len(ns)
    <3>1. ns[i] = o /\ o.filled = 0 /\ o.size \in Nat /\ o.size > 0
      BY <1>1, <1>4, <2>2 DEF Order
    <3>2. \A a, b \in Int : a = 0 /\ b > 0 => a <= b /\ a < b
      OBVIOUS
    <3> QED BY <3>1, <3>2
  <2> QED BY <1>4, <2>1, <2>2
<1>6. \A i \in DOMAIN os : os[i].filled \in Nat
  BY <1>1, OrdersAre
<1>7. Grown(os, ns)
  BY <1>2, <1>3, <1>4, <1>5, <1>6 DEF Grown
<1> QED BY <1>2, <1>3, <1>4, <1>7 DEF Extended

\* Orders that stop working.
LEMMA Stopped ==
  ASSUME NEW os, Sized(os), NEW ns, NEW C,
         ns = [i \in DOMAIN os |-> IF i \in C THEN [os[i] EXCEPT !.working = FALSE] ELSE os[i]]
  PROVE  /\ Grown(os, ns) /\ DOMAIN ns = DOMAIN os /\ Len(ns) = Len(os)
         /\ \A i \in DOMAIN os : ns[i].filled = os[i].filled /\ (ns[i].working => i \notin C)
<1>1. os \in Seq(Order) /\ Len(os) \in Nat /\ DOMAIN os = 1..Len(os)
  BY OrdersAre DEF Sized
<1>2. ASSUME NEW i \in DOMAIN os
      PROVE  /\ ns[i] \in Order /\ ns[i].for = os[i].for /\ ns[i].size = os[i].size
             /\ ns[i].legs = os[i].legs /\ ns[i].filled = os[i].filled
             /\ ns[i].working => os[i].working /\ i \notin C
  <2>1. os[i] \in Order
    BY <1>1, OrdersAre
  <2>2. ns[i] = os[i] \/ ns[i] = [os[i] EXCEPT !.working = FALSE]
    OBVIOUS
  <2> QED BY <2>1, <2>2 DEF Order
<1>3. ns \in Seq(Order) /\ DOMAIN ns = DOMAIN os
  BY <1>1, <1>2
<1>4. Len(ns) = Len(os)
  BY <1>1, <1>3, OrdersAre
<1>5. \A i \in DOMAIN os : os[i].filled \in Nat
  BY <1>1, OrdersAre
<1>6. Sized(ns)
  BY <1>2, <1>3 DEF Sized
<1> QED BY <1>2, <1>3, <1>4, <1>5, <1>6 DEF Grown

\* One more unit of a working order.
LEMMA Filling ==
  ASSUME NEW os, Sized(os), NEW ns, NEW k \in DOMAIN os, os[k].working,
         ns = [os EXCEPT ![k].filled = os[k].filled + 1,
                         ![k].working = os[k].filled + 1 < os[k].size]
  PROVE  /\ Grown(os, ns) /\ DOMAIN ns = DOMAIN os /\ Len(ns) = Len(os)
         /\ \A i \in DOMAIN os : ~os[i].working => ns[i].filled = os[i].filled
<1>1. os \in Seq(Order) /\ Len(os) \in Nat /\ DOMAIN os = 1..Len(os)
  BY OrdersAre DEF Sized
<1>2. /\ os[k] \in Order /\ os[k].filled \in Nat /\ os[k].size \in Nat
      /\ os[k].filled < os[k].size
  BY <1>1, OrdersAre DEF Sized
<1> DEFINE f == os[k].filled + 1
           w == f < os[k].size
<1>3. f \in Nat /\ f <= os[k].size /\ os[k].filled <= f /\ w \in BOOLEAN
  BY <1>2
<1>4. ns = [os EXCEPT ![k] = [os[k] EXCEPT !.filled = f, !.working = w]]
  OBVIOUS
<1>5. w => f < os[k].size
  OBVIOUS
<1> HIDE DEF f, w
<1>6. /\ ns[k] = [os[k] EXCEPT !.filled = f, !.working = w]
      /\ DOMAIN ns = DOMAIN os /\ \A i \in DOMAIN os \ {k} : ns[i] = os[i]
  BY <1>1, <1>4
<1>7. /\ ns[k] \in Order /\ ns[k].for = os[k].for /\ ns[k].size = os[k].size
      /\ ns[k].legs = os[k].legs /\ ns[k].filled = f /\ ns[k].working = w
  BY <1>2, <1>3, <1>6 DEF Order
<1>8. ns \in Seq(Order)
  <2>1. \A i \in 1..Len(os) : ns[i] \in Order
    BY <1>1, <1>6, <1>7, OrdersAre
  <2>2. ns = [i \in 1..Len(os) |-> ns[i]]
    BY <1>1, <1>4
  <2>3. ns \in [1..Len(os) -> Order]
    BY <2>1, <2>2
  <2>4. \A n \in Nat : [1..n -> Order] \subseteq Seq(Order)
    OBVIOUS
  <2> QED BY <1>1, <2>3, <2>4
<1>9. Len(ns) = Len(os)
  BY <1>1, <1>6, <1>8, OrdersAre
<1>10. \A i \in DOMAIN os : os[i].filled \in Nat
  BY <1>1, OrdersAre
<1>11. Sized(ns)
  BY <1>3, <1>5, <1>6, <1>7, <1>8 DEF Sized
<1> QED BY <1>3, <1>6, <1>7, <1>9, <1>10, <1>11 DEF Grown, Sized

\* The working orders of an owner, whichever state they are of.
Live(os, owner) == {i \in OrderIn(os, owner) : os[i].working}
\* What SingleInv says, of any orders, records, phase and list.
Alone(os) ==
  /\ \A g \in Groups : \A i, j \in Live(os, g) : i = j
  /\ \A x \in Symbols : \A i, j \in Live(os, Orphan) :
       x \in DOMAIN os[i].legs /\ x \in DOMAIN os[j].legs => i = j
Apart(os, b, p, t) ==
  /\ Alone(os)
  /\ p \in {"entries", "closes", "claims"} => \A g \in Groups : Live(os, g) \subseteq {b[g].close}
  /\ p = "exits" => \A g \in t : Live(os, g) = {}
  /\ p \in {"entries", "closes", "claims", "exits"} => Live(os, Orphan) = {}
  /\ p = "orphans" => \A x \in t : \A i \in Live(os, Orphan) : x \notin DOMAIN os[i].legs
WholeIn(os) == \A g \in Groups : \A i \in OrderIn(os, g) : DOMAIN os[i].legs = DOMAIN Legs[g]

\* The invariant taken apart, and put together again after a step.
LEMMA Taken ==
  ASSUME LifecycleInv
  PROVE  /\ TypeOK /\ PhaseInv /\ Sized(orders)
         /\ \A g \in Groups : /\ ledger[g] \in Record /\ BorneOut(ledger[g], g, orders)
                              /\ book[g] \in Record /\ BorneOut(book[g], g, orders)
         /\ Faults \cap {"crash", "reply"} = {} => \A g \in Groups : Exactly(book[g], g, orders)
         /\ "unpriced" \notin Faults => WholeIn(orders)
         /\ "lookup" \notin Faults => Apart(orders, book, pc, todo)
<1>1. TypeOK /\ PhaseInv /\ Accounted(ledger) /\ Accounted(book)
  BY DEF LifecycleInv
<1>2. Sized(orders)
  BY <1>1 DEF TypeOK, Sized
<1>3. \A g \in Groups : /\ ledger[g] \in Record /\ BorneOut(ledger[g], g, orders)
                        /\ book[g] \in Record /\ BorneOut(book[g], g, orders)
  BY <1>1, InTheseTerms DEF TypeOK
<1>4. Faults \cap {"crash", "reply"} = {} => \A g \in Groups : Exactly(book[g], g, orders)
  BY InTheseTerms DEF LifecycleInv, LotsInv
<1>5. "unpriced" \notin Faults => WholeIn(orders)
  BY DEF LifecycleInv, WholeInv, WholeIn, OrdersOf, OrderIn
<1>6. "lookup" \notin Faults => Apart(orders, book, pc, todo)
  BY DEF LifecycleInv, SingleInv, Apart, Alone, Recorded, OrdersOf, Working, Live, OrderIn, WithLeg
<1> QED BY <1>1, <1>2, <1>3, <1>4, <1>5, <1>6

LEMMA Together ==
  ASSUME TypeOK', PhaseInv',
         \A g \in Groups : BorneOut(ledger'[g], g, orders') /\ BorneOut(book'[g], g, orders'),
         Faults \cap {"crash", "reply"} = {} => \A g \in Groups : Exactly(book'[g], g, orders'),
         "unpriced" \notin Faults => WholeIn(orders'),
         "lookup" \notin Faults => Apart(orders', book', pc', todo')
  PROVE  LifecycleInv'
<1>1. Accounted(ledger)' /\ Accounted(book)' /\ LotsInv'
  BY InTheseTermsThen DEF LotsInv
<1>2. WholeInv'
  BY DEF WholeInv, WholeIn, OrdersOf, OrderIn
<1>3. SingleInv'
  BY DEF SingleInv, Apart, Alone, Recorded, OrdersOf, Working, Live, OrderIn, WithLeg
<1> QED BY <1>1, <1>2, <1>3 DEF LifecycleInv

-----------------------------------------------------------------------------
(* What growing orders leave alone.                                        *)

LEMMA StillBorneOut ==
  ASSUME LifecycleInv, UNCHANGED <<ledger, book>>, Grown(orders, orders'),
         \A i \in DOMAIN orders' \ DOMAIN orders : \A g \in Groups :
            orders'[i].for = g => book[g].stage \notin Unentered
  PROVE  \A g \in Groups : BorneOut(ledger'[g], g, orders') /\ BorneOut(book'[g], g, orders')
<1> TAKE g \in Groups
<1>1. /\ ledger[g] \in Record /\ BorneOut(ledger[g], g, orders)
      /\ book[g] \in Record /\ BorneOut(book[g], g, orders)
  BY Taken
<1>2. book[g].stage = ledger[g].stage \/ ledger[g].stage = "open"
  BY Taken DEF PhaseInv
<1>3. ledger[g].stage \in Unentered => book[g].stage \in Unentered
  BY <1>2 DEF Unentered
<1> QED BY <1>1, <1>3, GrownBorneOut

LEMMA StillExact ==
  ASSUME LifecycleInv, UNCHANGED book, Grown(orders, orders'),
         \A i \in DOMAIN orders' \ DOMAIN orders : orders'[i].for \notin Groups,
         \A i \in DOMAIN orders : ~orders[i].working => orders'[i].filled = orders[i].filled
  PROVE  Faults \cap {"crash", "reply"} = {} => \A g \in Groups : Exactly(book'[g], g, orders')
<1> SUFFICES ASSUME Faults \cap {"crash", "reply"} = {}, NEW g \in Groups
             PROVE  Exactly(book[g], g, orders')
  OBVIOUS
<1>1. Exactly(book[g], g, orders)
  BY Taken
<1>2. \A i \in OrderIn(orders, g) \ {book[g].close} : orders'[i].filled = orders[i].filled
  BY <1>1 DEF Exactly, OrderIn
<1> QED BY <1>1, <1>2, StillExactly

LEMMA StillWhole ==
  ASSUME LifecycleInv, Grown(orders, orders'),
         "unpriced" \notin Faults =>
           \A i \in DOMAIN orders' \ DOMAIN orders : \A g \in Groups :
              orders'[i].for = g => DOMAIN orders'[i].legs = DOMAIN Legs[g]
  PROVE  "unpriced" \notin Faults => WholeIn(orders')
<1>1. "unpriced" \notin Faults => WholeIn(orders)
  BY Taken
<1> QED BY <1>1 DEF WholeIn, OrderIn, Grown

LEMMA StillApart ==
  ASSUME NEW os, NEW ns, Grown(os, ns), DOMAIN ns = DOMAIN os,
         NEW b, NEW p, NEW t, NEW q, NEW u, Apart(os, b, p, t),
         \/ q = p /\ u \subseteq t
         \/ q \notin {"entries", "closes", "claims", "exits", "orphans"}
  PROVE  Apart(ns, b, q, u)
<1>1. /\ \A g : Live(ns, g) \subseteq Live(os, g)
      /\ \A i \in DOMAIN os : ns[i].legs = os[i].legs
      /\ \A g : Live(os, g) \subseteq DOMAIN os
  BY DEF Live, OrderIn, Grown
<1>2. Alone(ns)
  BY <1>1 DEF Apart, Alone
<1> QED BY <1>1, <1>2 DEF Apart

LEMMA NotGrown ==
  ASSUME NEW os, Sized(os)
  PROVE  Grown(os, os)
<1>1. \A i \in DOMAIN os : os[i].filled \in Nat
  BY OrdersAre DEF Sized
<1> QED BY <1>1 DEF Grown

\* A step that only moves the cycle on, or the world it does not look at.
LEMMA Onward ==
  ASSUME LifecycleInv, UNCHANGED <<ledger, book, orders>>, TypeOK', PhaseInv',
         "lookup" \notin Faults => Apart(orders, book, pc', todo')
  PROVE  LifecycleInv'
<1>1. Grown(orders, orders') /\ DOMAIN orders' = DOMAIN orders
  BY Taken, NotGrown
<1>2. \A g \in Groups : BorneOut(ledger'[g], g, orders') /\ BorneOut(book'[g], g, orders')
  BY <1>1, StillBorneOut
<1>3. Faults \cap {"crash", "reply"} = {} => \A g \in Groups : Exactly(book'[g], g, orders')
  BY <1>1, StillExact
<1>4. "unpriced" \notin Faults => WholeIn(orders')
  BY <1>1, StillWhole
<1> QED BY <1>2, <1>3, <1>4, Together
-----------------------------------------------------------------------------
(* The steps that leave records and orders alone.                          *)

LEMMA Lists ==
  ASSUME PhaseInv
  PROVE  /\ pc = "closes" => todo \subseteq {g \in Open(book) : book[g].close # 0}
         /\ pc = "exits" => todo \subseteq {g \in Open(book) : book[g].close = 0}
         /\ pc = "orphans" => todo \subseteq {x \in Symbols : snap[x] # 0}
         /\ pc \notin {"closes", "exits", "orphans"} => todo = {}
         /\ pc \notin InManage => book = ledger
         /\ \A g \in Groups : \/ book[g].stage = ledger[g].stage
                              \/ book[g].stage = "closed" /\ ledger[g].stage = "open"
BY DEF PhaseInv

LEMMA ListsThen ==
  ASSUME pc' = "closes" => todo' \subseteq {g \in Open(book') : book'[g].close # 0},
         pc' = "exits" => todo' \subseteq {g \in Open(book') : book'[g].close = 0},
         pc' = "orphans" => todo' \subseteq {x \in Symbols : snap'[x] # 0},
         pc' \notin {"closes", "exits", "orphans"} => todo' = {},
         pc' \notin InManage => book' = ledger',
         \A g \in Groups : \/ book'[g].stage = ledger'[g].stage
                           \/ book'[g].stage = "closed" /\ ledger'[g].stage = "open"
  PROVE  PhaseInv'
BY DEF PhaseInv, Open

LEMMA BeginStep == LifecycleInv /\ Begin => LifecycleInv'
<1> SUFFICES ASSUME LifecycleInv, Begin PROVE LifecycleInv'
  OBVIOUS
<1>1. /\ pc = "idle" /\ pc' = "cleanup" /\ snap' = position
      /\ UNCHANGED <<ledger, book, orders, entry, position, todo>>
  BY DEF Begin, broker
<1>2. TypeOK' /\ PhaseInv'
  BY <1>1, Taken, Lists, ListsThen DEF TypeOK, Phases, InManage
<1>3. "lookup" \notin Faults => Apart(orders, book, pc', todo')
  BY <1>1, Taken DEF Apart
<1> QED BY <1>1, <1>2, <1>3, Onward

LEMMA ClosesDoneStep == LifecycleInv /\ ClosesDone => LifecycleInv'
<1> SUFFICES ASSUME LifecycleInv, ClosesDone PROVE LifecycleInv'
  OBVIOUS
<1>1. /\ pc = "closes" /\ pc' = "claims" /\ todo = {}
      /\ UNCHANGED <<ledger, book, orders, entry, position, snap, todo>>
  BY DEF ClosesDone, broker
<1>2. TypeOK' /\ PhaseInv'
  BY <1>1, Taken, Lists, ListsThen DEF TypeOK, Phases, InManage
<1>3. "lookup" \notin Faults => Apart(orders, book, pc', todo')
  BY <1>1, Taken DEF Apart
<1> QED BY <1>1, <1>2, <1>3, Onward

LEMMA NoExitStep ==
  ASSUME LifecycleInv, NEW g \in Groups, NoExit(g)
  PROVE  LifecycleInv'
<1>1. /\ pc = "exits" /\ pc' = "exits" /\ todo' = todo \ {g}
      /\ UNCHANGED <<ledger, book, orders, entry, position, snap>>
  BY DEF NoExit, broker
<1>2. TypeOK' /\ PhaseInv'
  BY <1>1, Taken, Lists, ListsThen DEF TypeOK, Phases, InManage, Open
<1>3. "lookup" \notin Faults => Apart(orders, book, pc', todo')
  BY <1>1, Taken DEF Apart
<1> QED BY <1>1, <1>2, <1>3, Onward

LEMMA ExitsDoneStep == LifecycleInv /\ ExitsDone => LifecycleInv'
<1> SUFFICES ASSUME LifecycleInv, ExitsDone PROVE LifecycleInv'
  OBVIOUS
<1>1. /\ pc = "exits" /\ pc' = "orphans" /\ todo' = {x \in Symbols \ Managed : snap[x] # 0}
      /\ UNCHANGED <<ledger, book, orders, entry, position, snap>>
  BY DEF ExitsDone, broker
<1>2. TypeOK' /\ PhaseInv'
  BY <1>1, Taken, Lists, ListsThen DEF TypeOK, Phases, InManage
<1>3. "lookup" \notin Faults => Apart(orders, book, pc', todo')
  BY <1>1, Taken DEF Apart
<1> QED BY <1>1, <1>2, <1>3, Onward

LEMMA LeaveOrphanStep ==
  ASSUME LifecycleInv, NEW x \in Symbols, LeaveOrphan(x)
  PROVE  LifecycleInv'
<1>1. /\ pc = "orphans" /\ pc' = "orphans" /\ todo' = todo \ {x}
      /\ UNCHANGED <<ledger, book, orders, entry, position, snap>>
  BY DEF LeaveOrphan, broker
<1>2. TypeOK' /\ PhaseInv'
  BY <1>1, Taken, Lists, ListsThen DEF TypeOK, Phases, InManage
<1>3. "lookup" \notin Faults => Apart(orders, book, pc', todo')
  BY <1>1, Taken DEF Apart
<1> QED BY <1>1, <1>2, <1>3, Onward

LEMMA PermitEndStep == LifecycleInv /\ (PermitEntries \/ EndCycle) => LifecycleInv'
<1> SUFFICES ASSUME LifecycleInv, PermitEntries \/ EndCycle PROVE LifecycleInv'
  OBVIOUS
<1>1. /\ pc \in {"gates", "entering"} /\ pc' \in {"entering", "idle"}
      /\ UNCHANGED <<ledger, book, orders, entry, position, snap, todo>>
  BY DEF PermitEntries, EndCycle, broker
<1>2. TypeOK' /\ PhaseInv'
  BY <1>1, Taken, Lists, ListsThen DEF TypeOK, Phases, InManage
<1>3. "lookup" \notin Faults => Apart(orders, book, pc', todo')
  BY <1>1, Taken DEF Apart
<1> QED BY <1>1, <1>2, <1>3, Onward

LEMMA EntryStep ==
  ASSUME LifecycleInv, NEW g \in Groups, EntryFills(g) \/ EntryEnds(g)
  PROVE  LifecycleInv'
<1>1. UNCHANGED <<ledger, book, orders, snap, pc, todo>>
  BY DEF EntryFills, EntryEnds
<1>2. TypeOK
  BY Taken
<1>3. /\ entry' \in [Groups -> [filled : Nat, over : BOOLEAN]]
      /\ \A h \in Groups : entry'[h].filled <= Size[h]
      /\ position' \in [Symbols -> Int]
  <2>1. CASE EntryFills(g)
    <3>1. PICK n \in (entry[g].filled + 1)..Size[g] :
            /\ entry' = [entry EXCEPT ![g] = [filled |-> n, over |-> n = Size[g]]]
            /\ position' = [x \in Symbols |->
                              IF HasLeg(g, x)
                              THEN position[x] + Sign(Legs[g][x]) * (n - entry[g].filled)
                              ELSE position[x]]
      BY <2>1 DEF EntryFills
    <3>2. entry[g].filled \in Nat /\ Size[g] \in Nat /\ n \in Nat /\ n <= Size[g]
      BY <1>2, LifecycleAssumption DEF TypeOK
    <3>3. [filled |-> n, over |-> n = Size[g]] \in [filled : Nat, over : BOOLEAN]
      BY <3>2
    <3>4. \A x \in Symbols : position[x] + Sign(Legs[g][x]) * (n - entry[g].filled) \in Int
      BY <1>2, <3>2 DEF TypeOK, Sign
    <3>5. position' \in [Symbols -> Int]
      <4> HIDE DEF Sign
      <4> QED BY <1>2, <3>1, <3>4 DEF TypeOK
    <3>6. entry' \in [Groups -> [filled : Nat, over : BOOLEAN]]
      BY <1>2, <3>1, <3>3 DEF TypeOK
    <3>7. \A h \in Groups : entry'[h].filled <= Size[h]
      BY <1>2, <3>1, <3>2 DEF TypeOK
    <3> QED BY <3>5, <3>6, <3>7
  <2>2. CASE EntryEnds(g)
    <3>1. entry' = [entry EXCEPT ![g].over = TRUE] /\ position' = position
      BY <2>2 DEF EntryEnds
    <3> QED BY <1>2, <3>1 DEF TypeOK
  <2> QED BY <2>1, <2>2
<1>4. TypeOK'
  BY <1>1, <1>2, <1>3 DEF TypeOK
<1>5. PhaseInv'
  BY <1>1, Taken, Lists, ListsThen DEF Open
<1>6. "lookup" \notin Faults => Apart(orders, book, pc', todo')
  BY <1>1, Taken
<1> QED BY <1>1, <1>4, <1>5, <1>6, Onward
-----------------------------------------------------------------------------
(* The steps that change orders.                                           *)

\* cancel_stale_orders leaves working only what some record waits for.
LEMMA CleanupStep == LifecycleInv /\ Cleanup => LifecycleInv'
<1> SUFFICES ASSUME LifecycleInv, Cleanup PROVE LifecycleInv'
  OBVIOUS
<1>1. /\ pc = "cleanup" /\ pc' = "entries"
      /\ UNCHANGED <<ledger, book, entry, position, snap, todo>>
  BY DEF Cleanup
<1>2. PICK C \in SUBSET Stray :
        /\ "lookup" \in Faults \/ C = Stray
        /\ orders' = [i \in DOMAIN orders |->
                        IF i \in C THEN [orders[i] EXCEPT !.working = FALSE] ELSE orders[i]]
  BY DEF Cleanup
<1>3. /\ Grown(orders, orders') /\ DOMAIN orders' = DOMAIN orders /\ Len(orders') = Len(orders)
      /\ \A i \in DOMAIN orders :
           orders'[i].filled = orders[i].filled /\ (orders'[i].working => i \notin C)
  BY <1>2, Taken, Stopped
<1>4. TypeOK'
  BY <1>1, <1>3, Taken DEF TypeOK, Phases, Grown, Sized
<1>5. PhaseInv'
  BY <1>1, Taken, Lists, ListsThen DEF InManage
<1>6. \A g \in Groups : BorneOut(ledger'[g], g, orders') /\ BorneOut(book'[g], g, orders')
  BY <1>1, <1>3, StillBorneOut
<1>7. Faults \cap {"crash", "reply"} = {} => \A g \in Groups : Exactly(book'[g], g, orders')
  BY <1>1, <1>3, StillExact
<1>8. "unpriced" \notin Faults => WholeIn(orders')
  BY <1>3, StillWhole
<1>9. ASSUME "lookup" \notin Faults PROVE Apart(orders', book', pc', todo')
  <2>1. ASSUME NEW i \in DOMAIN orders, orders'[i].working
        PROVE  \E h \in Groups : i = book[h].close /\ orders[i].for = h
    <3>1. i \in Protected
      BY <1>2, <1>3, <1>9, <2>1 DEF Stray, Grown
    <3>2. PICK h \in Groups : i = ledger[h].close
      BY <3>1 DEF Protected
    <3>3. i # 0
      BY Taken, OrdersAre DEF TypeOK
    <3>4. orders[i].for = h
      BY <3>2, <3>3, Taken DEF BorneOut, OrderIn
    <3>5. book = ledger
      BY <1>1, Taken, Lists DEF InManage
    <3> QED BY <3>2, <3>4, <3>5
  <2>2. \A g \in Groups : Live(orders', g) \subseteq {book[g].close}
    BY <1>3, <2>1 DEF Live, OrderIn, Grown
  <2>3. Live(orders', Orphan) = {}
    BY <1>3, <2>1, LifecycleAssumption DEF Live, OrderIn, Grown
  <2>4. Alone(orders')
    BY <2>2, <2>3 DEF Alone
  <2> QED BY <1>1, <2>2, <2>3, <2>4 DEF Apart
<1> QED BY <1>4, <1>5, <1>6, <1>7, <1>8, <1>9, Together

\* What the broker does with a close it has.
LEMMA CloseMovesStep ==
  ASSUME LifecycleInv, NEW k \in DOMAIN orders, CloseFills(k) \/ CloseEnds(k)
  PROVE  LifecycleInv'
<1>1. UNCHANGED <<ledger, book, entry, snap, pc, todo>> /\ orders[k].working
  BY DEF CloseFills, CloseEnds
<1>2. /\ Grown(orders, orders') /\ DOMAIN orders' = DOMAIN orders /\ Len(orders') = Len(orders)
      /\ \A i \in DOMAIN orders : ~orders[i].working => orders'[i].filled = orders[i].filled
      /\ position' \in [Symbols -> Int]
  <2>1. CASE CloseFills(k)
    <3>1. orders' = [orders EXCEPT ![k].filled = orders[k].filled + 1,
                                   ![k].working = orders[k].filled + 1 < orders[k].size]
      BY <2>1 DEF CloseFills
    <3>2. position' \in [Symbols -> Int]
      <4>1. position' = [x \in Symbols |-> IF x \in DOMAIN orders[k].legs
                                           THEN position[x] - Sign(orders[k].legs[x])
                                           ELSE position[x]]
        BY <2>1 DEF CloseFills
      <4>2. \A x \in Symbols : position[x] \in Int
        BY Taken DEF TypeOK
      <4>3. \A x \in Symbols : position[x] - Sign(orders[k].legs[x]) \in Int
        BY <4>2 DEF Sign
      <4> HIDE DEF Sign
      <4> QED BY <4>1, <4>2, <4>3
    <3> QED BY <1>1, <3>1, <3>2, Taken, Filling
  <2>2. CASE CloseEnds(k)
    <3>1. orders' = [orders EXCEPT ![k].working = FALSE] /\ position' = position
      BY <2>2 DEF CloseEnds
    <3>2. orders' = [i \in DOMAIN orders |->
                       IF i \in {k} THEN [orders[i] EXCEPT !.working = FALSE] ELSE orders[i]]
      BY <3>1, Taken, OrdersAre DEF TypeOK
    <3>3. position' \in [Symbols -> Int]
      BY <3>1, Taken DEF TypeOK
    <3>4. Sized(orders)
      BY Taken
    <3>5. /\ Grown(orders, orders') /\ DOMAIN orders' = DOMAIN orders /\ Len(orders') = Len(orders)
          /\ \A i \in DOMAIN orders : orders'[i].filled = orders[i].filled
      <4> DEFINE K == {k}
      <4>1. orders' = [i \in DOMAIN orders |->
                         IF i \in K THEN [orders[i] EXCEPT !.working = FALSE] ELSE orders[i]]
        BY <3>2
      <4> HIDE DEF K
      <4> QED BY <3>4, <4>1, Stopped
    <3> QED BY <3>3, <3>5
  <2> QED BY <2>1, <2>2
<1>3. TypeOK'
  BY <1>1, <1>2, Taken DEF TypeOK, Grown, Sized
<1>4. PhaseInv'
  BY <1>1, Taken, Lists, ListsThen DEF Open
<1>5. \A g \in Groups : BorneOut(ledger'[g], g, orders') /\ BorneOut(book'[g], g, orders')
  BY <1>1, <1>2, StillBorneOut
<1>6. Faults \cap {"crash", "reply"} = {} => \A g \in Groups : Exactly(book'[g], g, orders')
  BY <1>1, <1>2, StillExact
<1>7. "unpriced" \notin Faults => WholeIn(orders')
  BY <1>2, StillWhole
<1>8. "lookup" \notin Faults => Apart(orders', book', pc', todo')
  BY <1>1, <1>2, Taken, StillApart
<1> QED BY <1>3, <1>4, <1>5, <1>6, <1>7, <1>8, Together

\* A close for an owner that has none at work, of the legs given.
Placed(n, owner, legs, size) ==
  /\ Grown(orders, orders') /\ Len(orders') = n /\ n <= MaxOrders /\ n \in 1..MaxOrders
  /\ n \notin DOMAIN orders /\ DOMAIN orders' = DOMAIN orders \cup {n}
  /\ \A i \in DOMAIN orders : orders'[i] = orders[i]
  /\ orders'[n].for = owner /\ orders'[n].legs = legs /\ orders'[n].size = size
  /\ \A g \in Groups \cup {Orphan} :
       Live(orders', g) = Live(orders, g) \cup (IF g = owner THEN {n} ELSE {})

LEMMA NewClose ==
  ASSUME LifecycleInv, NEW owner \in Groups \cup {Orphan}, NEW legs \in LegSets,
         NEW size \in Nat \ {0}, Len(orders) < MaxOrders,
         orders' = Append(orders, CloseOrder(owner, legs, size))
  PROVE  Placed(Len(orders'), owner, legs, size)
<1> DEFINE o == CloseOrder(owner, legs, size)
<1>1. /\ o \in Order /\ o.for = owner /\ o.legs = legs /\ o.size = size /\ o.filled = 0 /\ o.working
      /\ o.size > 0
  BY DEF CloseOrder, Order
<1>2. Sized(orders) /\ Sending(orders, orders', o)
  BY <1>1, Taken DEF Sending
<1> HIDE DEF o
<1>3. /\ Grown(orders, orders') /\ Len(orders') = Len(orders) + 1
      /\ Len(orders') \in Nat /\ Len(orders') # 0
      /\ Len(orders') \notin DOMAIN orders /\ DOMAIN orders' = DOMAIN orders \cup {Len(orders')}
      /\ orders'[Len(orders')] = o
      /\ \A i \in DOMAIN orders : orders'[i] = orders[i]
  <2>1. Extended(orders, orders', o)
    BY <1>2, Sent
  <2> QED BY <2>1 DEF Extended
<1>4. Len(orders') <= MaxOrders /\ Len(orders') \in 1..MaxOrders
  <2>1. Len(orders) \in Nat /\ MaxOrders \in Nat
    BY <1>2, OrdersAre, LifecycleAssumption DEF Sized
  <2> QED BY <1>3, <2>1
<1>5. \A g \in Groups \cup {Orphan} :
        Live(orders', g) = Live(orders, g) \cup (IF g = owner THEN {Len(orders')} ELSE {})
  BY <1>1, <1>3 DEF Live, OrderIn
<1> QED BY <1>1, <1>3, <1>4, <1>5 DEF Placed

\* A submitted close whose answer was lost: the record knows nothing of it.
LEMMA ExitUnansweredStep ==
  ASSUME LifecycleInv, NEW g \in Groups, ExitUnanswered(g)
  PROVE  LifecycleInv'
<1>1. /\ pc = "exits" /\ pc' = "exits" /\ g \in todo /\ todo' = todo \ {g}
      /\ "reply" \in Faults
      /\ UNCHANGED <<ledger, book, entry, position, snap>>
  BY DEF ExitUnanswered
<1>2. book[g].stage = "open" /\ book[g].close = 0 /\ book[g].qty \in Nat \ {0}
  BY <1>1, Taken, Lists DEF Open, BorneOut, Record
<1> DEFINE n == Len(orders')
<1>3. Placed(n, g, Legs[g], book[g].qty)
  <2>1. Legs[g] \in LegSets /\ g \in Groups \cup {Orphan}
    BY LifecycleAssumption
  <2>2. Len(orders) < MaxOrders /\ orders' = Append(orders, CloseOrder(g, Legs[g], book[g].qty))
    BY DEF ExitUnanswered
  <2> QED BY <1>2, <2>1, <2>2, NewClose
<1> HIDE DEF n
<1>4. /\ Grown(orders, orders') /\ Len(orders') <= MaxOrders
      /\ DOMAIN orders' = DOMAIN orders \cup {n} /\ n \notin DOMAIN orders
      /\ \A i \in DOMAIN orders : orders'[i] = orders[i]
      /\ orders'[n].for = g /\ orders'[n].legs = Legs[g]
      /\ \A h \in Groups \cup {Orphan} :
           Live(orders', h) = Live(orders, h) \cup (IF h = g THEN {n} ELSE {})
  BY <1>3 DEF Placed
<1>5. TypeOK'
  BY <1>1, <1>4, Taken DEF TypeOK, Grown, Sized
<1>6. PhaseInv'
  BY <1>1, Taken, Lists, ListsThen DEF Open, InManage
<1>7. \A h \in Groups : BorneOut(ledger'[h], h, orders') /\ BorneOut(book'[h], h, orders')
  BY <1>1, <1>2, <1>4, StillBorneOut DEF Unentered
<1>8. "unpriced" \notin Faults => WholeIn(orders')
  BY <1>4, StillWhole
<1>9. ASSUME "lookup" \notin Faults PROVE Apart(orders', book', pc', todo')
  <2>1. /\ Alone(orders) /\ \A h \in todo : Live(orders, h) = {} /\ Live(orders, Orphan) = {}
    BY <1>1, <1>9, Taken DEF Apart
  <2>2. todo \subseteq Groups /\ Orphan # g
    BY <1>1, Taken, Lists, LifecycleAssumption DEF Open
  <2>3. /\ Live(orders', g) = {n} /\ Live(orders', Orphan) = {}
        /\ \A h \in Groups \ {g} : Live(orders', h) = Live(orders, h)
    BY <1>1, <1>4, <2>1, <2>2
  <2>4. Alone(orders')
    BY <2>1, <2>3 DEF Alone
  <2> QED BY <1>1, <2>1, <2>2, <2>3, <2>4 DEF Apart
<1> QED BY <1>1, <1>5, <1>6, <1>7, <1>8, <1>9, Together
LEMMA Awaiting ==
  ASSUME NEW r \in Record, NEW n \in 0..MaxOrders, NEW f \in BOOLEAN
  PROVE  [[r EXCEPT !.close = n] EXCEPT !.remainder = f] =
           [stage |-> r.stage, qty |-> r.qty, close |-> n, quarantined |-> r.quarantined,
            remainder |-> f]
<1> DEFINE w == [r EXCEPT !.close = n]
<1>1. w = [stage |-> r.stage, qty |-> r.qty, close |-> n, quarantined |-> r.quarantined,
           remainder |-> r.remainder]
  BY DEF Record
<1> HIDE DEF w
<1>2. w \in Record
  BY <1>1 DEF Record
<1>3. [w EXCEPT !.remainder = f] =
        [stage |-> w.stage, qty |-> w.qty, close |-> w.close, quarantined |-> w.quarantined,
         remainder |-> f]
  BY <1>2 DEF Record
<1>4. w.stage = r.stage /\ w.qty = r.qty /\ w.close = n /\ w.quarantined = r.quarantined
  BY <1>1
<1> QED BY <1>3, <1>4 DEF w

\* A close with a record: the structure waits for it from now on.
LEMMA SubmitExitStep ==
  ASSUME LifecycleInv, NEW g \in Groups, NEW priced \in SUBSET Symbols, SubmitExit(g, priced)
  PROVE  LifecycleInv'
<1> DEFINE n == Len(orders')
           r == book[g]
           q == [stage |-> r.stage, qty |-> r.qty, close |-> n, quarantined |-> r.quarantined,
                 remainder |-> FALSE]
           legs == [x \in priced |-> Legs[g][x]]
<1>1. /\ pc = "exits" /\ pc' = "exits" /\ g \in todo /\ todo' = todo \ {g}
      /\ UNCHANGED <<ledger, entry, position, snap>>
      /\ priced # {} /\ priced \subseteq DOMAIN Legs[g]
      /\ priced = DOMAIN Legs[g] \/ "unpriced" \in Faults
  BY DEF SubmitExit
<1>2. /\ r.stage = "open" /\ r.close = 0 /\ r.qty \in Nat \ {0} /\ r \in Record
      /\ BorneOut(r, g, orders) /\ orders \in Seq(Order)
  BY <1>1, Taken, Lists DEF Open, BorneOut, Record, Sized
<1>3. Placed(n, g, legs, r.qty)
  <2>1. legs \in LegSets /\ g \in Groups \cup {Orphan}
    <3>1. PICK S \in SUBSET Symbols : Legs[g] \in [S -> {"buy", "sell"}]
      BY LifecycleAssumption DEF LegSets
    <3>2. \A x \in priced : Legs[g][x] \in {"buy", "sell"}
      BY <1>1, <3>1
    <3>3. legs \in [priced -> {"buy", "sell"}]
      BY <3>2
    <3>4. priced \in (SUBSET Symbols) \ {{}}
      BY <1>1
    <3> HIDE DEF legs
    <3> QED BY <3>3, <3>4 DEF LegSets
  <2>2. Len(orders) < MaxOrders /\ orders' = Append(orders, CloseOrder(g, legs, r.qty))
    BY DEF SubmitExit
  <2> HIDE DEF legs, r
  <2> QED BY <1>2, <2>1, <2>2, NewClose
<1>4. \A h \in Groups : book'[h] = IF h = g THEN q ELSE book[h]
  <2>1. book' = [book EXCEPT ![g] = [[r EXCEPT !.close = n] EXCEPT !.remainder = FALSE]]
    <3>1. book' = [book EXCEPT ![g].close = n, ![g].remainder = FALSE]
      BY DEF SubmitExit
    <3> QED BY <1>2, <3>1, Taken DEF TypeOK
  <2>2. [[r EXCEPT !.close = n] EXCEPT !.remainder = FALSE] = q
    <3>1. r \in Record
      BY <1>2
    <3> HIDE DEF r, n
    <3>2. n \in 1..MaxOrders
      BY <1>3 DEF Placed
    <3>3. n \in 0..MaxOrders
      BY <3>2, LifecycleAssumption
    <3> QED BY <3>1, <3>3, Awaiting
  <2> QED BY <2>1, <2>2, Taken DEF TypeOK
<1>5. book' = [h \in Groups |-> book'[h]]
  BY Taken DEF SubmitExit, TypeOK
<1> HIDE DEF n, legs
<1>6. /\ Grown(orders, orders') /\ Len(orders') <= MaxOrders /\ n \in 1..MaxOrders
      /\ DOMAIN orders' = DOMAIN orders \cup {n} /\ n \notin DOMAIN orders
      /\ \A i \in DOMAIN orders : orders'[i] = orders[i]
      /\ orders'[n].for = g /\ orders'[n].legs = legs /\ orders'[n].size = r.qty
      /\ \A h \in Groups \cup {Orphan} :
           Live(orders', h) = Live(orders, h) \cup (IF h = g THEN {n} ELSE {})
  BY <1>3 DEF Placed
<1>7. q \in Record /\ q.stage = "open" /\ q.close = n /\ q.qty = r.qty /\ n # 0
  <2>1. n \in 0..MaxOrders /\ n # 0
    BY <1>6, LifecycleAssumption
  <2> QED BY <1>2, <2>1 DEF Record
<1>8. OrderIn(orders', g) = OrderIn(orders, g) \cup {n} /\ n \notin OrderIn(orders, g)
      /\ 0 \notin OrderIn(orders, g)
  BY <1>2, <1>6, OrdersAre DEF OrderIn
<1> HIDE DEF r, q
<1>9. Left(q, g, orders') = Left(r, g, orders)
  <2>1. OrderIn(orders', g) \ {n} = OrderIn(orders, g)
        /\ OrderIn(orders, g) \ {0} = OrderIn(orders, g)
    BY <1>8
  <2>2. Fill(orders, OrderIn(orders, g)) = Fill(orders', OrderIn(orders, g))
    <3>1. /\ OrderIn(orders, g) \in SUBSET DOMAIN orders /\ OrderIn(orders, g) \subseteq DOMAIN orders'
          /\ orders' \in Seq(Order)
      BY <1>6 DEF OrderIn, Grown, Sized
    <3> QED BY <1>2, <1>6, <3>1, FillSame
  <2> QED BY <1>2, <1>7, <2>1, <2>2 DEF Left
<1>10. TypeOK'
  <2>1. book' \in [Groups -> Record]
    <3>1. \A h \in Groups : book'[h] \in Record
      BY <1>4, <1>7, Taken
    <3> QED BY <1>5, <3>1
  <2> QED BY <1>1, <1>6, <2>1, Taken DEF TypeOK, Grown, Sized
<1>11. PhaseInv'
  <2>1. \A h \in Groups : book'[h].stage = book[h].stage
    BY <1>2, <1>4, <1>7 DEF r
  <2>2. \A h \in todo' : h \in Groups /\ book'[h] = book[h]
    BY <1>1, <1>4, Taken, Lists DEF Open
  <2> QED BY <1>1, <2>1, <2>2, Taken, Lists, ListsThen DEF Open, InManage
<1>12. ASSUME NEW h \in Groups
       PROVE  BorneOut(ledger'[h], h, orders') /\ BorneOut(book'[h], h, orders')
  <2>1. /\ ledger[h] \in Record /\ BorneOut(ledger[h], h, orders)
        /\ book[h] \in Record /\ BorneOut(book[h], h, orders)
    BY Taken
  <2>2. CASE h # g
    <3>1. \A i \in DOMAIN orders' \ DOMAIN orders : orders'[i].for # h
      BY <1>6, <2>2
    <3> QED BY <1>1, <1>4, <1>6, <2>1, <2>2, <3>1, GrownBorneOut
  <2>3. CASE h = g
    <3>1. ledger[g].stage \notin Unentered
      BY <1>2, Taken, Lists DEF Unentered, r
    <3>2. BorneOut(ledger[g], g, orders')
      BY <1>6, <2>1, <2>3, <3>1, GrownBorneOut
    <3>3. BorneOut(q, g, orders')
      BY <1>2, <1>6, <1>7, <1>8, <1>9 DEF BorneOut, Unentered
    <3> QED BY <1>1, <1>4, <2>3, <3>2, <3>3
  <2> QED BY <2>2, <2>3
<1>13. ASSUME Faults \cap {"crash", "reply"} = {}, NEW h \in Groups
       PROVE  Exactly(book'[h], h, orders')
  <2>1. Exactly(book[h], h, orders)
    BY <1>13, Taken
  <2>2. CASE h # g
    <3>1. /\ \A i \in DOMAIN orders' \ DOMAIN orders : orders'[i].for # h
          /\ \A i \in OrderIn(orders, h) \ {book[h].close} : orders'[i].filled = orders[i].filled
      BY <1>6, <2>2 DEF OrderIn
    <3> QED BY <1>4, <1>6, <2>1, <2>2, <3>1, StillExactly
  <2>3. CASE h = g
    <3>1. \A i \in OrderIn(orders, g) : ~orders[i].working
      BY <1>2, <1>8, <2>1, <2>3 DEF Exactly, r
    <3>2. \A i \in OrderIn(orders', g) : orders'[i].working => i = n
      BY <1>6, <1>8, <3>1 DEF OrderIn
    <3>3. Left(r, g, orders) = Size[g]
      BY <1>2, <2>1, <2>3 DEF Exactly, r
    <3>4. Exactly(q, g, orders')
      BY <1>7, <1>9, <3>2, <3>3 DEF Exactly
    <3> QED BY <1>4, <2>3, <3>4
  <2> QED BY <2>2, <2>3
<1>14. "unpriced" \notin Faults => WholeIn(orders')
  <2>1. "unpriced" \notin Faults => DOMAIN legs = DOMAIN Legs[g]
    BY <1>1 DEF legs
  <2> QED BY <1>6, <2>1, StillWhole
<1>15. ASSUME "lookup" \notin Faults PROVE Apart(orders', book', pc', todo')
  <2>1. /\ Alone(orders) /\ \A h \in todo : Live(orders, h) = {} /\ Live(orders, Orphan) = {}
    BY <1>1, <1>15, Taken DEF Apart
  <2>2. todo \subseteq Groups /\ Orphan # g
    BY <1>1, Taken, Lists, LifecycleAssumption DEF Open
  <2>3. /\ Live(orders', g) = {n} /\ Live(orders', Orphan) = {}
        /\ \A h \in Groups \ {g} : Live(orders', h) = Live(orders, h)
    BY <1>1, <1>6, <2>1, <2>2
  <2>4. Alone(orders')
    BY <2>1, <2>3 DEF Alone
  <2> QED BY <1>1, <2>1, <2>2, <2>3, <2>4 DEF Apart
<1> QED BY <1>10, <1>11, <1>12, <1>13, <1>14, <1>15, Together

\* _close_orphans: no structure's record is about it.
LEMMA CloseOrphanStep ==
  ASSUME LifecycleInv, NEW x \in Symbols, CloseOrphan(x)
  PROVE  LifecycleInv'
<1> DEFINE n == Len(orders')
           side == IF snap[x] > 0 THEN "buy" ELSE "sell"
           legs == [y \in {x} |-> side]
           size == AbsOf(snap[x])
<1>1. /\ pc = "orphans" /\ pc' = "orphans" /\ x \in todo /\ todo' = todo \ {x}
      /\ UNCHANGED <<ledger, book, entry, position, snap>>
  BY DEF CloseOrphan
<1>2. size \in Nat \ {0}
  <2>1. snap[x] \in Int /\ snap[x] # 0
    BY <1>1, Taken, Lists DEF TypeOK
  <2> QED BY <2>1 DEF AbsOf
<1>3. Placed(n, Orphan, legs, size)
  <2>1. legs \in LegSets
    <3>1. legs \in [{x} -> {"buy", "sell"}] /\ {x} \in (SUBSET Symbols) \ {{}}
      OBVIOUS
    <3> HIDE DEF legs
    <3> QED BY <3>1 DEF LegSets
  <2>2. Len(orders) < MaxOrders /\ orders' = Append(orders, CloseOrder(Orphan, legs, size))
    BY DEF CloseOrphan
  <2> HIDE DEF legs, size
  <2> QED BY <1>2, <2>1, <2>2, NewClose
<1>4. DOMAIN legs = {x}
  OBVIOUS
<1> HIDE DEF n, side, legs, size
<1>5. /\ Grown(orders, orders') /\ Len(orders') <= MaxOrders
      /\ DOMAIN orders' = DOMAIN orders \cup {n} /\ n \notin DOMAIN orders
      /\ \A i \in DOMAIN orders : orders'[i] = orders[i]
      /\ orders'[n].for = Orphan /\ orders'[n].legs = legs
      /\ \A h \in Groups \cup {Orphan} :
           Live(orders', h) = Live(orders, h) \cup (IF h = Orphan THEN {n} ELSE {})
  BY <1>3 DEF Placed
<1>6. Orphan \notin Groups
  BY LifecycleAssumption
<1>7. TypeOK'
  BY <1>1, <1>5, Taken DEF TypeOK, Grown, Sized
<1>8. PhaseInv'
  BY <1>1, Taken, Lists, ListsThen DEF Open, InManage
<1>9. \A h \in Groups : BorneOut(ledger'[h], h, orders') /\ BorneOut(book'[h], h, orders')
  BY <1>1, <1>5, <1>6, StillBorneOut
<1>10. Faults \cap {"crash", "reply"} = {} => \A h \in Groups : Exactly(book'[h], h, orders')
  BY <1>1, <1>5, <1>6, StillExact
<1>11. "unpriced" \notin Faults => WholeIn(orders')
  BY <1>5, <1>6, StillWhole
<1>12. ASSUME "lookup" \notin Faults PROVE Apart(orders', book', pc', todo')
  <2>1. /\ Alone(orders)
        /\ \A y \in todo : \A i \in Live(orders, Orphan) : y \notin DOMAIN orders[i].legs
    BY <1>1, <1>12, Taken DEF Apart
  <2>2. /\ Live(orders', Orphan) = Live(orders, Orphan) \cup {n}
        /\ \A h \in Groups : Live(orders', h) = Live(orders, h)
        /\ \A h : Live(orders, h) \subseteq DOMAIN orders
        /\ \A i \in Live(orders, Orphan) : orders'[i] = orders[i]
    BY <1>5, <1>6 DEF Live, OrderIn
  <2>3. \A i \in Live(orders, Orphan) : x \notin DOMAIN orders'[i].legs
    BY <1>1, <2>1, <2>2
  <2>4. Alone(orders')
    <3>1. \A h \in Groups : \A i, j \in Live(orders', h) : i = j
      BY <2>1, <2>2 DEF Alone
    <3>2. ASSUME NEW y \in Symbols, NEW i \in Live(orders', Orphan), NEW j \in Live(orders', Orphan),
                 y \in DOMAIN orders'[i].legs, y \in DOMAIN orders'[j].legs
          PROVE  i = j
      <4>1. CASE i = n \/ j = n
        <5>1. y = x
          BY <1>4, <1>5, <3>2, <4>1
        <5> QED BY <2>2, <2>3, <3>2, <4>1, <5>1
      <4>2. CASE i # n /\ j # n
        BY <2>1, <2>2, <3>2, <4>2 DEF Alone
      <4> QED BY <4>1, <4>2
    <3> QED BY <3>1, <3>2 DEF Alone
  <2>5. \A y \in todo' : \A i \in Live(orders', Orphan) : y \notin DOMAIN orders'[i].legs
    BY <1>1, <1>4, <1>5, <2>1, <2>2
  <2> QED BY <1>1, <2>4, <2>5 DEF Apart
<1> QED BY <1>7, <1>8, <1>9, <1>10, <1>11, <1>12, Together
-----------------------------------------------------------------------------
(* The steps that change records.                                          *)

\* A step that leaves the orders alone, and in their place only records that
\* they still bear out.
LEMMA Rewritten ==
  ASSUME LifecycleInv, UNCHANGED <<entry, orders, position, snap>>, pc' \in Phases,
         todo' \subseteq Groups, PhaseInv',
         ledger' \in [Groups -> Record], book' \in [Groups -> Record],
         \A g \in Groups : BorneOut(ledger'[g], g, orders) /\ BorneOut(book'[g], g, orders),
         Faults \cap {"crash", "reply"} = {} => \A g \in Groups : Exactly(book'[g], g, orders),
         "lookup" \notin Faults => Apart(orders, book', pc', todo')
  PROVE  LifecycleInv'
<1>1. TypeOK'
  BY Taken DEF TypeOK
<1>2. "unpriced" \notin Faults => WholeIn(orders')
  BY Taken
<1> QED BY <1>1, <1>2, Together

\* reconcile_pending_entries: only a structure no close was sent for is entered
\* or dropped.
LEMMA SettleStep ==
  ASSUME LifecycleInv, NEW silent \in SUBSET Groups, SettleEntries(silent)
  PROVE  LifecycleInv'
<1> DEFINE answered == {g \in Groups : ledger[g].stage = "pending"} \ silent
           full     == {g \in answered : entry[g].filled = Size[g]}
           void     == {g \in answered : entry[g].filled = 0 /\ entry[g].over}
           dropped(g) == [ledger[g] EXCEPT !.stage = "dropped"]
<1>1. /\ pc = "entries" /\ pc' = "closes" /\ book' = ledger'
      /\ todo' = {g \in Open(book') : book'[g].close # 0}
      /\ UNCHANGED <<entry, orders, position, snap>>
      /\ ledger' = [g \in Groups |-> CASE g \in full -> Entered(g)
                                       [] g \in void -> dropped(g)
                                       [] OTHER      -> ledger[g]]
  BY DEF SettleEntries, broker
<1>2. book = ledger
  BY <1>1, Taken, Lists DEF InManage
<1>3. ASSUME NEW g \in Groups
      PROVE  \/ ledger'[g] = ledger[g]
             \/ ledger[g].stage = "pending" /\ ledger'[g] = Entered(g)
             \/ ledger[g].stage = "pending" /\ ledger'[g] = dropped(g)
  <2> HIDE DEF dropped
  <2> QED BY <1>1
<1> HIDE DEF answered, full, void
<1>4. ASSUME NEW g \in Groups
      PROVE  /\ ledger'[g] \in Record /\ BorneOut(ledger'[g], g, orders)
             /\ Faults \cap {"crash", "reply"} = {} => Exactly(ledger'[g], g, orders)
             /\ ledger'[g] # ledger[g] => OrderIn(orders, g) = {}
  <2>1. /\ ledger[g] \in Record /\ BorneOut(ledger[g], g, orders)
        /\ Faults \cap {"crash", "reply"} = {} => Exactly(ledger[g], g, orders)
    BY <1>2, Taken
  <2>2. CASE ledger'[g] = ledger[g]
    BY <2>1, <2>2
  <2>3. CASE ledger[g].stage = "pending" /\ ledger'[g] = Entered(g)
    <3>1. OrderIn(orders, g) = {}
      BY <2>1, <2>3 DEF BorneOut, Unentered
    <3> QED BY <2>3, <3>1, EnteredRight
  <2>4. CASE ledger[g].stage = "pending" /\ ledger'[g] = dropped(g)
    <3>1. OrderIn(orders, g) = {} /\ ledger[g].close = 0
      BY <2>1, <2>4 DEF BorneOut, Unentered
    <3>2. dropped(g) = [stage |-> "dropped", qty |-> ledger[g].qty, close |-> ledger[g].close,
                        quarantined |-> ledger[g].quarantined, remainder |-> ledger[g].remainder]
      BY <2>1 DEF Record
    <3>3. dropped(g) \in Record /\ dropped(g).stage = "dropped" /\ dropped(g).close = 0
      BY <2>1, <3>1, <3>2 DEF Record, Stages
    <3> HIDE DEF dropped
    <3>4. BorneOut(dropped(g), g, orders) /\ Exactly(dropped(g), g, orders)
      BY <3>1, <3>3 DEF BorneOut, Exactly
    <3> QED BY <2>4, <3>1, <3>3, <3>4
  <2> QED BY <1>3, <2>2, <2>3, <2>4
<1>5. ledger' \in [Groups -> Record]
  <2>1. ledger' = [g \in Groups |-> ledger'[g]]
    BY <1>1
  <2> QED BY <1>4, <2>1
<1>6. todo' \subseteq Groups
  BY <1>1 DEF Open
<1>7. PhaseInv'
  BY <1>1, ListsThen DEF InManage
<1>8. "lookup" \notin Faults => Apart(orders, book', pc', todo')
  <2> SUFFICES ASSUME "lookup" \notin Faults PROVE Apart(orders, book', pc', todo')
    OBVIOUS
  <2>1. /\ Alone(orders) /\ Live(orders, Orphan) = {}
        /\ \A g \in Groups : Live(orders, g) \subseteq {ledger[g].close}
    BY <1>1, <1>2, Taken DEF Apart
  <2>2. \A g \in Groups : Live(orders, g) \subseteq {book'[g].close}
    BY <1>1, <1>4, <2>1 DEF Live
  <2> QED BY <1>1, <2>1, <2>2 DEF Apart
<1>9. pc' \in Phases
  BY <1>1 DEF Phases
<1> QED BY <1>1, <1>4, <1>5, <1>6, <1>7, <1>8, <1>9, Rewritten

\* _reconcile_close, with an answer or without one.
LEMMA CloseReadStep ==
  ASSUME LifecycleInv, NEW g \in Groups, ReconcileClose(g) \/ StatusUnavailable(g)
  PROVE  LifecycleInv'
<1>1. PICK q : /\ q = Resolution(g) \/ q = Quarantine(book[g])
               /\ book' = [book EXCEPT ![g] = q]
  BY DEF ReconcileClose, StatusUnavailable
<1>2. /\ pc = "closes" /\ pc' = "closes" /\ g \in todo /\ todo' = todo \ {g}
      /\ UNCHANGED <<ledger, entry, orders, position, snap>>
  BY DEF ReconcileClose, StatusUnavailable, broker
<1>3. book[g].stage = "open" /\ book[g].close # 0 /\ book[g] \in Record
      /\ BorneOut(book[g], g, orders) /\ TypeOK
  BY <1>2, Taken, Lists DEF Open
<1>4. /\ q \in Record /\ q.stage \in {"open", "closed"} /\ BorneOut(q, g, orders)
      /\ Exactly(book[g], g, orders) => Exactly(q, g, orders)
      /\ q.close = book[g].close \/ ~orders[book[g].close].working
  <2>1. CASE q = Resolution(g)
    <3>1. /\ Resolution(g) \in Record /\ Resolution(g).close \in {0, book[g].close}
          /\ Resolution(g).stage \in {"open", "closed"} /\ BorneOut(Resolution(g), g, orders)
          /\ Exactly(book[g], g, orders) => Exactly(Resolution(g), g, orders)
          /\ Resolution(g).close = 0 => ~orders[book[g].close].working
      BY <1>3, Resolved
    <3> QED BY <2>1, <3>1
  <2>2. CASE q = Quarantine(book[g])
    BY <1>3, <2>2, Quarantined
  <2> QED BY <1>1, <2>1, <2>2
<1>5. /\ book' \in [Groups -> Record]
      /\ \A h \in Groups : book'[h] = IF h = g THEN q ELSE book[h]
  BY <1>1, <1>3, <1>4 DEF TypeOK
<1>6. todo \subseteq Groups /\ ledger[g].stage = "open"
  BY <1>2, <1>3, Taken, Lists DEF Open
<1>7. PhaseInv'
  <2>1. \A h \in todo' : h \in Groups /\ book'[h] = book[h]
    BY <1>2, <1>5, <1>6
  <2>2. \A h \in Groups : \/ book'[h].stage = ledger'[h].stage
                          \/ book'[h].stage = "closed" /\ ledger'[h].stage = "open"
    BY <1>2, <1>4, <1>5, <1>6, Taken, Lists
  <2> QED BY <1>2, <2>1, <2>2, Taken, Lists, ListsThen DEF Open, InManage
<1>8. \A h \in Groups : BorneOut(ledger'[h], h, orders) /\ BorneOut(book'[h], h, orders)
  BY <1>2, <1>4, <1>5, Taken
<1>9. Faults \cap {"crash", "reply"} = {} => \A h \in Groups : Exactly(book'[h], h, orders)
  BY <1>4, <1>5, Taken
<1>10. "lookup" \notin Faults => Apart(orders, book', pc', todo')
  <2> SUFFICES ASSUME "lookup" \notin Faults PROVE Apart(orders, book', pc', todo')
    OBVIOUS
  <2>1. /\ Alone(orders) /\ Live(orders, Orphan) = {}
        /\ \A h \in Groups : Live(orders, h) \subseteq {book[h].close}
    BY <1>2, Taken DEF Apart
  <2>2. Live(orders, g) \subseteq {q.close}
    BY <1>4, <2>1 DEF Live
  <2>3. \A h \in Groups : Live(orders, h) \subseteq {book'[h].close}
    BY <1>5, <2>1, <2>2
  <2> QED BY <1>2, <2>1, <2>3 DEF Apart
<1>11. ledger' \in [Groups -> Record] /\ pc' \in Phases /\ todo' \subseteq Groups
  BY <1>2, <1>3, <1>6 DEF TypeOK, Phases
<1> QED BY <1>2, <1>5, <1>7, <1>8, <1>9, <1>10, <1>11, Rewritten

\* _ownership_conflicts only puts structures aside.
LEMMA ClaimStep == LifecycleInv /\ ClaimOwnership => LifecycleInv'
<1> SUFFICES ASSUME LifecycleInv, ClaimOwnership PROVE LifecycleInv'
  OBVIOUS
<1>1. /\ pc = "claims" /\ pc' = "exits"
      /\ book' = [g \in Groups |-> IF g \in Conflicts THEN Quarantine(book[g]) ELSE book[g]]
      /\ todo' = {g \in Open(book') : book'[g].close = 0 /\ ~book'[g].quarantined}
      /\ UNCHANGED <<ledger, entry, orders, position, snap>>
  BY DEF ClaimOwnership, broker
<1>2. ASSUME NEW g \in Groups
      PROVE  /\ book'[g] \in Record /\ book'[g].stage = book[g].stage
             /\ book'[g].close = book[g].close /\ BorneOut(book'[g], g, orders)
             /\ Exactly(book[g], g, orders) => Exactly(book'[g], g, orders)
  <2>1. book'[g] = book[g] \/ book'[g] = Quarantine(book[g])
    BY <1>1
  <2>2. book[g] \in Record /\ BorneOut(book[g], g, orders)
    BY Taken
  <2> QED BY <2>1, <2>2, Quarantined
<1>3. book' \in [Groups -> Record]
  <2>1. book' = [g \in Groups |-> book'[g]]
    BY <1>1
  <2> QED BY <1>2, <2>1
<1>4. todo' \subseteq Groups /\ pc' \in Phases
  BY <1>1 DEF Open, Phases
<1>5. PhaseInv'
  BY <1>1, <1>2, Taken, Lists, ListsThen DEF InManage
<1>6. ledger' \in [Groups -> Record]
  BY <1>1, Taken DEF TypeOK
<1>7. \A g \in Groups : BorneOut(ledger'[g], g, orders) /\ BorneOut(book'[g], g, orders)
  BY <1>1, <1>2, Taken
<1>8. Faults \cap {"crash", "reply"} = {} => \A g \in Groups : Exactly(book'[g], g, orders)
  BY <1>2, Taken
<1>9. "lookup" \notin Faults => Apart(orders, book', pc', todo')
  <2> SUFFICES ASSUME "lookup" \notin Faults PROVE Apart(orders, book', pc', todo')
    OBVIOUS
  <2>1. /\ Alone(orders) /\ Live(orders, Orphan) = {} /\ 0 \notin DOMAIN orders
        /\ \A g \in Groups : Live(orders, g) \subseteq {book[g].close}
    BY <1>1, Taken, OrdersAre DEF Apart, Sized
  <2>2. \A g \in todo' : g \in Groups /\ book[g].close = 0
    BY <1>1, <1>2, <1>4
  <2>3. \A g \in todo' : Live(orders, g) = {}
    BY <2>1, <2>2 DEF Live, OrderIn
  <2> QED BY <1>1, <2>1, <2>3 DEF Apart
<1> QED BY <1>1, <1>3, <1>4, <1>5, <1>6, <1>7, <1>8, <1>9, Rewritten

LEMMA SaveStep == LifecycleInv /\ Save => LifecycleInv'
<1> SUFFICES ASSUME LifecycleInv, Save PROVE LifecycleInv'
  OBVIOUS
<1>1. /\ pc = "orphans" /\ pc' = "gates" /\ todo = {} /\ ledger' = book
      /\ UNCHANGED <<book, entry, orders, position, snap, todo>>
  BY DEF Save, broker
<1>2. PhaseInv'
  BY <1>1, ListsThen
<1>3. pc' \in Phases /\ todo' \subseteq Groups
  BY <1>1 DEF Phases
<1>4. "lookup" \notin Faults => Apart(orders, book', pc', todo')
  BY <1>1, Taken DEF Apart
<1>5. ledger' \in [Groups -> Record] /\ book' \in [Groups -> Record]
  BY <1>1, Taken DEF TypeOK
<1>6. \A g \in Groups : BorneOut(ledger'[g], g, orders) /\ BorneOut(book'[g], g, orders)
  BY <1>1, Taken
<1>7. Faults \cap {"crash", "reply"} = {} => \A g \in Groups : Exactly(book'[g], g, orders)
  BY <1>1, Taken
<1> QED BY <1>1, <1>2, <1>3, <1>4, <1>5, <1>6, <1>7, Rewritten

LEMMA EnterStep ==
  ASSUME LifecycleInv, NEW g \in Groups, Enter(g)
  PROVE  LifecycleInv'
<1> DEFINE q == [ledger[g] EXCEPT !.stage = "pending"]
<1>1. /\ pc = "entering" /\ pc' = "entering" /\ ledger[g].stage = "none"
      /\ ledger' = [ledger EXCEPT ![g] = q] /\ book' = ledger'
      /\ UNCHANGED <<entry, orders, position, snap, todo>>
  BY DEF Enter, broker
<1>2. book = ledger /\ todo = {}
  BY <1>1, Taken, Lists DEF InManage
<1>3. ledger[g] \in Record /\ BorneOut(ledger[g], g, orders)
  BY Taken
<1>4. OrderIn(orders, g) = {} /\ ledger[g].close = 0
  BY <1>1, <1>3 DEF BorneOut, Unentered
<1>5. q = [stage |-> "pending", qty |-> ledger[g].qty, close |-> ledger[g].close,
           quarantined |-> ledger[g].quarantined, remainder |-> ledger[g].remainder]
  BY <1>3 DEF Record
<1>6. q \in Record /\ q.stage = "pending" /\ q.close = 0
  BY <1>3, <1>4, <1>5 DEF Record, Stages
<1> HIDE DEF q
<1>7. BorneOut(q, g, orders) /\ Exactly(q, g, orders)
  BY <1>4, <1>6 DEF BorneOut, Exactly
<1>8. /\ ledger' \in [Groups -> Record]
      /\ \A h \in Groups : ledger'[h] = IF h = g THEN q ELSE ledger[h]
  BY <1>1, <1>6, Taken DEF TypeOK
<1>9. PhaseInv'
  BY <1>1, <1>2, ListsThen DEF InManage
<1>10. pc' \in Phases /\ todo' \subseteq Groups
  BY <1>1, <1>2 DEF Phases
<1>11. "lookup" \notin Faults => Apart(orders, book', pc', todo')
  BY <1>1, Taken DEF Apart
<1>12. \A h \in Groups : BorneOut(ledger'[h], h, orders) /\ BorneOut(book'[h], h, orders)
  BY <1>1, <1>7, <1>8, Taken
<1>13. Faults \cap {"crash", "reply"} = {} => \A h \in Groups : Exactly(book'[h], h, orders)
  BY <1>1, <1>2, <1>7, <1>8, Taken
<1> QED BY <1>1, <1>8, <1>9, <1>10, <1>11, <1>12, <1>13, Rewritten

\* What the dead process knew and had not saved is gone.
LEMMA CrashStep == LifecycleInv /\ Crash => LifecycleInv'
<1> SUFFICES ASSUME LifecycleInv, Crash PROVE LifecycleInv'
  OBVIOUS
<1>1. /\ "crash" \in Faults /\ pc' = "idle" /\ todo' = {} /\ book' = ledger /\ ledger' = ledger
      /\ UNCHANGED <<entry, orders, position, snap>>
  BY DEF Crash, broker
<1>2. PhaseInv'
  BY <1>1, ListsThen
<1>3. pc' \in Phases /\ todo' \subseteq Groups
  BY <1>1 DEF Phases
<1>4. "lookup" \notin Faults => Apart(orders, book', pc', todo')
  BY <1>1, Taken DEF Apart
<1>5. ledger' \in [Groups -> Record] /\ book' \in [Groups -> Record]
  BY <1>1, Taken DEF TypeOK
<1>6. \A g \in Groups : BorneOut(ledger'[g], g, orders) /\ BorneOut(book'[g], g, orders)
  BY <1>1, Taken
<1> QED BY <1>1, <1>2, <1>3, <1>4, <1>5, <1>6, Rewritten
-----------------------------------------------------------------------------
(* Every step, and what follows.                                           *)

LEMMA InitLifecycle == Init => LifecycleInv
<1> SUFFICES ASSUME Init PROVE LifecycleInv
  OBVIOUS
<1>1. /\ ledger = [g \in Groups |-> IF g \in Held THEN Entered(g) ELSE NoRecord]
      /\ book = ledger /\ orders = <<>> /\ snap = position
      /\ entry = [g \in Groups |-> [filled |-> IF g \in Held THEN Size[g] ELSE 0, over |-> g \in Held]]
      /\ position = [x \in Symbols |-> LotsIn(Held, x)]
      /\ pc = "idle" /\ todo = {}
  BY DEF Init
<1>2. orders \in Seq(Order) /\ DOMAIN orders = {} /\ Len(orders) = 0
  BY <1>1
<1>3. \A g : OrderIn(orders, g) = {} /\ Live(orders, g) = {}
  BY <1>2 DEF OrderIn, Live
<1>4. ASSUME NEW g \in Groups
      PROVE  ledger[g] \in Record /\ BorneOut(ledger[g], g, orders) /\ Exactly(ledger[g], g, orders)
  <2>1. ledger[g] = Entered(g) \/ ledger[g] = NoRecord
    BY <1>1
  <2>2. NoRecord \in Record /\ NoRecord.stage = "none" /\ NoRecord.close = 0
    BY LifecycleAssumption DEF NoRecord, Record, Stages
  <2>3. BorneOut(NoRecord, g, orders) /\ Exactly(NoRecord, g, orders)
    BY <1>3, <2>2 DEF BorneOut, Exactly
  <2> QED BY <1>3, <2>1, <2>2, <2>3, EnteredRight
<1>5. TypeOK
  <2>1. ledger \in [Groups -> Record]
    <3>1. ledger = [g \in Groups |-> ledger[g]]
      BY <1>1
    <3> QED BY <1>4, <3>1
  <2>2. \A g \in Groups : entry[g] \in [filled : Nat, over : BOOLEAN] /\ entry[g].filled <= Size[g]
    BY <1>1, LifecycleAssumption
  <2>3. entry \in [Groups -> [filled : Nat, over : BOOLEAN]]
    <3>1. entry = [g \in Groups |-> entry[g]]
      BY <1>1
    <3> QED BY <2>2, <3>1
  <2>4. ASSUME NEW x \in Symbols PROVE LotsIn(Held, x) \in Int
    <3> DEFINE lots == [g \in Groups |-> Sign(Legs[g][x]) * Size[g]]
               S == {g \in Held : HasLeg(g, x)}
    <3>1. \A g \in Groups : Sign(Legs[g][x]) * Size[g] \in Int
      BY LifecycleAssumption DEF Sign
    <3>2. \A g \in Groups : lots[g] \in Int
      BY <3>1
    <3>3. S \subseteq Groups
      BY LifecycleAssumption
    <3>4. LotsIn(Held, x) = SumFunctionOnSet(lots, S)
      BY DEF LotsIn
    <3> HIDE DEF lots, S
    <3>5. IsFiniteSet(S)
      BY <3>3, LifecycleAssumption, FS_Subset
    <3> QED BY <3>2, <3>3, <3>4, <3>5, SumInt
  <2>5. position \in [Symbols -> Int]
    BY <1>1, <2>4
  <2>6. pc \in Phases /\ todo \subseteq Groups /\ Len(orders) <= MaxOrders
    BY <1>1, <1>2, LifecycleAssumption DEF Phases
  <2> QED BY <1>1, <1>2, <2>1, <2>2, <2>3, <2>5, <2>6 DEF TypeOK
<1>6. PhaseInv
  BY <1>1 DEF PhaseInv
<1>7. Accounted(ledger) /\ Accounted(book) /\ LotsInv
  BY <1>1, <1>4, InTheseTerms DEF LotsInv
<1>8. WholeInv
  BY <1>2 DEF WholeInv, OrdersOf
<1>9. SingleInv
  BY <1>1, <1>2 DEF SingleInv, OrdersOf, Working, WithLeg
<1> QED BY <1>5, <1>6, <1>7, <1>8, <1>9 DEF LifecycleInv

LEMMA StepLifecycle == LifecycleInv /\ [Next]_vars => LifecycleInv'
<1> SUFFICES ASSUME LifecycleInv, [Next]_vars PROVE LifecycleInv'
  OBVIOUS
<1>1. CASE Start
  BY <1>1, BeginStep, CleanupStep, SettleStep DEF Start
<1>2. CASE Closes
  BY <1>2, CloseReadStep, ClosesDoneStep DEF Closes
<1>3. CASE Exits
  BY <1>3, ClaimStep, SubmitExitStep, ExitUnansweredStep, NoExitStep, ExitsDoneStep DEF Exits
<1>4. CASE Orphans
  BY <1>4, CloseOrphanStep, LeaveOrphanStep, SaveStep DEF Orphans
<1>5. CASE Entries
  BY <1>5, PermitEndStep, EnterStep DEF Entries
<1>6. CASE World
  BY <1>6, CrashStep, EntryStep, CloseMovesStep DEF World
<1>7. CASE UNCHANGED vars
  <2>1. UNCHANGED <<ledger, book, entry, orders, position, snap, pc, todo>>
    BY <1>7 DEF vars, broker
  <2>2. TypeOK' /\ PhaseInv'
    BY <2>1, Taken, Lists, ListsThen DEF TypeOK, Open
  <2>3. "lookup" \notin Faults => Apart(orders, book, pc', todo')
    BY <2>1, Taken
  <2> QED BY <2>1, <2>2, <2>3, Onward
<1> QED BY <1>1, <1>2, <1>3, <1>4, <1>5, <1>6, <1>7 DEF Next

LEMMA LifecycleInvariant == Spec => []LifecycleInv
<1> QED BY InitLifecycle, StepLifecycle, PTL DEF Spec

\* The ledger, the broker's orders and the positions keep their shapes, and no
\* order fills past its size, whatever goes wrong: quantities never turn negative.
THEOREM LifecycleTypes == Spec => []TypeOK
<1>1. LifecycleInv => TypeOK
  BY DEF LifecycleInv
<1> QED BY <1>1, LifecycleInvariant, PTL

\* While the process does not die and answers are not lost, an open structure
\* records exactly what its close orders have left of it.
THEOREM LotsAlwaysKnown ==
  Faults \cap {"crash", "reply"} = {} => (Spec => []LotsAreKnown)
<1> SUFFICES ASSUME Faults \cap {"crash", "reply"} = {} PROVE Spec => []LotsAreKnown
  OBVIOUS
<1>1. LifecycleInv => LotsAreKnown
  BY DEF LifecycleInv, LotsInv
<1> QED BY <1>1, LifecycleInvariant, PTL

\* While lookups and cancels go through, no two closes of a structure, or of a
\* stray contract, work at once: over crashes, lost answers and retries.
THEOREM OneLiveCloseAlways == "lookup" \notin Faults => (Spec => []OneLiveClose)
<1> SUFFICES ASSUME "lookup" \notin Faults PROVE Spec => []OneLiveClose
  OBVIOUS
<1>1. ASSUME LifecycleInv PROVE OneLiveClose
  <2> SUFFICES ASSUME NEW owner \in Groups \cup {Orphan}, NEW x \in Symbols
               PROVE  Cardinality(WithLeg(OrdersOf(owner) \cap Working, x)) <= 1
    BY DEF OneLiveClose
  <2> DEFINE S == WithLeg(OrdersOf(owner) \cap Working, x)
  <2>1. \A i, j \in S : i = j
    BY <1>1 DEF LifecycleInv, SingleInv, WithLeg
  <2> HIDE DEF S
  <2>2. CASE S = {}
    BY <2>2, FS_EmptySet DEF S
  <2>3. CASE S # {}
    <3>1. PICK i \in S : TRUE
      BY <2>3
    <3>2. S = {i}
      BY <2>1
    <3>3. Cardinality({i}) = 1
      BY FS_Singleton
    <3> QED BY <3>2, <3>3 DEF S
  <2> QED BY <2>2, <2>3
<1> QED BY <1>1, LifecycleInvariant, PTL

\* While every leg of an exit has a price, a structure marked closed has had all
\* of every leg closed.
THEOREM ClosedAlwaysFlat == "unpriced" \notin Faults => (Spec => []ClosedIsFlat)
<1> SUFFICES ASSUME "unpriced" \notin Faults PROVE Spec => []ClosedIsFlat
  OBVIOUS
<1>1. ASSUME LifecycleInv PROVE ClosedIsFlat
  <2> SUFFICES ASSUME NEW g \in Groups, book[g].stage = "closed", NEW x \in DOMAIN Legs[g]
               PROVE  FilledBy(WithLeg(OrdersOf(g), x)) >= Size[g]
    BY DEF ClosedIsFlat
  <2>1. FilledBy(OrdersOf(g)) >= Size[g]
    BY <1>1 DEF LifecycleInv, Accounted
  <2>2. WithLeg(OrdersOf(g), x) = OrdersOf(g)
    BY <1>1 DEF LifecycleInv, WholeInv, WithLeg
  <2> QED BY <2>1, <2>2
<1> QED BY <1>1, LifecycleInvariant, PTL
-----------------------------------------------------------------------------
(* What the account holds, whatever fails: StakeInv.                       *)

\* Lots, stakes and positions of entries and orders, whichever state they are of.
Bearing(os, g, x)    == {i \in OrderIn(os, g) : x \in DOMAIN os[i].legs}
LotsOf(e, os, g, x)  == e[g].filled - Fill(os, Bearing(os, g, x))
StakesOf(e, os, x)   == [g \in Groups |-> Sign(Legs[g][x]) * LotsOf(e, os, g, x)]
Balance(e, os, x)    == SumFunctionOnSet(StakesOf(e, os, x), Holders(x))
OwnLegs(os)          == \A g \in Groups : \A i \in OrderIn(os, g) : \A x \in DOMAIN os[i].legs :
                          HasLeg(g, x) /\ os[i].legs[x] = Legs[g][x]
BoughtAs(stage, e, g) == CASE stage \in {"none", "dropped"} -> e[g].filled = 0
                           [] stage = "pending"             -> e[g].filled \in 0..Size[g]
                           [] stage \in {"open", "closed"}  -> e[g].filled = Size[g]
FlatIn(b, os)        == \A g \in Groups : b[g].stage = "closed" => Fill(os, OrderIn(os, g)) = Size[g]

\* The invariant in those terms, now and after a step.
LEMMA LotsInTheseTerms ==
  /\ \A g, x : Lots(g, x) = LotsOf(entry, orders, g, x)
  /\ \A x : Owned(x) <=> Bearing(orders, Orphan, x) = {}
  /\ \A x : SumFunctionOnSet(Stakes(x), Holders(x)) = Balance(entry, orders, x)
BY DEF Lots, LotsOf, Bearing, WithLeg, OrdersOf, OrderIn, FilledBy, Fill, Owned, Stakes, StakesOf, Balance

LEMMA StakeIs ==
  ASSUME LifecycleInv
  PROVE  StakeInv <=>
           /\ OwnLegs(orders)
           /\ \A g \in Groups : BoughtAs(ledger[g].stage, entry, g)
           /\ \A x \in Symbols : Bearing(orders, Orphan, x) = {} => position[x] = Balance(entry, orders, x)
           /\ Lossless => FlatIn(book, orders)
<1>1. Lossless => Recorded /\ LotsAreKnown
  BY DEF LifecycleInv, LotsInv, Lossless
<1>2. RecordsRight <=> Recorded /\ LotsAreKnown /\ FlatIn(book, orders)
  BY DEF RecordsRight, FlatIn, OrdersOf, OrderIn, FilledBy, Fill
<1>3. OwnLegs(orders) <=> \A g \in Groups : \A i \in OrdersOf(g) : \A x \in DOMAIN orders[i].legs :
                            HasLeg(g, x) /\ orders[i].legs[x] = Legs[g][x]
  BY DEF OwnLegs, OrdersOf, OrderIn
<1>4. \A g \in Groups : Bought(g) <=> BoughtAs(ledger[g].stage, entry, g)
  BY DEF Bought, BoughtAs
<1> QED BY <1>1, <1>2, <1>3, <1>4, LotsInTheseTerms DEF StakeInv

LEMMA StakeThen ==
  ASSUME LifecycleInv',
         OwnLegs(orders'),
         \A g \in Groups : BoughtAs(ledger'[g].stage, entry', g),
         \A x \in Symbols : Bearing(orders', Orphan, x) = {} => position'[x] = Balance(entry', orders', x),
         Lossless => FlatIn(book', orders')
  PROVE  StakeInv'
<1>1. Lossless => Recorded' /\ LotsAreKnown'
  BY DEF LifecycleInv, LotsInv, Lossless
<1>2. RecordsRight' <=> Recorded' /\ LotsAreKnown' /\ FlatIn(book', orders')
  BY DEF RecordsRight, FlatIn, OrdersOf, OrderIn, FilledBy, Fill
<1>3. \A g \in Groups : \A i \in OrdersOf(g)' : \A x \in DOMAIN orders'[i].legs :
        HasLeg(g, x) /\ orders'[i].legs[x] = Legs[g][x]
  BY DEF OwnLegs, OrdersOf, OrderIn
<1>4. \A g \in Groups : Bought(g)'
  BY DEF Bought, BoughtAs
<1>5. \A x \in Symbols : Owned(x)' => position'[x] = SumFunctionOnSet(Stakes(x)', Holders(x))
  BY DEF Lots, LotsOf, Bearing, WithLeg, OrdersOf, OrderIn, FilledBy, Fill, Owned, Stakes, StakesOf, Balance
<1> QED BY <1>1, <1>2, <1>3, <1>4, <1>5 DEF StakeInv, Lossless, Holders, HasLeg

LEMMA HoldersAre ==
  ASSUME NEW x
  PROVE  IsFiniteSet(Holders(x)) /\ Holders(x) \subseteq Groups
<1>1. Holders(x) \subseteq Groups
  BY DEF Holders
<1> QED BY <1>1, LifecycleAssumption, FS_Subset

\* The fills that lots are made of.
LEMMA LotsAreInt ==
  ASSUME LifecycleInv, NEW g \in Groups, NEW x
  PROVE  /\ OrderIn(orders, g) \in SUBSET DOMAIN orders
         /\ Bearing(orders, g, x) \in SUBSET OrderIn(orders, g)
         /\ Fill(orders, OrderIn(orders, g)) \in Nat
         /\ Fill(orders, Bearing(orders, g, x)) \in Nat
         /\ Fill(orders, Bearing(orders, g, x)) <= Fill(orders, OrderIn(orders, g))
         /\ entry[g].filled \in Nat /\ LotsOf(entry, orders, g, x) \in Int
<1>1. orders \in Seq(Order) /\ entry[g].filled \in Nat
  BY Taken DEF Sized, TypeOK
<1>2. /\ OrderIn(orders, g) \in SUBSET DOMAIN orders
      /\ Bearing(orders, g, x) \in SUBSET OrderIn(orders, g)
      /\ Bearing(orders, g, x) \in SUBSET DOMAIN orders
  BY DEF OrderIn, Bearing
<1>3. /\ Fill(orders, OrderIn(orders, g)) \in Nat
      /\ Fill(orders, Bearing(orders, g, x)) \in Nat
  BY <1>1, <1>2, FillFacts
<1>4. \A i \in Bearing(orders, g, x) : orders[i].filled <= orders[i].filled
  <2>1. \A i \in Bearing(orders, g, x) : orders[i].filled \in Nat
    BY <1>1, <1>2, OrdersAre
  <2> QED BY <2>1
<1>5. Fill(orders, Bearing(orders, g, x)) <= Fill(orders, OrderIn(orders, g))
  BY <1>1, <1>2, <1>4, FillGrows
<1> QED BY <1>1, <1>2, <1>3, <1>5 DEF LotsOf

\* A position stays as long as no lots move, and moves with the lots of one structure.
LEMMA BalanceStays ==
  ASSUME NEW e, NEW os, NEW f, NEW ns, NEW x,
         \A g \in Groups : LotsOf(f, ns, g, x) = LotsOf(e, os, g, x)
  PROVE  Balance(f, ns, x) = Balance(e, os, x)
<1>1. StakesOf(f, ns, x) = StakesOf(e, os, x)
  BY DEF StakesOf
<1> QED BY <1>1 DEF Balance

LEMMA BalanceMoves ==
  ASSUME NEW e, NEW os, NEW f, NEW ns, NEW g \in Groups, NEW d \in Int, NEW x,
         \A h \in Groups : LotsOf(e, os, h, x) \in Int,
         LotsOf(f, ns, g, x) = LotsOf(e, os, g, x) + d,
         \A h \in Groups \ {g} : LotsOf(f, ns, h, x) = LotsOf(e, os, h, x)
  PROVE  /\ HasLeg(g, x) => Balance(f, ns, x) = Balance(e, os, x) + Sign(Legs[g][x]) * d
         /\ ~HasLeg(g, x) => Balance(f, ns, x) = Balance(e, os, x)
<1> DEFINE old == StakesOf(e, os, x)
           new == StakesOf(f, ns, x)
           S == Holders(x)
           k == Sign(Legs[g][x])
<1>1. IsFiniteSet(S) /\ S \subseteq Groups
  BY HoldersAre
<1>2. k \in {1, -1} /\ \A h \in Groups : Sign(Legs[h][x]) \in {1, -1}
  BY DEF Sign
<1>3. \A h \in Groups : /\ old[h] = Sign(Legs[h][x]) * LotsOf(e, os, h, x)
                        /\ new[h] = Sign(Legs[h][x]) * LotsOf(f, ns, h, x)
  BY DEF StakesOf
<1>4. \A h \in Groups : old[h] \in Int
  <2> SUFFICES ASSUME NEW h \in Groups PROVE old[h] \in Int
    OBVIOUS
  <2>1. LotsOf(e, os, h, x) \in Int /\ Sign(Legs[h][x]) \in {1, -1}
    BY <1>2
  <2>2. \A i \in Int : \A s \in {1, -1} : s * i \in Int
    OBVIOUS
  <2> QED BY <1>3, <2>1, <2>2
<1>5. new[g] = old[g] + k * d
  <2>1. \A i, j \in Int : \A s \in {1, -1} : s * (i + j) = s * i + s * j
    OBVIOUS
  <2>2. LotsOf(e, os, g, x) \in Int
    OBVIOUS
  <2> QED BY <1>2, <1>3, <2>1, <2>2
<1>6. \A h \in Groups \ {g} : new[h] = old[h]
  BY <1>3
<1>7. k * d \in Int
  BY <1>2
<1>8. Balance(e, os, x) = SumFunctionOnSet(old, S) /\ Balance(f, ns, x) = SumFunctionOnSet(new, S)
  BY DEF Balance
<1>9. g \in S <=> HasLeg(g, x)
  BY DEF Holders
<1> HIDE DEF old, new, S, k
<1>10. CASE g \in S
  <2> DEFINE j == k * d
  <2>1. j \in Int
    BY <1>7
  <2>2. new[g] = old[g] + j
    BY <1>5
  <2> HIDE DEF j
  <2>3. \A h \in S : old[h] \in Int /\ new[h] = IF h = g THEN old[h] + j ELSE old[h]
    BY <1>1, <1>4, <1>6, <2>2
  <2>4. SumFunctionOnSet(new, S) = SumFunctionOnSet(old, S) + j
    BY ONLY <1>1, <1>10, <2>1, <2>3, SumShift
  <2> QED BY <1>8, <1>9, <1>10, <2>4 DEF j, k
<1>11. CASE g \notin S
  <2>1. \A h \in S : old[h] \in Int /\ old[h] = new[h]
    BY <1>1, <1>4, <1>6, <1>11
  <2>2. SumFunctionOnSet(old, S) = SumFunctionOnSet(new, S)
    BY <1>1, <2>1, SumSame
  <2> QED BY <1>8, <1>9, <1>11, <2>2
<1> QED BY <1>10, <1>11

\* Steps that leave the broker alone.
LEMMA BrokerStill ==
  ASSUME LifecycleInv, LifecycleInv', StakeInv, UNCHANGED <<entry, orders, position>>,
         \A g \in Groups : BoughtAs(ledger'[g].stage, entry, g),
         Lossless => \A g \in Groups : book'[g].stage = "closed" =>
                       book[g].stage = "closed" \/ Fill(orders, OrderIn(orders, g)) = Size[g]
  PROVE  StakeInv'
<1>1. Lossless => FlatIn(book', orders')
  BY StakeIs DEF FlatIn
<1> QED BY <1>1, StakeIs, StakeThen

LEMMA QuietStakes ==
  ASSUME LifecycleInv, LifecycleInv', StakeInv,
         \/ Begin \/ ClosesDone \/ ExitsDone \/ PermitEntries \/ EndCycle \/ Crash \/ UNCHANGED vars
         \/ \E g \in Groups : NoExit(g)
         \/ \E x \in Symbols : LeaveOrphan(x)
  PROVE  StakeInv'
<1>1. UNCHANGED <<ledger, entry, orders, position>>
  BY DEF Begin, ClosesDone, ExitsDone, PermitEntries, EndCycle, Crash, vars, NoExit, LeaveOrphan, broker
<1>2. Lossless => book' = book
  BY DEF Begin, ClosesDone, ExitsDone, PermitEntries, EndCycle, Crash, vars, NoExit, LeaveOrphan, Lossless
<1> QED BY <1>1, <1>2, BrokerStill, StakeIs

\* A close that has filled in full is the last of its structure.
LEMMA CloseReadStakes ==
  ASSUME LifecycleInv, LifecycleInv', StakeInv,
         NEW g \in Groups, ReconcileClose(g) \/ StatusUnavailable(g)
  PROVE  StakeInv'
<1> DEFINE S == OrderIn(orders, g)
           r == book[g]
<1>1. pc = "closes" /\ g \in todo /\ UNCHANGED <<ledger, entry, orders, position>>
  BY DEF ReconcileClose, StatusUnavailable, broker
<1>2. /\ r.stage = "open" /\ r.close # 0 /\ r \in Record /\ BorneOut(r, g, orders)
      /\ Sized(orders) /\ book \in [Groups -> Record]
  BY <1>1, Taken, Lists DEF Open, TypeOK
<1>3. PICK q : (q = Resolution(g) \/ q = Quarantine(r)) /\ book' = [book EXCEPT ![g] = q]
  BY DEF ReconcileClose, StatusUnavailable
<1>4. ASSUME Lossless, q.stage = "closed" PROVE Fill(orders, S) = Size[g]
  <2> DEFINE o == orders[r.close]
  <2>1. r.close \in S /\ r.qty \in Nat
    BY <1>2 DEF BorneOut, Record
  <2>2. q = Resolution(g)
    BY <1>2, <1>3, <1>4, Quarantined
  <2>3. Release(r).stage = "open" /\ \A n : Reduce(r, n).stage = "open" /\ Quarantine(r).stage = "open"
    BY <1>2, RecordOps
  <2>4. Done(r, o)
    <3> SUFFICES ASSUME ~Done(r, o) PROVE FALSE
      OBVIOUS
    <3>1. o.filled \in Nat
      BY <1>2, <2>1, OrdersAre DEF Sized, OrderIn
    <3>2. o.filled = 0 \/ o.filled > 0
      BY <3>1
    <3>3. CASE o.filled = 0
      <4>1. ~(o.filled > 0)
        BY <3>3
      <4>2. q = Release(r) \/ q = r
        BY <2>2, <3>3, <4>1 DEF Resolution
      <4> QED BY <1>2, <1>4, <2>3, <4>2
    <3>4. CASE o.filled > 0
      <4>1. o.filled # 0
        BY <3>4
      <4>2. q = Reduce(r, o.filled) \/ q = Quarantine(r)
        BY <2>2, <3>4, <4>1 DEF Resolution
      <4> QED BY <1>4, <2>3, <4>2
    <3> QED BY <3>2, <3>3, <3>4
  <2>5. S \in SUBSET DOMAIN orders /\ orders \in Seq(Order)
    BY <1>2 DEF OrderIn, Sized
  <2>6. Fill(orders, S) = o.filled + Fill(orders, S \ {r.close})
    BY <2>1, <2>5, FillFacts
  <2>7. r.qty + Fill(orders, S \ {r.close}) = Size[g]
    <3>1. Exactly(r, g, orders)
      BY <1>4, Taken DEF Lossless
    <3> QED BY <1>2, <3>1 DEF Exactly, Left
  <2> QED BY <2>4, <2>6, <2>7 DEF Done
<1>5. Lossless => \A h \in Groups : book'[h].stage = "closed" =>
        book[h].stage = "closed" \/ Fill(orders, OrderIn(orders, h)) = Size[h]
  BY <1>2, <1>3, <1>4
<1> QED BY <1>1, <1>5, BrokerStill, StakeIs

LEMMA ClaimStakes ==
  ASSUME LifecycleInv, LifecycleInv', StakeInv, ClaimOwnership
  PROVE  StakeInv'
<1>1. /\ book' = [g \in Groups |-> IF g \in Conflicts THEN Quarantine(book[g]) ELSE book[g]]
      /\ UNCHANGED <<ledger, entry, orders, position>>
  BY DEF ClaimOwnership, broker
<1>2. ASSUME NEW g \in Groups PROVE book'[g].stage = book[g].stage
  <2>1. Quarantine(book[g]).stage = book[g].stage
    BY Taken, Quarantined
  <2> QED BY <1>1, <2>1
<1> QED BY <1>1, <1>2, BrokerStill, StakeIs

\* What is promoted has filled in full, what is dropped not at all.
LEMMA SettleStakes ==
  ASSUME LifecycleInv, LifecycleInv', StakeInv, NEW silent \in SUBSET Groups, SettleEntries(silent)
  PROVE  StakeInv'
<1> DEFINE answered == {g \in Groups : ledger[g].stage = "pending"} \ silent
           full     == {g \in answered : entry[g].filled = Size[g]}
           void     == {g \in answered : entry[g].filled = 0 /\ entry[g].over}
           dropped(g) == [ledger[g] EXCEPT !.stage = "dropped"]
<1>1. pc = "entries" /\ book' = ledger' /\ UNCHANGED <<entry, orders, position>>
  BY DEF SettleEntries, broker
<1>2. ledger' = [g \in Groups |-> CASE g \in full -> Entered(g)
                                    [] g \in void -> dropped(g)
                                    [] OTHER      -> ledger[g]]
  BY DEF SettleEntries
<1>3. ASSUME NEW g \in Groups
      PROVE  /\ g \in full => ledger'[g].stage = "open"
             /\ g \in void => ledger'[g].stage = "dropped"
             /\ g \notin full \cup void => ledger'[g].stage = ledger[g].stage
  <2>1. Size[g] # 0 /\ ~(g \in full /\ g \in void)
    BY LifecycleAssumption
  <2>2. Entered(g).stage = "open"
    BY DEF Entered
  <2>3. dropped(g).stage = "dropped"
    BY Taken DEF Record
  <2> HIDE DEF full, void, dropped
  <2> QED BY <1>2, <2>1, <2>2, <2>3
<1>4. book = ledger
  BY <1>1, Taken, Lists DEF InManage
<1>5. ASSUME NEW g \in Groups
      PROVE  /\ BoughtAs(ledger'[g].stage, entry, g)
             /\ ledger'[g].stage = "closed" => ledger[g].stage = "closed"
  <2>1. CASE g \in full
    <3>1. ledger'[g].stage = "open" /\ entry[g].filled = Size[g]
      BY <1>3, <2>1
    <3> QED BY <3>1 DEF BoughtAs
  <2>2. CASE g \in void
    <3>1. ledger'[g].stage = "dropped" /\ entry[g].filled = 0
      BY <1>3, <2>2
    <3> QED BY <3>1 DEF BoughtAs
  <2>3. CASE g \notin full \cup void
    BY <1>3, <2>3, StakeIs
  <2> QED BY <2>1, <2>2, <2>3
<1> HIDE DEF answered, full, void, dropped
<1> QED BY <1>1, <1>4, <1>5, BrokerStill

LEMMA SaveStakes ==
  ASSUME LifecycleInv, LifecycleInv', StakeInv, Save
  PROVE  StakeInv'
<1>1. ledger' = book /\ UNCHANGED <<book, entry, orders, position>>
  BY DEF Save, broker
<1>2. ASSUME NEW g \in Groups PROVE BoughtAs(book[g].stage, entry, g)
  <2>1. BoughtAs(ledger[g].stage, entry, g)
    BY StakeIs
  <2>2. book[g].stage = ledger[g].stage \/ (book[g].stage = "closed" /\ ledger[g].stage = "open")
    BY Taken, Lists
  <2>3. BoughtAs("open", entry, g) => BoughtAs("closed", entry, g)
    BY DEF BoughtAs
  <2> QED BY <2>1, <2>2, <2>3
<1> QED BY <1>1, <1>2, BrokerStill

LEMMA EnterStakes ==
  ASSUME LifecycleInv, LifecycleInv', StakeInv, NEW g \in Groups, Enter(g)
  PROVE  StakeInv'
<1>1. /\ pc = "entering" /\ ledger[g].stage = "none"
      /\ ledger' = [ledger EXCEPT ![g].stage = "pending"] /\ book' = ledger'
      /\ UNCHANGED <<entry, orders, position>>
  BY DEF Enter, broker
<1>2. book = ledger
  BY <1>1, Taken, Lists DEF InManage
<1>3. \A h \in Groups : ledger'[h].stage = IF h = g THEN "pending" ELSE ledger[h].stage
  BY <1>1, Taken DEF TypeOK, Record
<1>4. ASSUME NEW h \in Groups PROVE BoughtAs(ledger'[h].stage, entry, h)
  <2>1. BoughtAs(ledger[h].stage, entry, h)
    BY StakeIs
  <2>2. BoughtAs("none", entry, h) => BoughtAs("pending", entry, h)
    <3>1. Size[h] \in Nat
      BY LifecycleAssumption
    <3> QED BY <3>1 DEF BoughtAs
  <2> QED BY <1>1, <1>3, <2>1, <2>2
<1>5. \A h \in Groups : book'[h].stage = "closed" => book[h].stage = "closed"
  BY <1>1, <1>2, <1>3
<1> QED BY <1>1, <1>4, <1>5, BrokerStill

\* Orders that grow without filling have the same fills.
LEMMA GrownFill ==
  ASSUME Grown(orders, orders'),
         NEW S \in SUBSET DOMAIN orders, NEW T \in SUBSET DOMAIN orders', S \subseteq T,
         T \ S \subseteq DOMAIN orders' \ DOMAIN orders,
         \A i \in DOMAIN orders : orders'[i].filled = orders[i].filled,
         \A i \in DOMAIN orders' \ DOMAIN orders : orders'[i].filled = 0
  PROVE  Fill(orders', T) = Fill(orders, S)
<1> DEFINE f == [i \in DOMAIN orders' |-> orders'[i].filled]
<1>1. /\ orders \in Seq(Order) /\ orders' \in Seq(Order) /\ S \subseteq DOMAIN orders'
  BY DEF Sized, Grown
<1>2. Fill(orders, S) = Fill(orders', S)
  BY <1>1, FillSame
<1>3. /\ \A i \in T : f[i] = orders'[i].filled /\ f[i] \in Int
      /\ \A i \in T \ S : f[i] = 0
      /\ IsFiniteSet(T)
  <2>1. \A i \in DOMAIN orders' : orders'[i].filled \in Nat
    BY <1>1, OrdersAre
  <2>2. IsFiniteSet(T)
    BY <1>1, FillFacts
  <2> QED BY <1>1, <2>1, <2>2
<1>4. Fill(orders', S) = SumFunctionOnSet(f, S) /\ Fill(orders', T) = SumFunctionOnSet(f, T)
  BY DEF Fill
<1>5. S \in SUBSET T /\ \A i \in S : f[i] \in Int
  BY <1>3
<1> HIDE DEF f
<1>6. SumFunctionOnSet(f, T) = SumFunctionOnSet(f, S)
  BY ONLY <1>3, <1>5, SumWithin
<1> QED BY <1>2, <1>4, <1>6

\* Steps of the orders alone: no order fills, none changes its legs.
LEMMA OrdersOnly ==
  ASSUME LifecycleInv, LifecycleInv', StakeInv, UNCHANGED <<ledger, entry, position>>,
         \A g \in Groups : book'[g].stage = book[g].stage,
         Grown(orders, orders'), OwnLegs(orders'),
         \A i \in DOMAIN orders : orders'[i].filled = orders[i].filled,
         \A i \in DOMAIN orders' \ DOMAIN orders : orders'[i].filled = 0
  PROVE  StakeInv'
<1>1. ASSUME NEW g \in Groups PROVE Fill(orders', OrderIn(orders', g)) = Fill(orders, OrderIn(orders, g))
  <2>1. /\ OrderIn(orders, g) \in SUBSET DOMAIN orders /\ OrderIn(orders', g) \in SUBSET DOMAIN orders'
        /\ OrderIn(orders, g) \subseteq OrderIn(orders', g)
        /\ OrderIn(orders', g) \ OrderIn(orders, g) \subseteq DOMAIN orders' \ DOMAIN orders
    BY DEF OrderIn, Grown
  <2> QED BY <2>1, GrownFill
<1>2. ASSUME NEW g \in Groups, NEW x PROVE LotsOf(entry, orders', g, x) = LotsOf(entry, orders, g, x)
  <2> DEFINE S == Bearing(orders, g, x)
             T == Bearing(orders', g, x)
  <2>1. /\ S \in SUBSET DOMAIN orders /\ T \in SUBSET DOMAIN orders'
        /\ S \subseteq T /\ T \ S \subseteq DOMAIN orders' \ DOMAIN orders
    BY DEF OrderIn, Grown, Bearing
  <2> HIDE DEF S, T
  <2>2. Fill(orders', T) = Fill(orders, S)
    BY <2>1, GrownFill
  <2> QED BY <2>2 DEF LotsOf, S, T
<1>3. ASSUME NEW x \in Symbols, Bearing(orders', Orphan, x) = {}
      PROVE  position[x] = Balance(entry, orders', x)
  <2>1. Bearing(orders, Orphan, x) = {}
    BY <1>3 DEF Bearing, OrderIn, Grown
  <2>2. Balance(entry, orders', x) = Balance(entry, orders, x)
    BY <1>2, BalanceStays
  <2> QED BY <2>1, <2>2, StakeIs
<1>4. Lossless => FlatIn(book', orders')
  BY <1>1, StakeIs DEF FlatIn
<1>5. \A g \in Groups : BoughtAs(ledger[g].stage, entry, g)
  BY StakeIs
<1> QED BY <1>3, <1>4, <1>5, StakeThen

LEMMA StopStakes ==
  ASSUME LifecycleInv, LifecycleInv', StakeInv, Cleanup \/ \E k \in DOMAIN orders : CloseEnds(k)
  PROVE  StakeInv'
<1>1. UNCHANGED <<ledger, book, entry, position>>
  BY DEF Cleanup, CloseEnds
<1>2. Sized(orders)
  BY Taken
<1>3. PICK C : orders' = [i \in DOMAIN orders |->
                            IF i \in C THEN [orders[i] EXCEPT !.working = FALSE] ELSE orders[i]]
  <2>1. CASE Cleanup
    BY <2>1 DEF Cleanup
  <2>2. ASSUME NEW k \in DOMAIN orders, CloseEnds(k)
        PROVE  orders' = [i \in DOMAIN orders |->
                            IF i \in {k} THEN [orders[i] EXCEPT !.working = FALSE] ELSE orders[i]]
    BY <1>2, <2>2, OrdersAre DEF CloseEnds, Sized
  <2> QED BY <2>1, <2>2
<1>4. /\ Grown(orders, orders') /\ DOMAIN orders' = DOMAIN orders
      /\ \A i \in DOMAIN orders : orders'[i].filled = orders[i].filled
  BY <1>2, <1>3, Stopped
<1>5. OwnLegs(orders')
  <2>1. OwnLegs(orders)
    BY StakeIs
  <2> QED BY <1>4, <2>1 DEF OwnLegs, Grown, OrderIn
<1> QED BY <1>1, <1>4, <1>5, OrdersOnly

\* A close that is sent has legs of its structure, and has filled nothing.
LEMMA SendStakes ==
  ASSUME LifecycleInv, LifecycleInv', StakeInv, UNCHANGED <<ledger, entry, position>>,
         \A g \in Groups : book'[g].stage = book[g].stage,
         NEW owner \in Groups \cup {Orphan}, NEW legs \in LegSets, NEW size \in Nat \ {0},
         orders' = Append(orders, CloseOrder(owner, legs, size)),
         owner \in Groups => \A x \in DOMAIN legs : HasLeg(owner, x) /\ legs[x] = Legs[owner][x]
  PROVE  StakeInv'
<1> DEFINE o == CloseOrder(owner, legs, size)
           n == Len(orders')
<1>1. o \in Order /\ o.filled = 0 /\ o.size > 0 /\ o.for = owner /\ o.legs = legs
  BY DEF CloseOrder, Order
<1>2. Sized(orders) /\ Sending(orders, orders', o)
  BY <1>1, Taken DEF Sending
<1> HIDE DEF o
<1>3. Extended(orders, orders', o)
  BY <1>2, Sent
<1>4. /\ Grown(orders, orders') /\ DOMAIN orders' = DOMAIN orders \cup {n} /\ orders'[n] = o
      /\ \A i \in DOMAIN orders : orders'[i] = orders[i]
  BY <1>3 DEF Extended
<1> HIDE DEF n
<1>5. OwnLegs(orders')
  <2>1. OwnLegs(orders)
    BY StakeIs
  <2> SUFFICES ASSUME NEW g \in Groups, NEW i \in OrderIn(orders', g), NEW x \in DOMAIN orders'[i].legs
               PROVE  HasLeg(g, x) /\ orders'[i].legs[x] = Legs[g][x]
    BY DEF OwnLegs
  <2>2. CASE i \in DOMAIN orders
    <3>1. i \in OrderIn(orders, g) /\ orders'[i] = orders[i]
      BY <1>4, <2>2 DEF OrderIn
    <3> QED BY <2>1, <3>1 DEF OwnLegs
  <2>3. CASE i = n
    <3>1. orders'[i].legs = legs /\ owner = g
      BY <1>1, <1>4, <2>3 DEF OrderIn
    <3> QED BY <3>1
  <2> QED BY <1>4, <2>2, <2>3 DEF OrderIn
<1>6. /\ \A i \in DOMAIN orders : orders'[i].filled = orders[i].filled
      /\ \A i \in DOMAIN orders' \ DOMAIN orders : orders'[i].filled = 0
  BY <1>1, <1>4
<1> QED BY <1>4, <1>5, <1>6, OrdersOnly

LEMMA ExitStakes ==
  ASSUME LifecycleInv, LifecycleInv', StakeInv, NEW g \in Groups,
         ExitUnanswered(g) \/ \E priced \in SUBSET Symbols : SubmitExit(g, priced)
  PROVE  StakeInv'
<1>1. /\ pc = "exits" /\ g \in todo /\ UNCHANGED <<ledger, entry, position>>
  BY DEF ExitUnanswered, SubmitExit
<1>2. /\ book[g].qty \in Nat \ {0} /\ book \in [Groups -> Record]
      /\ g \in Groups \cup {Orphan} /\ Legs[g] \in LegSets
  BY <1>1, Taken, Lists, LifecycleAssumption DEF Open, BorneOut, Record, TypeOK
<1>3. PICK D \in (SUBSET Symbols) \ {{}} : Legs[g] \in [D -> {"buy", "sell"}]
  BY LifecycleAssumption DEF LegSets
<1>4. CASE ExitUnanswered(g)
  <2>1. book' = book /\ orders' = Append(orders, CloseOrder(g, Legs[g], book[g].qty))
    BY <1>4 DEF ExitUnanswered
  <2>2. \A x \in DOMAIN Legs[g] : HasLeg(g, x)
    BY DEF HasLeg
  <2> QED BY <1>1, <1>2, <2>1, <2>2, SendStakes
<1>5. ASSUME NEW priced \in SUBSET Symbols, SubmitExit(g, priced) PROVE StakeInv'
  <2> DEFINE legs == [x \in priced |-> Legs[g][x]]
  <2>1. /\ priced # {} /\ priced \subseteq DOMAIN Legs[g]
        /\ orders' = Append(orders, CloseOrder(g, legs, book[g].qty))
        /\ book' = [book EXCEPT ![g].close = Len(orders'), ![g].remainder = FALSE]
    BY <1>5 DEF SubmitExit
  <2>2. legs \in LegSets
    <3>1. legs \in [priced -> {"buy", "sell"}] /\ priced \in (SUBSET Symbols) \ {{}}
      BY <1>3, <2>1
    <3> HIDE DEF legs
    <3> QED BY <3>1 DEF LegSets
  <2>3. \A x \in DOMAIN legs : HasLeg(g, x) /\ legs[x] = Legs[g][x]
    BY <2>1 DEF HasLeg
  <2>4. \A h \in Groups : book'[h].stage = book[h].stage
    BY <1>2, <2>1 DEF Record
  <2> HIDE DEF legs
  <2> QED BY <1>1, <1>2, <2>1, <2>2, <2>3, <2>4, SendStakes
<1> QED BY <1>4, <1>5

LEMMA OrphanStakes ==
  ASSUME LifecycleInv, LifecycleInv', StakeInv, NEW x \in Symbols, CloseOrphan(x)
  PROVE  StakeInv'
<1> DEFINE side == IF snap[x] > 0 THEN "buy" ELSE "sell"
           legs == [y \in {x} |-> side]
           size == AbsOf(snap[x])
<1>1. /\ pc = "orphans" /\ x \in todo /\ UNCHANGED <<ledger, book, entry, position>>
      /\ orders' = Append(orders, CloseOrder(Orphan, legs, size))
  BY DEF CloseOrphan
<1>2. size \in Nat \ {0}
  <2>1. snap[x] \in Int /\ snap[x] # 0
    BY <1>1, Taken, Lists DEF TypeOK
  <2> QED BY <2>1 DEF AbsOf
<1>3. legs \in LegSets
  <2>1. legs \in [{x} -> {"buy", "sell"}] /\ {x} \in (SUBSET Symbols) \ {{}}
    OBVIOUS
  <2> HIDE DEF legs
  <2> QED BY <2>1 DEF LegSets
<1>4. Orphan \notin Groups
  BY LifecycleAssumption
<1> HIDE DEF side, legs, size
<1> QED BY <1>1, <1>2, <1>3, <1>4, SendStakes

\* A fill of an entry.
LEMMA EntryStakes ==
  ASSUME LifecycleInv, LifecycleInv', StakeInv, NEW g \in Groups, EntryFills(g) \/ EntryEnds(g)
  PROVE  StakeInv'
<1>1. UNCHANGED <<ledger, book, orders>> /\ ledger[g].stage = "pending"
  BY DEF EntryFills, EntryEnds
<1>2. /\ entry \in [Groups -> [filled : Nat, over : BOOLEAN]] /\ entry[g].filled \in Nat
      /\ Size[g] \in Nat
      /\ \A h \in Groups : \A x : /\ LotsOf(entry, orders, h, x) \in Int
                                  /\ Fill(orders, Bearing(orders, h, x)) \in Nat
  BY Taken, LotsAreInt, LifecycleAssumption DEF TypeOK
<1>3. /\ OwnLegs(orders)
      /\ Lossless => FlatIn(book, orders)
      /\ \A h \in Groups : BoughtAs(ledger[h].stage, entry, h)
      /\ \A x \in Symbols : Bearing(orders, Orphan, x) = {} => position[x] = Balance(entry, orders, x)
  BY StakeIs
<1>4. CASE EntryEnds(g)
  <2>1. position' = position /\ \A h \in Groups : entry'[h].filled = entry[h].filled
    BY <1>2, <1>4 DEF EntryEnds
  <2>2. \A h \in Groups : \A x : LotsOf(entry', orders, h, x) = LotsOf(entry, orders, h, x)
    BY <2>1 DEF LotsOf
  <2>3. \A x : Balance(entry', orders, x) = Balance(entry, orders, x)
    BY <2>2, BalanceStays
  <2>4. \A h \in Groups : BoughtAs(ledger[h].stage, entry', h)
    BY <1>3, <2>1 DEF BoughtAs
  <2> QED BY <1>1, <1>3, <2>1, <2>3, <2>4, StakeThen
<1>5. CASE EntryFills(g)
  <2>1. PICK n \in (entry[g].filled + 1)..Size[g] :
          /\ entry' = [entry EXCEPT ![g] = [filled |-> n, over |-> n = Size[g]]]
          /\ position' = [x \in Symbols |->
                            IF HasLeg(g, x)
                            THEN position[x] + Sign(Legs[g][x]) * (n - entry[g].filled)
                            ELSE position[x]]
    BY <1>5 DEF EntryFills
  <2> DEFINE d == n - entry[g].filled
  <2>2. /\ n \in 0..Size[g] /\ d \in Int /\ entry'[g].filled = n
        /\ \A h \in Groups \ {g} : entry'[h] = entry[h]
    BY <1>2, <2>1
  <2>3. ASSUME NEW x
        PROVE  /\ LotsOf(entry', orders, g, x) = LotsOf(entry, orders, g, x) + d
               /\ \A h \in Groups \ {g} : LotsOf(entry', orders, h, x) = LotsOf(entry, orders, h, x)
    <3> DEFINE j == Fill(orders, Bearing(orders, g, x))
    <3>1. LotsOf(entry', orders, g, x) = n - j /\ LotsOf(entry, orders, g, x) = entry[g].filled - j
      BY <2>2 DEF LotsOf
    <3>2. j \in Nat
      BY <1>2
    <3> HIDE DEF j
    <3>3. LotsOf(entry', orders, g, x) = LotsOf(entry, orders, g, x) + d
      BY <1>2, <2>2, <3>1, <3>2
    <3> QED BY <2>2, <3>3 DEF LotsOf
  <2>4. ASSUME NEW x
        PROVE  /\ HasLeg(g, x) => Balance(entry', orders, x) = Balance(entry, orders, x) + Sign(Legs[g][x]) * d
               /\ ~HasLeg(g, x) => Balance(entry', orders, x) = Balance(entry, orders, x)
    <3> HIDE DEF d
    <3>1. d \in Int /\ \A h \in Groups : LotsOf(entry, orders, h, x) \in Int
      BY <1>2, <2>2
    <3> QED BY <2>3, <3>1, BalanceMoves
  <2>5. \A x \in Symbols : Bearing(orders, Orphan, x) = {} => position'[x] = Balance(entry', orders, x)
    BY <1>3, <2>1, <2>4
  <2>6. ASSUME NEW h \in Groups PROVE BoughtAs(ledger[h].stage, entry', h)
    <3>1. BoughtAs(ledger[h].stage, entry, h)
      BY <1>3
    <3>2. CASE h = g
      BY <1>1, <2>2, <3>2 DEF BoughtAs
    <3>3. CASE h # g
      <4>1. entry'[h] = entry[h]
        BY <2>2, <3>3
      <4> QED BY <3>1, <4>1 DEF BoughtAs
    <3> QED BY <3>2, <3>3
  <2> QED BY <1>1, <1>3, <2>5, <2>6, StakeThen
<1> QED BY <1>4, <1>5

\* One more unit of a close, for its structure and no other.
LEMMA UnitFilled ==
  ASSUME LifecycleInv, NEW k \in DOMAIN orders, CloseFills(k)
  PROVE  /\ Grown(orders, orders') /\ DOMAIN orders' = DOMAIN orders
         /\ \A S \in SUBSET DOMAIN orders :
              /\ k \in S => Fill(orders', S) = Fill(orders, S) + 1
              /\ k \notin S => Fill(orders', S) = Fill(orders, S)
<1>1. /\ orders[k].working
      /\ orders' = [orders EXCEPT ![k].filled = orders[k].filled + 1,
                                  ![k].working = orders[k].filled + 1 < orders[k].size]
  BY DEF CloseFills
<1>2. Sized(orders)
  BY Taken
<1>3. Grown(orders, orders') /\ DOMAIN orders' = DOMAIN orders
  BY <1>1, <1>2, Filling
<1>4. /\ orders \in Seq(Order) /\ orders' \in Seq(Order)
      /\ orders[k].filled \in Nat /\ orders'[k].filled = orders[k].filled + 1
      /\ \A i \in DOMAIN orders \ {k} : orders'[i] = orders[i]
  <2>1. orders[k] \in Order /\ orders[k].filled \in Nat
    BY <1>2, OrdersAre DEF Sized
  <2>2. orders'[k].filled = orders[k].filled + 1
    BY <1>1, <2>1 DEF Order
  <2> QED BY <1>1, <1>2, <1>3, <2>1, <2>2 DEF Grown, Sized
<1>5. ASSUME NEW S \in SUBSET DOMAIN orders, k \notin S PROVE Fill(orders', S) = Fill(orders, S)
  <2>1. S \subseteq DOMAIN orders' /\ \A i \in S : orders[i].filled = orders'[i].filled
    BY <1>3, <1>4, <1>5
  <2> QED BY <1>4, <2>1, FillSame
<1>6. ASSUME NEW S \in SUBSET DOMAIN orders, k \in S PROVE Fill(orders', S) = Fill(orders, S) + 1
  <2> DEFINE W == S \ {k}
  <2>1. W \in SUBSET DOMAIN orders /\ k \notin W /\ S \in SUBSET DOMAIN orders'
    BY <1>3
  <2>2. /\ Fill(orders, S) = orders[k].filled + Fill(orders, W)
        /\ Fill(orders', S) = orders'[k].filled + Fill(orders', W)
    BY <1>4, <1>6, <2>1, FillFacts
  <2> HIDE DEF W
  <2>3. Fill(orders', W) = Fill(orders, W) /\ Fill(orders, W) \in Nat
    BY <1>4, <1>5, <2>1, FillFacts
  <2> QED BY <1>4, <2>2, <2>3
<1> QED BY <1>3, <1>5, <1>6

LEMMA CloseFillsStakes ==
  ASSUME LifecycleInv, LifecycleInv', StakeInv, NEW k \in DOMAIN orders, CloseFills(k)
  PROVE  StakeInv'
<1>1. /\ UNCHANGED <<ledger, book, entry>> /\ orders[k].working
      /\ position' = [x \in Symbols |-> IF x \in DOMAIN orders[k].legs
                                        THEN position[x] - Sign(orders[k].legs[x])
                                        ELSE position[x]]
  BY DEF CloseFills
<1>2. Grown(orders, orders') /\ DOMAIN orders' = DOMAIN orders
  BY UnitFilled
<1>3. /\ \A h : OrderIn(orders', h) = OrderIn(orders, h) /\ OrderIn(orders, h) \in SUBSET DOMAIN orders
      /\ \A h, x : Bearing(orders', h, x) = Bearing(orders, h, x)
      /\ \A h, x : Bearing(orders, h, x) \in SUBSET DOMAIN orders
  BY <1>2 DEF OrderIn, Bearing, Grown
<1>4. /\ OwnLegs(orders)
      /\ Lossless => FlatIn(book, orders)
      /\ \A h \in Groups : BoughtAs(ledger[h].stage, entry, h)
      /\ \A x \in Symbols : Bearing(orders, Orphan, x) = {} => position[x] = Balance(entry, orders, x)
  BY StakeIs
<1>5. OwnLegs(orders')
  BY <1>2, <1>3, <1>4 DEF OwnLegs, Grown, OrderIn
<1>6. orders[k].for \in Groups \cup {Orphan} /\ DOMAIN orders[k].legs \subseteq Symbols
  <2>1. orders[k].for \in Groups \cup {Orphan} /\ orders[k].legs \in LegSets
    BY Taken, OrdersAre DEF Sized
  <2> QED BY <2>1 DEF LegSets
<1>7. ASSUME Lossless PROVE FlatIn(book', orders')
  <2>1. ASSUME NEW h \in Groups, book[h].stage = "closed" PROVE k \notin OrderIn(orders, h)
    <3>1. Exactly(book[h], h, orders) /\ BorneOut(book[h], h, orders)
      BY <1>7, Taken DEF Lossless
    <3>2. k # 0
      BY Taken, OrdersAre DEF Sized
    <3> QED BY <1>1, <2>1, <3>1, <3>2 DEF Exactly, BorneOut
  <2> QED BY <1>1, <1>3, <1>4, <1>7, <2>1, UnitFilled DEF FlatIn
<1>8. ASSUME NEW x \in Symbols, Bearing(orders', Orphan, x) = {}
      PROVE  position'[x] = Balance(entry, orders', x)
  <2>1. Bearing(orders, Orphan, x) = {} /\ position[x] = Balance(entry, orders, x) /\ position[x] \in Int
    BY <1>3, <1>4, <1>8, Taken DEF TypeOK
  <2>2. CASE x \notin DOMAIN orders[k].legs
    <3>1. ASSUME NEW h \in Groups PROVE LotsOf(entry, orders', h, x) = LotsOf(entry, orders, h, x)
      <4>1. k \notin Bearing(orders, h, x)
        BY <2>2 DEF Bearing
      <4> QED BY <1>3, <4>1, UnitFilled DEF LotsOf
    <3>2. Balance(entry, orders', x) = Balance(entry, orders, x)
      BY <3>1, BalanceStays
    <3> QED BY <1>1, <2>1, <2>2, <3>2
  <2>3. CASE x \in DOMAIN orders[k].legs
    <3> DEFINE g == orders[k].for
    <3>1. g \in Groups /\ k \in Bearing(orders, g, x)
      BY <1>6, <2>1, <2>3 DEF Bearing, OrderIn
    <3>2. HasLeg(g, x) /\ orders[k].legs[x] = Legs[g][x]
      BY <1>4, <2>3, <3>1 DEF OwnLegs, Bearing
    <3>3. \A h \in Groups : LotsOf(entry, orders, h, x) \in Int
      BY LotsAreInt
    <3>4. LotsOf(entry, orders', g, x) = LotsOf(entry, orders, g, x) + (-1)
      <4> DEFINE j == Fill(orders, Bearing(orders, g, x))
      <4>1. j \in Nat /\ entry[g].filled \in Nat
        BY <3>1, LotsAreInt
      <4>2. /\ LotsOf(entry, orders', g, x) = entry[g].filled - (j + 1)
            /\ LotsOf(entry, orders, g, x) = entry[g].filled - j
        BY <1>3, <3>1, UnitFilled DEF LotsOf
      <4> HIDE DEF j
      <4> QED BY <4>1, <4>2
    <3>5. ASSUME NEW h \in Groups \ {g} PROVE LotsOf(entry, orders', h, x) = LotsOf(entry, orders, h, x)
      <4>1. k \notin Bearing(orders, h, x)
        BY DEF Bearing, OrderIn
      <4> QED BY <1>3, <4>1, UnitFilled DEF LotsOf
    <3> HIDE DEF g
    <3>6. Balance(entry, orders', x) = Balance(entry, orders, x) + Sign(Legs[g][x]) * (-1)
      <4>1. -1 \in Int
        OBVIOUS
      <4> QED BY <3>1, <3>2, <3>3, <3>4, <3>5, <4>1, BalanceMoves
    <3>7. position'[x] = position[x] - Sign(Legs[g][x])
      BY <1>1, <2>3, <3>2
    <3>8. Sign(Legs[g][x]) \in {1, -1}
      BY DEF Sign
    <3>9. \A i \in Int : \A s \in {1, -1} : i + s * (-1) = i - s
      OBVIOUS
    <3> QED BY <2>1, <3>6, <3>7, <3>8, <3>9
  <2> QED BY <2>2, <2>3
<1> QED BY <1>1, <1>4, <1>5, <1>7, <1>8, StakeThen

LEMMA InitStakes == Init => StakeInv
<1> SUFFICES ASSUME Init PROVE StakeInv
  OBVIOUS
<1>1. /\ ledger = [g \in Groups |-> IF g \in Held THEN Entered(g) ELSE NoRecord]
      /\ book = ledger /\ orders = <<>>
      /\ entry = [g \in Groups |-> [filled |-> IF g \in Held THEN Size[g] ELSE 0, over |-> g \in Held]]
      /\ position = [x \in Symbols |-> LotsIn(Held, x)]
  BY DEF Init
<1>2. /\ DOMAIN orders = {} /\ \A g : OrderIn(orders, g) = {}
      /\ \A g, x : Bearing(orders, g, x) = {} /\ Fill(orders, Bearing(orders, g, x)) = 0
  BY <1>1, FillNothing DEF OrderIn, Bearing
<1>3. ASSUME NEW g \in Groups
      PROVE  /\ ledger[g].stage = (IF g \in Held THEN "open" ELSE "none")
             /\ BoughtAs(ledger[g].stage, entry, g)
             /\ \A x : LotsOf(entry, orders, g, x) = (IF g \in Held THEN Size[g] ELSE 0)
  <2>1. Size[g] \in Nat
    BY LifecycleAssumption
  <2>2. ledger[g].stage = (IF g \in Held THEN "open" ELSE "none")
    BY <1>1 DEF Entered, NoRecord
  <2>3. entry[g].filled = (IF g \in Held THEN Size[g] ELSE 0)
    BY <1>1
  <2>4. BoughtAs(ledger[g].stage, entry, g)
    <3>1. CASE g \in Held
      <4>1. ledger[g].stage = "open" /\ entry[g].filled = Size[g]
        BY <2>2, <2>3, <3>1
      <4> QED BY <4>1 DEF BoughtAs
    <3>2. CASE g \notin Held
      <4>1. ledger[g].stage = "none" /\ entry[g].filled = 0
        BY <2>2, <2>3, <3>2
      <4> QED BY <4>1 DEF BoughtAs
    <3> QED BY <3>1, <3>2
  <2> QED BY <1>2, <2>1, <2>2, <2>3, <2>4 DEF LotsOf
<1>4. ASSUME NEW x \in Symbols PROVE position[x] = Balance(entry, orders, x)
  <2> DEFINE S == Holders(x)
             W == {g \in Held : HasLeg(g, x)}
             f == StakesOf(entry, orders, x)
             lots == [g \in Groups |-> Sign(Legs[g][x]) * Size[g]]
  <2>1. IsFiniteSet(S) /\ S \subseteq Groups /\ W \in SUBSET S
    BY HoldersAre, LifecycleAssumption DEF Holders
  <2>2. ASSUME NEW g \in Groups
        PROVE  /\ lots[g] \in Int
               /\ g \in Held => f[g] = lots[g]
               /\ g \notin Held => f[g] = 0
    <3>1. Sign(Legs[g][x]) \in {1, -1} /\ Size[g] \in Nat
      BY LifecycleAssumption DEF Sign
    <3>2. f[g] = Sign(Legs[g][x]) * LotsOf(entry, orders, g, x) /\ lots[g] = Sign(Legs[g][x]) * Size[g]
      BY DEF StakesOf
    <3>3. Sign(Legs[g][x]) * Size[g] \in Int /\ Sign(Legs[g][x]) * 0 = 0
      BY <3>1
    <3> QED BY <1>3, <3>2, <3>3
  <2>3. /\ \A g \in W : f[g] = lots[g] /\ f[g] \in Int
        /\ \A g \in S \ W : f[g] = 0
        /\ W \subseteq Groups
    BY <2>1, <2>2, LifecycleAssumption DEF Holders
  <2>4. position[x] = SumFunctionOnSet(lots, W) /\ Balance(entry, orders, x) = SumFunctionOnSet(f, S)
    BY <1>1 DEF LotsIn, Balance
  <2> HIDE DEF S, W, f, lots
  <2>5. SumFunctionOnSet(f, S) = SumFunctionOnSet(f, W)
    BY ONLY <2>1, <2>3, SumWithin
  <2>6. IsFiniteSet(W)
    BY <2>1, FS_Subset
  <2>7. SumFunctionOnSet(f, W) = SumFunctionOnSet(lots, W)
    BY ONLY <2>3, <2>6, SumSame
  <2> QED BY <2>4, <2>5, <2>7
<1>5. OwnLegs(orders) /\ FlatIn(book, orders)
  BY <1>1, <1>2, <1>3 DEF OwnLegs, FlatIn
<1> QED BY <1>3, <1>4, <1>5, InitLifecycle, StakeIs

LEMMA StepStakes ==
  ASSUME LifecycleInv, LifecycleInv', StakeInv, [Next]_vars
  PROVE  StakeInv'
<1>1. CASE Start
  BY <1>1, QuietStakes, StopStakes, SettleStakes DEF Start
<1>2. CASE Closes
  BY <1>2, CloseReadStakes, QuietStakes DEF Closes
<1>3. CASE Exits
  BY <1>3, ClaimStakes, ExitStakes, QuietStakes DEF Exits
<1>4. CASE Orphans
  BY <1>4, OrphanStakes, SaveStakes, QuietStakes DEF Orphans
<1>5. CASE Entries
  BY <1>5, EnterStakes, QuietStakes DEF Entries
<1>6. CASE World
  BY <1>6, EntryStakes, CloseFillsStakes, StopStakes, QuietStakes DEF World
<1>7. CASE UNCHANGED vars
  BY <1>7, QuietStakes
<1> QED BY <1>1, <1>2, <1>3, <1>4, <1>5, <1>6, <1>7 DEF Next

LEMMA StakeInvariant == Spec => []StakeInv
<1>1. LifecycleInv /\ LifecycleInv' /\ StakeInv /\ [Next]_vars => StakeInv'
  BY StepStakes
<1> QED BY InitStakes, <1>1, LifecycleInvariant, PTL DEF Spec
-----------------------------------------------------------------------------
(* What the closes may do to it.                                           *)

\* With the records right, no structure has lots below none, and the one close
\* that works for it has no more to fill than it has lots of any leg.
LEMMA LotsAre ==
  ASSUME LifecycleInv, StakeInv, RecordsRight, NEW g \in Groups, NEW x
  PROVE  /\ LotsOf(entry, orders, g, x) \in Nat
         /\ \A i \in OrderIn(orders, g) : orders[i].working =>
              /\ i = book[g].close
              /\ orders[i].size - orders[i].filled \in Nat \ {0}
              /\ orders[i].size - orders[i].filled <= LotsOf(entry, orders, g, x)
<1> DEFINE S == OrderIn(orders, g)
           j == Fill(orders, Bearing(orders, g, x))
           all == Fill(orders, S)
           r == book[g]
<1>1. /\ PhaseInv /\ Sized(orders) /\ r \in Record /\ BorneOut(r, g, orders)
      /\ Exactly(r, g, orders)
  BY Taken, InTheseTerms DEF RecordsRight
<1>2. /\ r.stage \in Stages /\ ledger[g].stage \in Stages /\ r.qty \in Nat /\ Size[g] \in Nat
  BY <1>1, Taken, LifecycleAssumption DEF TypeOK, Record
<1>3. r.stage = ledger[g].stage \/ (r.stage = "closed" /\ ledger[g].stage = "open")
  BY <1>1, Lists
<1>4. /\ BoughtAs(ledger[g].stage, entry, g)
      /\ r.stage = "closed" => all = Size[g]
  BY StakeIs DEF RecordsRight, OrdersOf, OrderIn, FilledBy, Fill
<1>5. /\ S \in SUBSET DOMAIN orders /\ Bearing(orders, g, x) \in SUBSET S
      /\ j \in Nat /\ all \in Nat /\ j <= all /\ entry[g].filled \in Nat
      /\ LotsOf(entry, orders, g, x) = entry[g].filled - j
  BY LotsAreInt DEF LotsOf
<1>6. orders \in Seq(Order) /\ \A i \in DOMAIN orders : i # 0
  BY <1>1, OrdersAre DEF Sized
<1>7. CASE r.stage \in Unentered
  <2>1. S = {} /\ Bearing(orders, g, x) = {}
    BY <1>1, <1>5, <1>7 DEF BorneOut
  <2>2. j = 0
    BY <2>1, FillNothing
  <2> HIDE DEF j, S, all
  <2>3. LotsOf(entry, orders, g, x) \in Nat
    BY <1>5, <2>2
  <2> QED BY <2>1, <2>3 DEF S
<1>8. CASE r.stage = "closed"
  <2>1. ledger[g].stage \in {"open", "closed"}
    BY <1>3, <1>8
  <2>2. entry[g].filled = Size[g] /\ all = Size[g]
    BY <1>4, <1>8, <2>1 DEF BoughtAs
  <2>3. \A i \in S : ~orders[i].working
    BY <1>1, <1>5, <1>6, <1>8 DEF BorneOut, Exactly
  <2> HIDE DEF j, S, all
  <2>4. LotsOf(entry, orders, g, x) \in Nat
    BY <1>2, <1>5, <2>2
  <2> QED BY <2>3, <2>4 DEF S
<1>9. CASE r.stage = "open"
  <2>1. entry[g].filled = Size[g]
    BY <1>3, <1>4, <1>9 DEF BoughtAs
  <2>2. r.qty + Fill(orders, S \ {r.close}) = Size[g]
    BY <1>1, <1>9 DEF Exactly, Left
  <2>3. \A i \in S : orders[i].working => i = r.close
    BY <1>1 DEF Exactly
  <2>4. CASE r.close \in S
    <3>1. all = orders[r.close].filled + Fill(orders, S \ {r.close})
      BY <1>5, <1>6, <2>4, FillFacts
    <3>2. Fill(orders, S \ {r.close}) \in Nat
      <4>1. S \ {r.close} \in SUBSET DOMAIN orders
        BY <1>5
      <4> QED BY <1>6, <4>1, FillFacts
    <3>3. /\ orders[r.close].size = r.qty /\ orders[r.close].filled \in Nat
          /\ orders[r.close].filled <= orders[r.close].size
          /\ orders[r.close].working => orders[r.close].filled < orders[r.close].size
      BY <1>1, <1>5, <1>6, <2>4, OrdersAre DEF BorneOut, Sized
    <3> DEFINE rest == Fill(orders, S \ {r.close})
    <3>4. /\ all = orders[r.close].filled + rest /\ rest \in Nat /\ r.qty + rest = Size[g]
      BY <2>2, <3>1, <3>2
    <3> HIDE DEF rest, all, j, S
    <3>5. r.qty - orders[r.close].filled <= LotsOf(entry, orders, g, x)
      BY <1>2, <1>5, <2>1, <3>3, <3>4
    <3>6. LotsOf(entry, orders, g, x) \in Nat
      BY <1>2, <1>5, <2>1, <3>3, <3>4
    <3>7. orders[r.close].working => r.qty - orders[r.close].filled \in Nat \ {0}
      BY <1>2, <3>3
    <3> QED BY <2>3, <3>3, <3>5, <3>6, <3>7 DEF S
  <2>5. CASE r.close \notin S
    <3>1. S \ {r.close} = S
      BY <2>5
    <3>2. r.qty + all = Size[g]
      BY <2>2, <3>1
    <3> HIDE DEF j, all, S
    <3>3. LotsOf(entry, orders, g, x) \in Nat
      BY <1>2, <1>5, <2>1, <3>2
    <3> QED BY <2>3, <2>5, <3>3 DEF S
  <2> QED BY <2>4, <2>5
<1> QED BY <1>2, <1>7, <1>8, <1>9 DEF Stages, Unentered

\* ledger.py, position_lifecycle.py: as long as the process does not die and no
\* answer to a close is lost, every close that works is on the record of its
\* structure, open structures know their lots, and the closes of closed ones have
\* filled their size: over failed lookups, statuses and cancels, partial fills
\* and missing prices.
THEOREM RecordsStayRight == Lossless => (Spec => []RecordsRight)
<1> SUFFICES ASSUME Lossless PROVE Spec => []RecordsRight
  OBVIOUS
<1>1. StakeInv => RecordsRight
  BY DEF StakeInv
<1> QED BY <1>1, StakeInvariant, PTL

\* _record_confirmed_partial_fill and the retries after it: while the records
\* are right, the closes of a structure never have more of a contract to fill
\* than it still has lots of it, whatever fails and whoever else holds it.
THEOREM CloseAlwaysWithinLots == Spec => [](RecordsRight => CloseWithinLots)
<1>1. ASSUME LifecycleInv, StakeInv, RecordsRight PROVE CloseWithinLots
  <2> SUFFICES ASSUME NEW g \in Groups, NEW x \in DOMAIN Legs[g]
               PROVE  SumFunctionOnSet([i \in DOMAIN orders |-> orders[i].size - orders[i].filled],
                                       WithLeg(OrdersOf(g) \cap Working, x)) <= Lots(g, x)
    BY DEF CloseWithinLots
  <2> DEFINE rest == [i \in DOMAIN orders |-> orders[i].size - orders[i].filled]
             W == WithLeg(OrdersOf(g) \cap Working, x)
             c == book[g].close
  <2>1. LotsOf(entry, orders, g, x) \in Nat /\ LotsOf(entry, orders, g, x) = Lots(g, x)
    BY <1>1, LotsAre, LotsInTheseTerms
  <2>2. \A i \in W : i \in DOMAIN orders /\ i = c /\ rest[i] \in Nat /\ rest[i] <= LotsOf(entry, orders, g, x)
    <3> SUFFICES ASSUME NEW i \in W
                 PROVE  i \in DOMAIN orders /\ i = c /\ rest[i] \in Nat /\ rest[i] <= LotsOf(entry, orders, g, x)
      OBVIOUS
    <3>1. i \in OrderIn(orders, g) /\ orders[i].working /\ i \in DOMAIN orders
      BY DEF WithLeg, OrdersOf, Working, OrderIn
    <3> QED BY <1>1, <3>1, LotsAre
  <2> HIDE DEF rest, W, c
  <2>3. CASE W = {}
    <3>1. SumFunctionOnSet(rest, W) = 0
      BY <2>3, SumEmpty
    <3> QED BY <2>1, <3>1 DEF rest, W
  <2>4. CASE W # {}
    <3>1. W = {c} /\ c \in W
      BY <2>2, <2>4
    <3>2. IsFiniteSet(W)
      BY <3>1, FS_Singleton
    <3>3. SumFunctionOnSet(rest, W) = rest[c] + SumFunctionOnSet(rest, W \ {c})
      BY <2>2, <3>1, <3>2, SumSplit
    <3>4. SumFunctionOnSet(rest, W \ {c}) = 0
      BY <3>1, SumEmpty
    <3>5. SumFunctionOnSet(rest, W) = rest[c]
      BY <2>2, <3>1, <3>3, <3>4
    <3> QED BY <2>1, <2>2, <3>1, <3>5 DEF rest, W
  <2> QED BY <2>3, <2>4
<1> QED BY <1>1, LifecycleInvariant, StakeInvariant, PTL

\* Where no structure has lots, the account has none.
LEMMA NothingHeld ==
  ASSUME LifecycleInv, StakeInv, NEW x \in Symbols, Owned(x),
         \A g \in Holders(x) : LotsOf(entry, orders, g, x) = 0
  PROVE  position[x] = 0
<1> DEFINE f == StakesOf(entry, orders, x)
           S == Holders(x)
<1>1. IsFiniteSet(S) /\ S \subseteq Groups
  BY HoldersAre
<1>2. position[x] = SumFunctionOnSet(f, S)
  BY StakeIs, LotsInTheseTerms DEF Balance
<1>3. \A s \in {1, -1} : s * 0 = 0
  OBVIOUS
<1>4. \A g \in S : f[g] = 0
  BY <1>1, <1>3 DEF StakesOf, Sign
<1> HIDE DEF f, S
<1> QED BY <1>1, <1>2, <1>4, SumNothing

\* With lots on one side alone, a position is the lots of its holders, signed.
LEMMA SideBySide ==
  ASSUME LifecycleInv, StakeInv, RecordsRight, NEW x \in Symbols, Owned(x), OnOneSide(x),
         NEW g \in Holders(x), LotsOf(entry, orders, g, x) # 0,
         NEW lots, lots = [h \in Groups |-> LotsOf(entry, orders, h, x)]
  PROVE  /\ position[x] = Sign(Legs[g][x]) * SumFunctionOnSet(lots, Holders(x))
         /\ SumFunctionOnSet(lots, Holders(x)) \in Nat
         /\ \A h \in Holders(x) : lots[h] # 0 => Legs[h][x] = Legs[g][x]
         /\ \A h \in Groups : lots[h] = LotsOf(entry, orders, h, x) /\ lots[h] \in Nat
<1> DEFINE S == Holders(x)
           f == StakesOf(entry, orders, x)
           s == Sign(Legs[g][x])
<1>1. IsFiniteSet(S) /\ S \subseteq Groups
  BY HoldersAre
<1>2. \A h \in Groups : lots[h] = LotsOf(entry, orders, h, x) /\ lots[h] \in Nat
  BY LotsAre
<1>3. \A h \in S : lots[h] # 0 => Legs[h][x] = Legs[g][x]
  BY <1>1, <1>2, LotsInTheseTerms DEF OnOneSide
<1>4. s \in {1, -1}
  BY DEF Sign
<1>5. ASSUME NEW h \in S PROVE lots[h] \in Int /\ f[h] = s * lots[h]
  <2>1. f[h] = Sign(Legs[h][x]) * lots[h] /\ lots[h] \in Nat
    BY <1>1, <1>2 DEF StakesOf
  <2>2. CASE lots[h] = 0
    <3>1. \A k \in {1, -1} : k * 0 = 0
      OBVIOUS
    <3>2. Sign(Legs[h][x]) \in {1, -1}
      BY DEF Sign
    <3> QED BY <1>4, <2>1, <2>2, <3>1, <3>2
  <2>3. CASE lots[h] # 0
    BY <1>3, <2>1, <2>3
  <2> QED BY <2>2, <2>3
<1>6. position[x] = SumFunctionOnSet(f, S)
  BY StakeIs, LotsInTheseTerms DEF Balance
<1>7. SumFunctionOnSet(lots, S) \in Nat
  <2>1. S \in SUBSET S /\ \A h \in S : lots[h] \in Nat
    BY <1>1, <1>2
  <2> QED BY <1>1, <2>1, SumGrows
<1> HIDE DEF S, f, s
<1>8. SumFunctionOnSet(f, S) = s * SumFunctionOnSet(lots, S)
  BY ONLY <1>1, <1>4, <1>5, SumSigned
<1> QED BY <1>2, <1>3, <1>6, <1>7, <1>8 DEF S, s

\* Each working close of a contract is the one close of its structure, and has
\* no more to fill than the account still holds of it.
LEMMA LeftToFill ==
  ASSUME LifecycleInv, StakeInv, RecordsRight, NEW x \in Symbols, Owned(x),
         NEW lots, lots = [g \in Groups |-> LotsOf(entry, orders, g, x)],
         NEW rest, rest = [i \in DOMAIN orders |-> orders[i].size - orders[i].filled]
  PROVE  /\ IsFiniteSet(WithLeg(Working, x))
         /\ \A i \in WithLeg(Working, x) : /\ rest[i] \in Nat
                                           /\ orders[i].for \in Holders(x)
                                           /\ lots[orders[i].for] # 0
                                           /\ orders[i].legs[x] = Legs[orders[i].for][x]
         /\ SumFunctionOnSet(rest, WithLeg(Working, x)) \in Nat
         /\ SumFunctionOnSet(rest, WithLeg(Working, x)) <= SumFunctionOnSet(lots, Holders(x))
<1> DEFINE W == WithLeg(Working, x)
           S == Holders(x)
           owner == [i \in DOMAIN orders |-> orders[i].for]
           most == [i \in DOMAIN orders |-> lots[orders[i].for]]
<1>1. IsFiniteSet(S) /\ S \subseteq Groups
  BY HoldersAre
<1>2. W \subseteq DOMAIN orders /\ IsFiniteSet(DOMAIN orders)
  BY Taken, OrdersAre DEF WithLeg, Working, Sized
<1>3. IsFiniteSet(W)
  BY <1>2, FS_Subset
<1>4. \A g \in Groups : lots[g] = LotsOf(entry, orders, g, x) /\ lots[g] \in Nat
  BY LotsAre
<1>5. ASSUME NEW i \in W
      PROVE  /\ owner[i] \in S /\ owner[i] = orders[i].for /\ orders[i].legs[x] = Legs[owner[i]][x]
             /\ rest[i] \in Nat /\ rest[i] # 0 /\ rest[i] <= lots[owner[i]]
             /\ most[i] = lots[owner[i]] /\ i = book[owner[i]].close
  <2>1. i \in DOMAIN orders /\ orders[i].working /\ x \in DOMAIN orders[i].legs
    BY DEF WithLeg, Working
  <2>2. orders[i].for \in Groups \cup {Orphan}
    BY <2>1, Taken, OrdersAre DEF Sized
  <2> DEFINE g == orders[i].for
  <2>3. g \in Groups /\ i \in OrderIn(orders, g) /\ owner[i] = g
    BY <2>1, <2>2 DEF Owned, WithLeg, OrdersOf, OrderIn
  <2>4. g \in S /\ orders[i].legs[x] = Legs[g][x]
    <3>1. OwnLegs(orders)
      BY StakeIs
    <3>2. HasLeg(g, x) /\ orders[i].legs[x] = Legs[g][x]
      BY <2>1, <2>3, <3>1 DEF OwnLegs
    <3> QED BY <2>3, <3>2 DEF Holders
  <2>5. rest[i] = orders[i].size - orders[i].filled
    BY <2>1
  <2>6. /\ i = book[g].close /\ rest[i] \in Nat \ {0}
        /\ rest[i] <= LotsOf(entry, orders, g, x)
    BY <2>1, <2>3, <2>5, LotsAre
  <2> QED BY <1>4, <2>1, <2>3, <2>4, <2>6
<1>6. \A i, j \in W : owner[i] = owner[j] => i = j
  <2>1. \A i \in W : i = book[owner[i]].close
    BY <1>5
  <2> HIDE DEF W, owner
  <2> QED BY <2>1
<1>7. \A i \in W : /\ lots[owner[i]] \in Int /\ most[i] = lots[owner[i]] /\ most[i] \in Nat
                   /\ lots[owner[i]] # 0 /\ rest[i] <= most[i] /\ rest[i] \in Nat
  <2> SUFFICES ASSUME NEW i \in W
               PROVE  /\ lots[owner[i]] \in Int /\ most[i] = lots[owner[i]] /\ most[i] \in Nat
                      /\ lots[owner[i]] # 0 /\ rest[i] <= most[i] /\ rest[i] \in Nat
    OBVIOUS
  <2>1. /\ owner[i] \in S /\ rest[i] \in Nat /\ rest[i] # 0 /\ rest[i] <= lots[owner[i]]
        /\ most[i] = lots[owner[i]]
    BY <1>5
  <2>2. lots[owner[i]] \in Nat
    BY <1>1, <1>4, <2>1
  <2> QED BY <2>1, <2>2
<1>8. \A i \in W : /\ rest[i] \in Nat /\ owner[i] \in S /\ orders[i].for \in S
                   /\ lots[orders[i].for] # 0
                   /\ orders[i].legs[x] = Legs[orders[i].for][x]
  BY <1>5, <1>7
<1> HIDE DEF W, S, owner, most
<1> DEFINE T == {owner[i] : i \in W}
<1>9. SumFunctionOnSet(most, W) = SumFunctionOnSet(lots, T)
  BY ONLY <1>3, <1>6, <1>7, SumImage
<1>10. T \in SUBSET S
  BY <1>8
<1>11. \A g \in S : lots[g] \in Nat
  BY <1>1, <1>4
<1> HIDE DEF T
<1>12. SumFunctionOnSet(lots, T) \in Nat /\ SumFunctionOnSet(lots, S) \in Nat
       /\ SumFunctionOnSet(lots, T) <= SumFunctionOnSet(lots, S)
  BY ONLY <1>1, <1>10, <1>11, SumGrows
<1>13. SumFunctionOnSet(rest, W) <= SumFunctionOnSet(most, W)
  BY ONLY <1>3, <1>7, SumMonotone
<1>14. SumFunctionOnSet(rest, W) \in Nat
  <2>1. W \in SUBSET W
    OBVIOUS
  <2> QED BY ONLY <1>3, <1>7, <2>1, SumGrows
<1>15. SumFunctionOnSet(rest, W) <= SumFunctionOnSet(lots, S)
  BY <1>9, <1>12, <1>13, <1>14
<1> QED BY <1>3, <1>8, <1>14, <1>15 DEF W, S

\* _ownership_conflicts ("a close cannot exceed the account's exposure"), of each
\* contract, whatever fails: while the records are right, the working closes of
\* a contract stay within its position, if the orphan path let it be and the
\* structures that still have lots of it have them on one side.
THEOREM CloseAlwaysWithinExposure ==
  Spec => [](\A x \in Symbols : RecordsRight /\ Owned(x) /\ OnOneSide(x) => CloseWithin(x))
<1>1. ASSUME LifecycleInv, StakeInv, RecordsRight, NEW x \in Symbols, Owned(x), OnOneSide(x)
      PROVE  CloseWithin(x)
  <2> DEFINE lots == [g \in Groups |-> LotsOf(entry, orders, g, x)]
             rest == [i \in DOMAIN orders |-> orders[i].size - orders[i].filled]
             f == [i \in DOMAIN orders |-> Sign(orders[i].legs[x]) * (orders[i].size - orders[i].filled)]
             W == WithLeg(Working, x)
             left == SumFunctionOnSet(f, W)
             a == SumFunctionOnSet(rest, W)
             b == SumFunctionOnSet(lots, Holders(x))
  <2>1. /\ IsFiniteSet(W) /\ a \in Nat /\ a <= b
        /\ \A i \in W : /\ rest[i] \in Nat /\ orders[i].for \in Holders(x) /\ lots[orders[i].for] # 0
                        /\ orders[i].legs[x] = Legs[orders[i].for][x]
    <3> HIDE DEF lots, rest
    <3> QED BY <1>1, LeftToFill DEF lots, rest
  <2>2. \A h \in Holders(x) : lots[h] = LotsOf(entry, orders, h, x)
    BY HoldersAre
  <2>3. CASE \A h \in Holders(x) : lots[h] = 0
    <3>1. position[x] = 0
      BY <1>1, <2>2, <2>3, NothingHeld
    <3>2. W = {}
      BY <2>1, <2>3
    <3>3. left = 0
      BY <3>2, SumEmpty
    <3> HIDE DEF left
    <3>4. IF position[x] >= 0 THEN left \in 0..position[x] ELSE left \in position[x]..0
      BY <3>1, <3>3
    <3> QED BY <3>4 DEF CloseWithin, left
  <2>4. CASE \E h \in Holders(x) : lots[h] # 0
    <3>1. PICK g \in Holders(x) : lots[g] # 0
      BY <2>4
    <3> DEFINE s == Sign(Legs[g][x])
    <3>2. /\ position[x] = s * b /\ b \in Nat
          /\ \A h \in Holders(x) : lots[h] # 0 => Legs[h][x] = Legs[g][x]
      BY <1>1, <2>2, <3>1, SideBySide
    <3>3. s \in {1, -1}
      BY DEF Sign
    <3>4. \A i \in W : rest[i] \in Int /\ f[i] = s * rest[i]
      <4> SUFFICES ASSUME NEW i \in W PROVE rest[i] \in Int /\ f[i] = s * rest[i]
        OBVIOUS
      <4>1. i \in DOMAIN orders
        BY DEF WithLeg, Working
      <4>2. orders[i].legs[x] = Legs[g][x]
        BY <2>1, <3>2
      <4>3. f[i] = Sign(orders[i].legs[x]) * (orders[i].size - orders[i].filled)
        BY <4>1
      <4>4. rest[i] = orders[i].size - orders[i].filled
        BY <4>1
      <4>5. rest[i] \in Int
        BY <2>1
      <4> HIDE DEF f, rest, W
      <4> QED BY <4>2, <4>3, <4>4, <4>5
    <3>5. left = s * a
      <4> HIDE DEF f, W, s, rest
      <4> QED BY ONLY <2>1, <3>3, <3>4, SumSigned
    <3> HIDE DEF left, s, a, b
    <3>6. IF position[x] >= 0 THEN left \in 0..position[x] ELSE left \in position[x]..0
      <4>1. CASE s = 1
        <5>1. position[x] = b /\ left = a
          BY <2>1, <3>2, <3>5, <4>1
        <5> QED BY <2>1, <3>2, <5>1
      <4>2. CASE s = -1
        <5>1. position[x] = -b /\ left = -a
          BY <2>1, <3>2, <3>5, <4>2
        <5> QED BY <2>1, <3>2, <5>1
      <4> QED BY <3>3, <4>1, <4>2
    <3> QED BY <3>6 DEF CloseWithin, left
  <2> QED BY <2>3, <2>4
<1>2. LifecycleInv /\ StakeInv =>
        \A x \in Symbols : RecordsRight /\ Owned(x) /\ OnOneSide(x) => CloseWithin(x)
  BY <1>1
<1> QED BY <1>2, LifecycleInvariant, StakeInvariant, PTL

\* strategy/exits.py: whatever fails, an exit never leaves a short contract
\* without the longs beside it, while the records are right, closes have all the
\* legs of their structures, no contract is held on two sides and the orphan
\* path has let them be; closes fill leg by leg in step, and structures may share.
THEOREM NeverNakedShort ==
  Hedged => (Spec => [](RecordsRight /\ WholeCloses /\ (\A x \in Symbols : Owned(x) /\ OnOneSide(x))
                          => NoNakedShort))
<1> SUFFICES ASSUME Hedged
             PROVE  Spec => [](RecordsRight /\ WholeCloses /\ (\A x \in Symbols : Owned(x) /\ OnOneSide(x))
                                 => NoNakedShort)
  OBVIOUS
<1>1. ASSUME LifecycleInv, StakeInv, RecordsRight, WholeCloses,
             \A x \in Symbols : Owned(x) /\ OnOneSide(x)
      PROVE  NoNakedShort
  <2> SUFFICES ASSUME NEW x \in Symbols, position[x] < 0
               PROVE  -position[x] <= SumFunctionOnSet(Long, Cover(x))
    BY DEF NoNakedShort
  <2> DEFINE spent == [g \in Groups |-> Fill(orders, OrderIn(orders, g))]
             lots == [g \in Groups |-> entry[g].filled - spent[g]]
             lotsOf(y) == [g \in Groups |-> LotsOf(entry, orders, g, y)]
             S == {h \in Holders(x) : lots[h] # 0}
             C == Cover(x)
             R == [y \in C |-> {h \in Holders(y) : lots[h] # 0 /\ Legs[h][y] = "buy"}]
  <2>1. ASSUME NEW y, NEW h \in Holders(y)
        PROVE  h \in Groups /\ LotsOf(entry, orders, h, y) = lots[h] /\ lotsOf(y)[h] = lots[h] /\ lots[h] \in Nat
    <3>1. h \in Groups /\ y \in DOMAIN Legs[h]
      BY DEF Holders, HasLeg
    <3>2. Bearing(orders, h, y) = OrderIn(orders, h)
      BY <1>1, <3>1 DEF WholeCloses, Bearing, OrderIn, OrdersOf
    <3>3. LotsOf(entry, orders, h, y) \in Nat
      BY <1>1, <3>1, LotsAre
    <3> QED BY <3>1, <3>2, <3>3 DEF LotsOf
  <2>2. \A y : IsFiniteSet(Holders(y)) /\ Holders(y) \subseteq Groups
    BY HoldersAre
  <2>3. ASSUME NEW y \in Symbols, NEW g \in Holders(y), lots[g] # 0
        PROVE  /\ position[y] = Sign(Legs[g][y]) * SumFunctionOnSet(lotsOf(y), Holders(y))
               /\ SumFunctionOnSet(lotsOf(y), Holders(y)) \in Nat
               /\ \A h \in Holders(y) : lots[h] # 0 => Legs[h][y] = Legs[g][y]
    <3>1. LotsOf(entry, orders, g, y) # 0 /\ Owned(y) /\ OnOneSide(y)
      BY <1>1, <2>1, <2>3
    <3> HIDE DEF lots
    <3> QED BY <1>1, <2>1, <3>1, SideBySide
  <2>4. ASSUME NEW y, NEW T \in SUBSET Holders(y), \A h \in Holders(y) \ T : lots[h] = 0
        PROVE  SumFunctionOnSet(lotsOf(y), Holders(y)) = SumFunctionOnSet(lots, T)
    <3> DEFINE l == lotsOf(y)
               H == Holders(y)
    <3>1. \A h \in H : l[h] = lots[h] /\ l[h] \in Nat
      BY <2>1
    <3>2. IsFiniteSet(H) /\ T \in SUBSET H
      BY <2>2
    <3>3. IsFiniteSet(T)
      BY <3>2, FS_Subset
    <3>4. \A h \in T : l[h] \in Int /\ l[h] = lots[h]
      BY <3>1
    <3>5. \A h \in H \ T : l[h] = 0
      BY <2>4, <3>1
    <3> HIDE DEF l, H, lots
    <3>6. SumFunctionOnSet(l, H) = SumFunctionOnSet(l, T)
      BY ONLY <3>2, <3>4, <3>5, SumWithin
    <3>7. SumFunctionOnSet(l, T) = SumFunctionOnSet(lots, T)
      BY ONLY <3>3, <3>4, SumSame
    <3> QED BY <3>6, <3>7 DEF l, H
  <2>5. PICK g \in Holders(x) : lots[g] # 0
    <3> SUFFICES ASSUME \A h \in Holders(x) : lots[h] = 0 PROVE FALSE
      OBVIOUS
    <3>1. \A h \in Holders(x) : LotsOf(entry, orders, h, x) = 0
      BY <2>1
    <3>2. position[x] = 0
      BY <1>1, <3>1, NothingHeld
    <3> QED BY <3>2
  <2>6. /\ -position[x] = SumFunctionOnSet(lots, S) /\ Legs[g][x] # "buy"
        /\ \A h \in S : Legs[h][x] = Legs[g][x]
    <3> DEFINE b == SumFunctionOnSet(lotsOf(x), Holders(x))
    <3>1. /\ position[x] = Sign(Legs[g][x]) * b /\ b \in Nat
          /\ \A h \in S : Legs[h][x] = Legs[g][x]
      BY <2>3, <2>5
    <3>2. b = SumFunctionOnSet(lots, S)
      <4>1. S \in SUBSET Holders(x) /\ \A h \in Holders(x) \ S : lots[h] = 0
        OBVIOUS
      <4> HIDE DEF S, lots
      <4> QED BY <2>4, <4>1
    <3> HIDE DEF b
    <3>3. CASE Legs[g][x] = "buy"
      <4>1. position[x] = b
        BY <3>1, <3>3 DEF Sign
      <4> QED BY <3>1, <4>1
    <3>4. CASE Legs[g][x] # "buy"
      <4>1. position[x] = -b
        BY <3>1, <3>4 DEF Sign
      <4> QED BY <3>1, <3>2, <3>4, <4>1
    <3> QED BY <3>3, <3>4
  <2>7. /\ IsFiniteSet(Holders(x)) /\ S \in SUBSET Holders(x) /\ C \subseteq Symbols /\ IsFiniteSet(C)
        /\ IsFiniteSet(Groups) /\ S \in SUBSET Groups
    <3>1. C \subseteq Symbols
      BY DEF Cover
    <3> QED BY <2>2, <3>1, LifecycleAssumption, FS_Subset
  <2>8. ASSUME NEW h \in S PROVE \E y \in C : h \in R[y]
    <3>1. h \in Groups /\ x \in DOMAIN Legs[h] /\ Legs[h][x] # "buy" /\ lots[h] # 0
      BY <2>6 DEF Holders, HasLeg
    <3>2. PICK D \in SUBSET Symbols : Legs[h] \in [D -> {"buy", "sell"}]
      BY <3>1, LifecycleAssumption DEF LegSets
    <3>3. PICK y \in DOMAIN Legs[h] : Legs[h][y] = "buy"
      BY <3>1, <3>2 DEF Hedged
    <3>4. y \in Symbols /\ y \in C /\ h \in Holders(y)
      BY <3>1, <3>2, <3>3 DEF Cover, Holders, HasLeg
    <3> QED BY <3>1, <3>3, <3>4
  <2>9. ASSUME NEW y \in C
        PROVE  R[y] \in SUBSET Holders(y) /\ Long[y] = SumFunctionOnSet(lots, R[y])
    <3>1. y \in Symbols
      BY <2>7
    <3>2. R[y] = {h \in Holders(y) : lots[h] # 0 /\ Legs[h][y] = "buy"}
      OBVIOUS
    <3>3. Long[y] = IF position[y] > 0 THEN position[y] ELSE 0
      BY <3>1 DEF Long
    <3> DEFINE b == SumFunctionOnSet(lotsOf(y), Holders(y))
    <3>4. CASE \E h \in Holders(y) : lots[h] # 0 /\ Legs[h][y] = "buy"
      <4>1. PICK h \in Holders(y) : lots[h] # 0 /\ Legs[h][y] = "buy"
        BY <3>4
      <4>2. /\ position[y] = Sign(Legs[h][y]) * b /\ b \in Nat
            /\ \A k \in Holders(y) : lots[k] # 0 => Legs[k][y] = "buy"
        BY <2>3, <3>1, <4>1
      <4>3. b = SumFunctionOnSet(lots, R[y])
        <5>1. R[y] \in SUBSET Holders(y) /\ \A k \in Holders(y) \ R[y] : lots[k] = 0
          BY <3>2, <4>2
        <5> HIDE DEF R, lots
        <5> QED BY <2>4, <5>1
      <4> HIDE DEF b, R, lots
      <4>4. position[y] = b
        BY <4>1, <4>2 DEF Sign
      <4>5. Long[y] = b
        BY <3>3, <4>2, <4>4
      <4> QED BY <3>2, <4>3, <4>5
    <3>5. CASE ~\E h \in Holders(y) : lots[h] # 0 /\ Legs[h][y] = "buy"
      <4>1. R[y] = {}
        BY <3>2, <3>5
      <4>2. SumFunctionOnSet(lots, R[y]) = 0
        BY <4>1, SumEmpty
      <4>3. ~(position[y] > 0)
        <5>1. CASE \A h \in Holders(y) : lots[h] = 0
          <6>1. \A h \in Holders(y) : LotsOf(entry, orders, h, y) = 0
            BY <2>1, <5>1
          <6>2. position[y] = 0
            BY <1>1, <3>1, <6>1, NothingHeld
          <6> QED BY <6>2
        <5>2. CASE \E h \in Holders(y) : lots[h] # 0
          <6>1. PICK h \in Holders(y) : lots[h] # 0
            BY <5>2
          <6>2. Legs[h][y] # "buy"
            BY <3>5, <6>1
          <6>3. position[y] = Sign(Legs[h][y]) * b /\ b \in Nat
            BY <2>3, <3>1, <6>1
          <6> HIDE DEF b
          <6>4. position[y] = -b
            BY <6>2, <6>3 DEF Sign
          <6> QED BY <6>3, <6>4
        <5> QED BY <5>1, <5>2
      <4> QED BY <3>3, <4>1, <4>2, <4>3
    <3> QED BY <3>4, <3>5
  <2>10. \A y \in C : R[y] \in SUBSET Groups /\ Long[y] = SumFunctionOnSet(lots, R[y])
    BY <2>2, <2>9
  <2> DEFINE U == UNION {S, UNION {R[y] : y \in C}}
  <2>11. ASSUME NEW h \in U PROVE lots[h] \in Nat
    <3>1. h \in S \/ \E y \in C : h \in R[y]
      OBVIOUS
    <3>2. \E y : h \in Holders(y)
      BY <2>9, <3>1
    <3> QED BY <2>1, <3>2
  <2>12. IsFiniteSet(U) /\ S \in SUBSET U /\ \A y \in C : R[y] \in SUBSET U
    <3> HIDE DEF S, R, C, lots
    <3>1. U \subseteq Groups
      BY <2>7, <2>10
    <3>2. IsFiniteSet(U)
      BY <2>7, <3>1, FS_Subset
    <3> QED BY <3>2
  <2> HIDE DEF S, C, R, lots, U
  <2>13. SumFunctionOnSet(lots, S) <= SumFunctionOnSet(Long, C)
    BY ONLY <2>7, <2>8, <2>10, <2>11, <2>12, SumCovered
  <2> QED BY <2>6, <2>13 DEF C
<1>2. LifecycleInv /\ StakeInv =>
        (RecordsRight /\ WholeCloses /\ (\A x \in Symbols : Owned(x) /\ OnOneSide(x)) => NoNakedShort)
  BY <1>1
<1> QED BY <1>2, LifecycleInvariant, StakeInvariant, PTL
-----------------------------------------------------------------------------
(* Whom the orphan path finds, when statuses are all that fails: OwnedInv. *)

Sees(stage, p, e, g) == \/ stage = "open"
                        \/ p \in {"cleanup", "entries"} /\ stage = "pending" /\ e[g].filled > 0
Watched == {"cleanup", "entries"} \cup InManage

LEMMA OwnedIs ==
  OwnedInv <=>
    /\ \A x \in Symbols : Bearing(orders, Orphan, x) = {}
    /\ \A g \in Groups : ledger[g].stage = "pending" => entry[g].filled \in {0, Size[g]}
    /\ pc \in Watched => \A x \in Symbols : snap[x] # 0 =>
                           \E g \in Holders(x) : Sees(ledger[g].stage, pc, entry, g)
    /\ pc = "orphans" => todo = {}
BY LotsInTheseTerms DEF OwnedInv, WillManage, Sees, Watched

LEMMA OwnedThen ==
  OwnedInv' <=>
    /\ \A x \in Symbols : Bearing(orders', Orphan, x) = {}
    /\ \A g \in Groups : ledger'[g].stage = "pending" => entry'[g].filled \in {0, Size[g]}
    /\ pc' \in Watched => \A x \in Symbols : snap'[x] # 0 =>
                            \E g \in Holders(x) : Sees(ledger'[g].stage, pc', entry', g)
    /\ pc' = "orphans" => todo' = {}
BY DEF OwnedInv, Owned, Bearing, WithLeg, OrdersOf, OrderIn, WillManage, Sees, Watched, Holders, HasLeg

\* Steps that keep the snapshot, and what it shows in sight.
LEMMA InSight ==
  ASSUME OwnedInv, snap' = snap,
         \A x \in Symbols : Bearing(orders', Orphan, x) = {},
         \A g \in Groups : ledger'[g].stage = "pending" => entry'[g].filled \in {0, Size[g]},
         pc' \in Watched =>
           pc \in Watched /\ \A g \in Groups : Sees(ledger[g].stage, pc, entry, g) =>
                                               Sees(ledger'[g].stage, pc', entry', g),
         pc' = "orphans" => todo' = {}
  PROVE  OwnedInv'
<1>1. ASSUME pc' \in Watched, NEW x \in Symbols, snap[x] # 0
      PROVE  \E g \in Holders(x) : Sees(ledger'[g].stage, pc', entry', g)
  <2>1. PICK g \in Holders(x) : Sees(ledger[g].stage, pc, entry, g)
    BY <1>1, OwnedIs
  <2> QED BY <1>1, <2>1, HoldersAre
<1> QED BY <1>1, OwnedThen

\* Orders that are joined by none of the orphan path's.
LEMMA NoOrphanSent ==
  ASSUME OwnedInv, Grown(orders, orders'),
         \A i \in DOMAIN orders' \ DOMAIN orders : orders'[i].for # Orphan
  PROVE  \A x \in Symbols : Bearing(orders', Orphan, x) = {}
BY OwnedIs DEF Grown, Bearing, OrderIn

\* Whatever the account holds when a cycle looks belongs to a structure it will
\* manage: a closed one has no lots, as its closes had every leg.
LEMMA BeginOwned ==
  ASSUME LifecycleInv, StakeInv, OwnedInv, Undisturbed, Begin
  PROVE  OwnedInv'
<1>1. /\ pc = "idle" /\ pc' = "cleanup" /\ snap' = position
      /\ UNCHANGED <<ledger, book, orders, entry, position, todo>>
  BY DEF Begin, broker
<1>2. book = ledger
  BY <1>1, Taken, Lists DEF InManage
<1>3. Lossless /\ "unpriced" \notin Faults
  BY DEF Undisturbed, Lossless
<1>4. ASSUME NEW x \in Symbols, position[x] # 0
      PROVE  \E g \in Holders(x) : Sees(ledger[g].stage, pc', entry, g)
  <2>1. PICK g \in Holders(x) : LotsOf(entry, orders, g, x) # 0
    <3> SUFFICES ASSUME \A g \in Holders(x) : LotsOf(entry, orders, g, x) = 0 PROVE FALSE
      OBVIOUS
    <3>1. Owned(x)
      BY DEF OwnedInv
    <3> QED BY <1>4, <3>1, NothingHeld
  <2>2. g \in Groups /\ x \in DOMAIN Legs[g]
    BY <2>1 DEF Holders, HasLeg
  <2>3. /\ BoughtAs(ledger[g].stage, entry, g) /\ ledger[g].stage \in Stages
        /\ BorneOut(ledger[g], g, orders) /\ entry[g].filled \in Nat /\ Size[g] \in Nat
    BY <2>2, StakeIs, Taken, LotsAreInt, LifecycleAssumption DEF TypeOK, Record
  <2>4. Bearing(orders, g, x) = OrderIn(orders, g)
    BY <1>3, <2>2, Taken DEF WholeIn, Bearing
  <2>5. CASE ledger[g].stage = "closed"
    <3>1. entry[g].filled = Size[g]
      BY <2>3, <2>5 DEF BoughtAs
    <3>2. Fill(orders, OrderIn(orders, g)) = Size[g]
      BY <1>2, <1>3, <2>2, <2>5, StakeIs DEF FlatIn
    <3> QED BY <2>1, <2>3, <2>4, <3>1, <3>2 DEF LotsOf
  <2>6. CASE ledger[g].stage \in {"none", "pending", "dropped"}
    <3>1. OrderIn(orders, g) = {}
      BY <2>3, <2>6 DEF BorneOut, Unentered
    <3>2. LotsOf(entry, orders, g, x) = entry[g].filled
      <4>1. Fill(orders, Bearing(orders, g, x)) = 0
        BY <2>4, <3>1, FillNothing
      <4> QED BY <2>3, <4>1 DEF LotsOf
    <3>3. ledger[g].stage = "pending"
      BY <2>1, <2>3, <2>6, <3>2 DEF BoughtAs
    <3>4. entry[g].filled > 0
      BY <2>1, <2>3, <3>2
    <3> QED BY <1>1, <2>1, <3>3, <3>4 DEF Sees
  <2>7. CASE ledger[g].stage = "open"
    BY <2>1, <2>7 DEF Sees
  <2> QED BY <2>3, <2>5, <2>6, <2>7 DEF Stages
<1> QED BY <1>1, <1>4, OwnedIs, OwnedThen DEF Watched, InManage

\* Every entry that has filled is promoted, for none is out of reach or filled in part.
LEMMA SettleOwned ==
  ASSUME LifecycleInv, OwnedInv, Undisturbed, NEW silent \in SUBSET Groups, SettleEntries(silent)
  PROVE  OwnedInv'
<1> DEFINE answered == {g \in Groups : ledger[g].stage = "pending"}
           full     == {g \in answered : entry[g].filled = Size[g]}
           void     == {g \in answered : entry[g].filled = 0 /\ entry[g].over}
           dropped(g) == [ledger[g] EXCEPT !.stage = "dropped"]
<1>1. /\ pc = "entries" /\ pc' = "closes" /\ silent = {}
      /\ UNCHANGED <<entry, orders, position, snap>>
  BY DEF SettleEntries, broker, Undisturbed
<1>2. ledger' = [g \in Groups |-> CASE g \in full -> Entered(g)
                                    [] g \in void -> dropped(g)
                                    [] OTHER      -> ledger[g]]
  BY <1>1 DEF SettleEntries
<1>3. ASSUME NEW g \in Groups
      PROVE  /\ g \in full => ledger'[g].stage = "open"
             /\ g \in void => ledger'[g].stage = "dropped"
             /\ g \notin full \cup void => ledger'[g].stage = ledger[g].stage
  <2>1. Size[g] # 0 /\ ~(g \in full /\ g \in void)
    BY LifecycleAssumption
  <2>2. Entered(g).stage = "open"
    BY DEF Entered
  <2>3. dropped(g).stage = "dropped"
    BY Taken DEF Record
  <2> HIDE DEF full, void, dropped
  <2> QED BY <1>2, <2>1, <2>2, <2>3
<1>4. ASSUME NEW g \in Groups
      PROVE  /\ Sees(ledger[g].stage, pc, entry, g) => ledger'[g].stage = "open"
             /\ ledger'[g].stage = "pending" => entry[g].filled \in {0, Size[g]}
  <2>1. ledger[g].stage = "pending" => entry[g].filled \in {0, Size[g]}
    BY OwnedIs
  <2>2. CASE g \in full
    BY <1>3, <2>2
  <2>3. CASE g \in void
    <3>1. /\ ledger'[g].stage = "dropped" /\ entry[g].filled = 0
          /\ ledger[g].stage = "pending"
      BY <1>3, <2>3
    <3> QED BY <3>1 DEF Sees
  <2>4. CASE g \notin full \cup void
    <3>1. ledger'[g].stage = ledger[g].stage
      BY <1>3, <2>4
    <3>2. ASSUME ledger[g].stage = "pending" PROVE ~(entry[g].filled > 0)
      <4>1. entry[g].filled = 0
        BY <2>1, <2>4, <3>2
      <4> QED BY <4>1
    <3> QED BY <2>1, <3>1, <3>2 DEF Sees
  <2> QED BY <2>2, <2>3, <2>4
<1> HIDE DEF answered, full, void, dropped
<1> QED BY <1>1, <1>4, InSight, OwnedIs DEF Watched, InManage, Sees

\* The steps of manage: what is open stays in sight, so nothing is orphaned.
LEMMA ManageOwned ==
  ASSUME LifecycleInv, OwnedInv,
         \/ ClosesDone \/ ClaimOwnership \/ ExitsDone \/ Save
         \/ \E g \in Groups : ReconcileClose(g) \/ StatusUnavailable(g) \/ NoExit(g)
         \/ \E x \in Symbols : LeaveOrphan(x)
  PROVE  OwnedInv'
<1>1. /\ UNCHANGED <<entry, orders, snap>> /\ pc \in InManage
      /\ pc' \in {pc, "claims", "exits", "orphans", "gates"}
      /\ pc' = "orphans" /\ pc # "orphans" =>
           pc = "exits" /\ todo' = {x \in Symbols \ Managed : snap[x] # 0}
      /\ pc = "orphans" => todo' \subseteq todo
      /\ pc' # "gates" => ledger' = ledger
      /\ ledger' = ledger \/ ledger' = book
  BY DEF ClosesDone, ClaimOwnership, ExitsDone, Save, ReconcileClose, StatusUnavailable, NoExit,
         LeaveOrphan, broker, InManage
<1>2. \A g \in Groups : ledger'[g].stage = "pending" => ledger[g].stage = "pending"
  <2>1. \A g \in Groups : \/ book[g].stage = ledger[g].stage
                          \/ book[g].stage = "closed" /\ ledger[g].stage = "open"
    BY Taken, Lists
  <2> QED BY <1>1, <2>1
<1>3. ASSUME pc' = "orphans" PROVE todo' = {}
  <2>1. CASE pc = "orphans"
    BY <1>1, <2>1, OwnedIs
  <2>2. CASE pc # "orphans"
    <3>1. ASSUME NEW x \in Symbols, snap[x] # 0 PROVE x \in Managed
      <4>1. PICK g \in Holders(x) : Sees(ledger[g].stage, pc, entry, g)
        BY <1>1, <1>3, <2>2, <3>1, OwnedIs DEF Watched, InManage
      <4>2. g \in Groups /\ ledger[g].stage = "open" /\ x \in DOMAIN Legs[g]
        BY <1>1, <1>3, <2>2, <4>1 DEF Sees, Holders, HasLeg
      <4> QED BY <4>2 DEF Managed, Open
    <3> QED BY <1>1, <1>3, <2>2, <3>1
  <2> QED BY <2>1, <2>2
<1>4. ASSUME pc' \in Watched
      PROVE  pc \in Watched /\ \A g \in Groups : Sees(ledger[g].stage, pc, entry, g) =>
                                                 Sees(ledger'[g].stage, pc', entry', g)
  BY <1>1, <1>4 DEF Watched, InManage, Sees
<1> QED BY <1>1, <1>2, <1>3, <1>4, InSight, OwnedIs

\* The steps of the broker and of entries, and the cancels of the cleanup.
LEMMA OtherOwned ==
  ASSUME LifecycleInv, StakeInv, OwnedInv, Undisturbed,
         \/ Cleanup \/ PermitEntries \/ EndCycle \/ UNCHANGED vars
         \/ \E g \in Groups : Enter(g) \/ EntryFills(g) \/ EntryEnds(g)
         \/ \E g \in Groups : \E priced \in SUBSET Symbols : SubmitExit(g, priced)
         \/ \E i \in DOMAIN orders : CloseFills(i) \/ CloseEnds(i)
  PROVE  OwnedInv'
<1>1. Sized(orders) /\ Orphan \notin Groups
  BY Taken, LifecycleAssumption
<1>2. CASE PermitEntries \/ EndCycle \/ UNCHANGED vars
  <2>1. UNCHANGED <<ledger, entry, orders, snap, todo>> /\ (pc' = pc \/ pc' \notin Watched)
    BY <1>2 DEF PermitEntries, EndCycle, vars, broker, Watched, InManage
  <2> QED BY <2>1, InSight, OwnedIs DEF Watched, InManage
<1>3. CASE Cleanup \/ \E i \in DOMAIN orders : CloseEnds(i)
  <2>1. UNCHANGED <<ledger, entry, snap, todo>> /\ (pc' = pc \/ (pc = "cleanup" /\ pc' = "entries"))
    BY <1>3 DEF Cleanup, CloseEnds
  <2>2. PICK C : orders' = [i \in DOMAIN orders |->
                              IF i \in C THEN [orders[i] EXCEPT !.working = FALSE] ELSE orders[i]]
    <3>1. CASE Cleanup
      BY <3>1 DEF Cleanup
    <3>2. ASSUME NEW k \in DOMAIN orders, CloseEnds(k)
          PROVE  orders' = [i \in DOMAIN orders |->
                              IF i \in {k} THEN [orders[i] EXCEPT !.working = FALSE] ELSE orders[i]]
      BY <1>1, <3>2, OrdersAre DEF CloseEnds, Sized
    <3> QED BY <1>3, <3>1, <3>2
  <2>3. Grown(orders, orders') /\ DOMAIN orders' = DOMAIN orders
    BY <1>1, <2>2, Stopped
  <2>4. \A x \in Symbols : Bearing(orders', Orphan, x) = {}
    BY <2>3, NoOrphanSent
  <2> QED BY <2>1, <2>4, InSight, OwnedIs DEF Watched, InManage, Sees
<1>4. ASSUME NEW i \in DOMAIN orders, CloseFills(i) PROVE OwnedInv'
  <2>1. UNCHANGED <<ledger, entry, snap, pc, todo>>
    BY <1>4 DEF CloseFills
  <2>2. \A x \in Symbols : Bearing(orders', Orphan, x) = {}
    BY <1>4, UnitFilled, NoOrphanSent
  <2> QED BY <2>1, <2>2, InSight, OwnedIs
<1>5. ASSUME NEW g \in Groups, NEW priced \in SUBSET Symbols, SubmitExit(g, priced) PROVE OwnedInv'
  <2> DEFINE legs == [x \in priced |-> Legs[g][x]]
             n == Len(orders')
  <2>1. /\ pc = "exits" /\ pc' = pc /\ g \in todo /\ UNCHANGED <<ledger, entry, snap>>
        /\ priced = DOMAIN Legs[g] /\ Len(orders) < MaxOrders
        /\ orders' = Append(orders, CloseOrder(g, legs, book[g].qty))
    BY <1>5 DEF SubmitExit, Undisturbed
  <2>2. legs \in LegSets
    <3>1. PICK D \in (SUBSET Symbols) \ {{}} : Legs[g] \in [D -> {"buy", "sell"}]
      BY LifecycleAssumption DEF LegSets
    <3>2. legs = Legs[g]
      BY <2>1, <3>1
    <3> QED BY <3>2, LifecycleAssumption
  <2>3. book[g].qty \in Nat \ {0} /\ g \in Groups \cup {Orphan}
    BY <2>1, Taken, Lists DEF Open, BorneOut, Record
  <2> HIDE DEF legs
  <2>4. Placed(n, g, legs, book[g].qty)
    BY <2>1, <2>2, <2>3, NewClose
  <2> HIDE DEF n
  <2>5. \A x \in Symbols : Bearing(orders', Orphan, x) = {}
    BY <1>1, <2>4, NoOrphanSent DEF Placed
  <2> QED BY <2>1, <2>5, InSight, OwnedIs
<1>6. ASSUME NEW g \in Groups, Enter(g) PROVE OwnedInv'
  <2>1. /\ pc' = "entering" /\ ledger[g].stage = "none" /\ UNCHANGED <<entry, orders, snap>>
        /\ ledger' = [ledger EXCEPT ![g].stage = "pending"]
    BY <1>6 DEF Enter, broker
  <2>2. \A h \in Groups : ledger'[h].stage = IF h = g THEN "pending" ELSE ledger[h].stage
    BY <2>1, Taken DEF TypeOK, Record
  <2>3. entry[g].filled = 0
    <3>1. BoughtAs("none", entry, g)
      BY <2>1, StakeIs
    <3> QED BY <3>1 DEF BoughtAs
  <2>4. \A h \in Groups : ledger'[h].stage = "pending" => entry[h].filled \in {0, Size[h]}
    BY <2>2, <2>3, OwnedIs
  <2> QED BY <2>1, <2>4, InSight, OwnedIs DEF Watched, InManage
<1>7. ASSUME NEW g \in Groups, EntryFills(g) \/ EntryEnds(g) PROVE OwnedInv'
  <2>1. UNCHANGED <<ledger, orders, snap, pc, todo>> /\ ledger[g].stage = "pending"
    BY <1>7 DEF EntryFills, EntryEnds
  <2>2. /\ entry'[g].filled = entry[g].filled \/ entry'[g].filled = Size[g]
        /\ \A h \in Groups \ {g} : entry'[h] = entry[h]
    <3>1. entry \in [Groups -> [filled : Nat, over : BOOLEAN]]
      BY Taken DEF TypeOK
    <3> QED BY <1>7, <3>1 DEF EntryFills, EntryEnds, Undisturbed
  <2>3. Size[g] > 0
    BY LifecycleAssumption
  <2>4. \A h \in Groups : ledger[h].stage = "pending" => entry'[h].filled \in {0, Size[h]}
    BY <2>1, <2>2, OwnedIs
  <2>5. \A h \in Groups : Sees(ledger[h].stage, pc, entry, h) => Sees(ledger[h].stage, pc, entry', h)
    BY <2>2, <2>3 DEF Sees
  <2> QED BY <2>1, <2>4, <2>5, InSight, OwnedIs
<1> QED BY <1>2, <1>3, <1>4, <1>5, <1>6, <1>7

LEMMA StepOwned ==
  ASSUME Undisturbed, LifecycleInv, StakeInv, OwnedInv, [Next]_vars
  PROVE  OwnedInv'
<1>1. CASE Start
  BY <1>1, BeginOwned, OtherOwned, SettleOwned DEF Start
<1>2. CASE Closes
  BY <1>2, ManageOwned DEF Closes
<1>3. CASE Exits
  BY <1>3, ManageOwned, OtherOwned DEF Exits, ExitUnanswered, Undisturbed
<1>4. CASE Orphans
  <2>1. \A x \in Symbols : ~CloseOrphan(x)
    BY OwnedIs DEF CloseOrphan
  <2> QED BY <1>4, <2>1, ManageOwned DEF Orphans
<1>5. CASE Entries
  BY <1>5, OtherOwned DEF Entries
<1>6. CASE World
  BY <1>6, OtherOwned DEF World, Crash, Undisturbed
<1>7. CASE UNCHANGED vars
  BY <1>7, OtherOwned
<1> QED BY <1>1, <1>2, <1>3, <1>4, <1>5, <1>6, <1>7 DEF Next

\* _close_orphans: while nothing but statuses fails, it never sells a contract of
\* a structure, for whatever the account showed belongs to one that is managed.
THEOREM ContractsStayOwned == Undisturbed => (Spec => [](\A x \in Symbols : Owned(x)))
<1> SUFFICES ASSUME Undisturbed PROVE Spec => [](\A x \in Symbols : Owned(x))
  OBVIOUS
<1>1. Init => OwnedInv
  <2> SUFFICES ASSUME Init PROVE OwnedInv
    OBVIOUS
  <2>1. /\ orders = <<>> /\ pc = "idle"
        /\ ledger = [g \in Groups |-> IF g \in Held THEN Entered(g) ELSE NoRecord]
    BY DEF Init
  <2>2. \A x \in Symbols : Bearing(orders, Orphan, x) = {}
    BY <2>1 DEF Bearing, OrderIn
  <2>3. \A g \in Groups : ledger[g].stage # "pending"
    BY <2>1 DEF Entered, NoRecord
  <2> QED BY <2>1, <2>2, <2>3, OwnedIs DEF Watched, InManage
<1>2. LifecycleInv /\ StakeInv /\ OwnedInv /\ [Next]_vars => OwnedInv'
  BY StepOwned
<1>3. OwnedInv => \A x \in Symbols : Owned(x)
  BY DEF OwnedInv
<1> QED BY <1>1, <1>2, <1>3, LifecycleInvariant, StakeInvariant, PTL DEF Spec
=============================================================================
