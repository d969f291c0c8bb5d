-------------------------- MODULE ResidualStockProofs --------------------------
(***************************************************************************)
(* ResidualInv and FlatInv are inductive for every set of structures on an *)
(* underlying, whatever their legs, dates and the stock held beside them,  *)
(* over any number of faults: the working orders lead back to what the     *)
(* account held, and closed means flat.                                    *)
(***************************************************************************)
EXTENDS ResidualStock, FiniteSums

\* What is left of an order to buy or to sell.
LEMMA RestIs ==
  ASSUME NEW o \in Order
  PROVE  /\ Rest(o) \in Int
         /\ o.qty > 0 => Rest(o) = o.qty - o.filled
         /\ o.qty < 0 => Rest(o) = o.qty + o.filled
         /\ o.filled = 0 => Rest(o) = o.qty
<1>1. o.qty \in Int /\ o.filled \in Nat
  BY DEF Order
<1>2. CASE o.qty > 0
  <2>1. SignOf(o.qty) = 1
    BY <1>2 DEF SignOf
  <2> QED BY <1>1, <1>2, <2>1 DEF Rest
<1>3. CASE o.qty < 0
  <2>1. SignOf(o.qty) = -1
    BY <1>1, <1>3 DEF SignOf
  <2> QED BY <1>1, <1>3, <2>1 DEF Rest
<1>4. CASE o.qty = 0
  <2>1. SignOf(o.qty) = 0
    BY <1>4 DEF SignOf
  <2> QED BY <1>1, <1>4, <2>1 DEF Rest
<1> QED BY <1>1, <1>2, <1>3, <1>4

\* What a structure delivers is a number, and so is what several deliver.
LEMMA Delivered ==
  ASSUME NEW due \in SUBSET Groups, NEW spot
  PROVE  SumFunctionOnSet([g \in Groups |-> Delivery(g, spot)], due) \in Int
<1> USE ResidualAssumption
<1>1. \A g \in Groups : Delivery(g, spot) \in Int
  <2> SUFFICES ASSUME NEW g \in Groups PROVE Delivery(g, spot) \in Int
    OBVIOUS
  <2> DEFINE W == {leg \in Legs[g] : InTheMoney(leg, spot)}
             f == [leg \in Legs[g] |-> Direction(leg) * Lot]
  <2>1. IsFiniteSet(W)
    BY FS_Subset
  <2>2. \A leg \in W : f[leg] \in Int
    BY DEF Direction, Lot
  <2>3. SumFunctionOnSet(f, W) \in Int
    <3> HIDE DEF f, W
    <3> QED BY <2>1, <2>2, SumInt
  <2> QED BY <2>3 DEF Delivery
<1>2. IsFiniteSet(due)
  BY FS_Subset
<1> DEFINE f == [g \in Groups |-> Delivery(g, spot)]
<1>3. \A g \in due : f[g] \in Int
  BY <1>1
<1>4. SumFunctionOnSet(f, due) \in Int
  <2> HIDE DEF f
  <2> QED BY <1>2, <1>3, SumInt
<1> QED BY <1>4

\* With at most the latest order working, that one is all that can still fill.
LEMMA WhenFilledIs ==
  ASSUME TypeOK, OrdersInv
  PROVE  /\ Working # {} => orders # <<>> /\ Live(Latest) /\ WhenFilled = stock - Rest(Latest)
         /\ Working = {} => WhenFilled = stock
<1> DEFINE f == [i \in DOMAIN orders |-> Rest(orders[i])]
<1>1. ASSUME Working # {}
      PROVE  orders # <<>> /\ Live(Latest) /\ WhenFilled = stock - Rest(Latest)
  <2>1. PICK i \in Working : TRUE
    BY <1>1
  <2>2. i \in DOMAIN orders /\ Live(orders[i]) /\ i = Len(orders)
    BY <2>1 DEF Working, OrdersInv
  <2>3. \A j \in Working : j = i
    BY <2>2 DEF Working, OrdersInv
  <2>4. Working = {i}
    BY <2>1, <2>3
  <2>5. f[i] = Rest(Latest) /\ f[i] \in Int
    <3>1. orders[i] \in Order
      BY <2>2 DEF TypeOK
    <3> QED BY <2>2, <3>1, RestIs DEF Latest
  <2>6. SumFunctionOnSet(f, {} \cup {i}) = SumFunctionOnSet(f, {}) + f[i]
    <3> HIDE DEF f
    <3> QED BY <2>5, SumAdd, FS_EmptySet
  <2>7. SumFunctionOnSet(f, {i}) = f[i]
    <3>1. {} \cup {i} = {i}
      OBVIOUS
    <3> HIDE DEF f
    <3> QED BY <2>5, <2>6, <3>1, SumEmpty
  <2>8. orders # <<>> /\ Live(Latest)
    BY <2>2 DEF Latest
  <2> QED BY <2>4, <2>5, <2>7, <2>8 DEF WhenFilled
<1>2. ASSUME Working = {} PROVE WhenFilled = stock
  <2>1. SumFunctionOnSet(f, {}) = 0
    BY SumEmpty
  <2> QED BY <1>2, <2>1 DEF WhenFilled, TypeOK
<1> QED BY <1>1, <1>2

-----------------------------------------------------------------------------
(* Steps that leave the account and what is recorded as they are.          *)

Recorded == <<file, book, orders, stock, base, settled, snap>>

LEMMA QuietStep ==
  ASSUME ResidualInv, UNCHANGED Recorded, pc' # "idle" => pc # "idle",
         price' \in Int, day' \in Int
  PROVE  ResidualInv'
<1>1. TypeOK'
  BY DEF ResidualInv, TypeOK, Recorded
<1>2. OrdersInv'
  BY DEF ResidualInv, OrdersInv, Recorded, Latest, Attempts, CidUsed
<1>3. ChainInv'
  BY DEF ResidualInv, ChainInv, Recorded, Latest
<1>4. \A g \in Groups : RecordSound(g, file[g])'
  BY DEF ResidualInv, RecordSound, Recorded, Latest, Attempts
<1>5. ASSUME pc' # "idle"
      PROVE  SeenInv' /\ \A g \in Groups : CopyInv(g)'
  BY <1>5 DEF ResidualInv, SeenInv, CopyInv, RecordSound, Recorded, Latest, Attempts
<1> QED BY <1>1, <1>2, <1>3, <1>4, <1>5 DEF ResidualInv

\* The steps of a cycle and of the market that are quiet.
LEMMA QuietActions ==
  ASSUME ResidualInv,
         \/ Move \/ Cleaned \/ ResidualsDone
         \/ \E g \in Groups : NothingPending(g) \/ StillWorking(g) \/ RepriceFailed(g) \/ PassedOver(g)
  PROVE  ResidualInv'
<1>1. UNCHANGED Recorded /\ (pc' # "idle" => pc # "idle")
  BY DEF Recorded, Move, Cleaned, ResidualsDone, NothingPending, StillWorking,
         RepriceFailed, PassedOver, Visit, world, control
<1>2. price' \in Int /\ day' \in Int
  <2>1. price \in Int /\ day \in Int
    BY DEF ResidualInv, TypeOK
  <2>2. CASE Move
    BY <2>1, <2>2, ResidualAssumption DEF Move
  <2>3. CASE ~Move
    BY <2>1, <2>3 DEF Cleaned, ResidualsDone, NothingPending, StillWorking, RepriceFailed,
                      PassedOver, world
  <2> QED BY <2>2, <2>3
<1> QED BY <1>1, <1>2, QuietStep

-----------------------------------------------------------------------------
(* Steps that end working orders: a cancel, and the end of a day.          *)

Finishes(o, p) == \/ p = o
                  \/ Live(o) /\ p \in {[o EXCEPT !.status = "CANCELED"], [o EXCEPT !.status = "EXPIRED"]}

\* An order that ends keeps everything but its status.
LEMMA FinishedOrder ==
  ASSUME NEW o \in Order, NEW p, Finishes(o, p)
  PROVE  /\ p \in Order /\ p.cid = o.cid /\ p.qty = o.qty /\ p.filled = o.filled
         /\ p.status # o.status => p.status \in {"CANCELED", "EXPIRED"} /\ Live(o)
         /\ Live(p) => Live(o)
         /\ Rest(p) = Rest(o)
<1>1. /\ p \in Order /\ p.cid = o.cid /\ p.qty = o.qty /\ p.filled = o.filled
      /\ p.status # o.status => p.status \in {"CANCELED", "EXPIRED"} /\ Live(o)
  BY DEF Finishes, Order
<1>2. Live(p) => Live(o)
  BY <1>1 DEF Live
<1> QED BY <1>1, <1>2 DEF Rest

LEMMA FinishStep ==
  ASSUME ResidualInv, UNCHANGED <<file, book, stock, base, settled, snap, price>>,
         orders' \in Seq(Order), DOMAIN orders' = DOMAIN orders,
         \A i \in DOMAIN orders : Finishes(orders[i], orders'[i]),
         pc' = pc, day' \in Int
  PROVE  ResidualInv'
<1>1. /\ TypeOK /\ OrdersInv /\ ChainInv /\ \A g \in Groups : RecordSound(g, file[g])
      /\ pc # "idle" => SeenInv /\ \A g \in Groups : CopyInv(g)
  BY DEF ResidualInv
<1>2. \A i \in DOMAIN orders : orders[i] \in Order
  BY <1>1 DEF TypeOK
<1>3. \A i \in DOMAIN orders :
        /\ orders'[i].cid = orders[i].cid /\ orders'[i].qty = orders[i].qty
        /\ orders'[i].filled = orders[i].filled
        /\ orders'[i].status # orders[i].status =>
             orders'[i].status \in {"CANCELED", "EXPIRED"} /\ Live(orders[i])
        /\ Live(orders'[i]) => Live(orders[i])
        /\ Rest(orders'[i]) = Rest(orders[i])
  BY <1>2, FinishedOrder
<1>4. Len(orders') = Len(orders) /\ (orders' = <<>> <=> orders = <<>>)
  BY <1>1 DEF TypeOK
<1>5. orders # <<>> => /\ Len(orders) \in DOMAIN orders
                       /\ Latest' = orders'[Len(orders)] /\ Latest = orders[Len(orders)]
  BY <1>1, <1>4 DEF TypeOK, Latest
<1>6. Attempts' = Attempts
  BY <1>3, <1>4, <1>5 DEF Attempts
<1>7. TypeOK'
  BY <1>1 DEF TypeOK
<1>8. OrdersInv'
  <2>1. \A n : CidUsed(<<n>>)' <=> CidUsed(<<n>>)
    BY <1>3 DEF CidUsed
  <2>2. \A i \in DOMAIN orders' :
          /\ orders'[i].cid # <<>> /\ Size(orders'[i].qty) \in 1 .. Lot
          /\ orders'[i].filled <= Size(orders'[i].qty)
          /\ orders'[i].status = "NEW" => orders'[i].filled = 0
          /\ Live(orders'[i]) => i = Len(orders') /\ orders'[i].filled < Size(orders'[i].qty)
    BY <1>1, <1>3, <1>4 DEF OrdersInv
  <2> QED BY <1>1, <1>6, <2>1, <2>2 DEF OrdersInv
<1>9. ChainInv'
  BY <1>1, <1>3, <1>4, <1>5 DEF ChainInv
<1>10. \A g \in Groups : \A r \in Record : RecordSound(g, r) => RecordSound(g, r)'
  <2> SUFFICES ASSUME NEW g \in Groups, NEW r \in Record, RecordSound(g, r)
               PROVE  RecordSound(g, r)'
    OBVIOUS
  <2>1. r.attempt > 0 => file'[g].baseline # NoQty /\ stock' - Rest(Latest') = file'[g].baseline
    <3>1. r.attempt > 0 => orders # <<>>
      BY DEF RecordSound, Attempts, Record
    <3> QED BY <1>3, <1>5, <3>1 DEF RecordSound
  <2>2. r.order # 0 =>
          /\ r.order \in DOMAIN orders' /\ r.attempt > 0
          /\ orders'[r.order].cid = r.cid /\ r.cid[1] = r.attempt
          /\ r.attempt = Attempts' => r.order = Len(orders') \/ orders'[r.order].status = "REPLACED"
    BY <1>3, <1>4, <1>6 DEF RecordSound, Live
  <2>3. (r.order = 0 /\ r.attempt > 0 /\ r.attempt = Attempts') => ~Live(Latest')
    <3>1. r.attempt > 0 => orders # <<>>
      BY DEF RecordSound, Attempts, Record
    <3> QED BY <1>3, <1>5, <1>6, <3>1 DEF RecordSound
  <2> QED BY <1>6, <2>1, <2>2, <2>3 DEF RecordSound
<1>11. \A g \in Groups : RecordSound(g, file[g])'
  BY <1>1, <1>10 DEF TypeOK
<1>12. pc' # "idle" => SeenInv'
  BY <1>1, <1>4 DEF SeenInv
<1>13. pc' # "idle" => \A g \in Groups : CopyInv(g)'
  BY <1>1, <1>4, <1>6, <1>10 DEF TypeOK, CopyInv
<1> QED BY <1>7, <1>8, <1>9, <1>11, <1>12, <1>13 DEF ResidualInv

\* An order nobody tracks is cancelled, or the broker refuses.
LEMMA CancelStep ==
  ASSUME ResidualInv, NEW i \in DOMAIN orders, CancelStray(i)
  PROVE  ResidualInv'
<1>1. TypeOK /\ orders[i] \in Order
  BY DEF ResidualInv, TypeOK
<1>2. CASE orders' = [orders EXCEPT ![i].status = "CANCELED"]
  <2>1. Live(orders[i])
    BY DEF CancelStray, Stray
  <2>2. [orders[i] EXCEPT !.status = "CANCELED"] \in Order
    BY <1>1 DEF Order
  <2>3. orders' \in Seq(Order) /\ DOMAIN orders' = DOMAIN orders
    BY <1>1, <1>2, <2>2 DEF TypeOK
  <2>4. \A j \in DOMAIN orders : Finishes(orders[j], orders'[j])
    BY <1>1, <1>2, <2>1 DEF TypeOK, Finishes
  <2> QED BY <1>1, <2>3, <2>4, FinishStep DEF CancelStray, world, TypeOK
<1>3. CASE UNCHANGED orders
  BY <1>1, <1>3, QuietStep DEF CancelStray, world, Recorded, TypeOK
<1> QED BY <1>2, <1>3 DEF CancelStray

\* The day that follows is a day within the bound.
LEMMA DayGrows ==
  ASSUME day \in Int
  PROVE  /\ Min({day + 1, MaxDay}) \in Int /\ Min({day + 1, MaxDay}) <= MaxDay
         /\ day <= MaxDay => day <= Min({day + 1, MaxDay})
<1> DEFINE m == Min({day + 1, MaxDay})
<1>1. MaxDay \in Int
  BY ResidualAssumption
<1>2. \E x \in {day + 1, MaxDay} : \A y \in {day + 1, MaxDay} : x =< y
  BY <1>1
<1>3. m \in {day + 1, MaxDay} /\ \A y \in {day + 1, MaxDay} : m =< y
  BY <1>2 DEF Min
<1> QED BY <1>1, <1>3

LEMMA NextDayStep ==
  ASSUME ResidualInv, NextDay
  PROVE  ResidualInv'
<1>1. TypeOK /\ \A i \in DOMAIN orders : orders[i] \in Order
  BY DEF ResidualInv, TypeOK
<1> DEFINE Night == [i \in DOMAIN orders |->
                IF Live(orders[i]) THEN [orders[i] EXCEPT !.status = "EXPIRED"] ELSE orders[i]]
<1>2. orders' = Night
  BY DEF NextDay
<1>3. \A i \in DOMAIN orders : Finishes(orders[i], Night[i])
  BY DEF Finishes
<1>4. \A i \in DOMAIN orders : Night[i] \in Order
  BY <1>1, <1>3, FinishedOrder
<1>5. Night \in Seq(Order) /\ DOMAIN Night = DOMAIN orders
  <2>1. DOMAIN orders = 1 .. Len(orders) /\ Len(orders) \in Nat
    BY <1>1 DEF TypeOK
  <2> QED BY <1>4, <2>1
<1>6. day' \in Int
  BY <1>1, DayGrows DEF NextDay, TypeOK
<1> QED BY <1>2, <1>3, <1>5, <1>6, FinishStep DEF NextDay, control

-----------------------------------------------------------------------------
(* Steps that only change what the working copy says of one structure.     *)

LEMMA CopyStep ==
  ASSUME ResidualInv, pc # "idle", pc' = pc, NEW g \in Groups, NEW r \in Record,
         book' = [book EXCEPT ![g] = r], CopyInv(g)',
         UNCHANGED <<file, orders, stock, base, settled, snap, price, day>>
  PROVE  ResidualInv'
<1>1. /\ TypeOK /\ OrdersInv /\ ChainInv /\ \A h \in Groups : RecordSound(h, file[h])
      /\ SeenInv /\ \A h \in Groups : CopyInv(h)
  BY DEF ResidualInv
<1>2. TypeOK'
  BY <1>1 DEF TypeOK
<1>3. OrdersInv'
  BY <1>1 DEF OrdersInv, Latest, Attempts, CidUsed
<1>4. ChainInv'
  BY <1>1 DEF ChainInv, Latest
<1>5. \A h \in Groups : RecordSound(h, file[h])'
  BY <1>1 DEF RecordSound, Latest, Attempts
<1>6. SeenInv'
  BY <1>1 DEF SeenInv
<1>7. \A h \in Groups \ {g} : CopyInv(h)'
  <2>1. \A h \in Groups \ {g} : book'[h] = book[h]
    BY <1>1 DEF TypeOK
  <2> QED BY <1>1, <2>1 DEF CopyInv, RecordSound, Latest, Attempts
<1> QED BY <1>2, <1>3, <1>4, <1>5, <1>6, <1>7 DEF ResidualInv

\* The order has no answer, or nobody can say whose the stock is.
LEMMA QuarantineStep ==
  ASSUME ResidualInv, NEW g \in Groups, StatusUnavailable(g) \/ Unattributed(g)
  PROVE  ResidualInv'
<1>1. TypeOK /\ CopyInv(g) /\ pc # "idle" /\ pc' = pc /\ book[g] \in Record
  BY DEF ResidualInv, StatusUnavailable, Unattributed, Visit, TypeOK
<1> DEFINE r == [book[g] EXCEPT !.quarantined = TRUE]
<1>2. r \in Record
  BY <1>1 DEF Record
<1>3. book' = [book EXCEPT ![g] = r] /\ UNCHANGED <<file, orders, world, snap>>
  BY DEF StatusUnavailable, Unattributed, Quarantined
<1>4. /\ book'[g] = r
      /\ r.closed = book[g].closed /\ r.baseline = book[g].baseline /\ r.order = book[g].order
      /\ r.cid = book[g].cid /\ r.attempt = book[g].attempt /\ r.remaining = book[g].remaining
      /\ r.waits = book[g].waits
  BY <1>1, <1>3 DEF TypeOK, Record
<1>5. CopyInv(g)'
  BY <1>1, <1>3, <1>4 DEF CopyInv, RecordSound, Latest, Attempts, world
<1> HIDE DEF r
<1> QED BY <1>1, <1>2, <1>3, <1>5, CopyStep DEF world

\* FILLED is believed once the account is back; otherwise the structure waits.
LEMMA FilledStep ==
  ASSUME ResidualInv, NEW g \in Groups, ResidualFilled(g)
  PROVE  ResidualInv'
<1>1. /\ TypeOK /\ ChainInv /\ CopyInv(g) /\ RecordSound(g, book[g])
      /\ pc # "idle" /\ pc' = pc /\ book[g] \in Record
  BY DEF ResidualInv, ResidualFilled, Visit, TypeOK, CopyInv
<1> DEFINE r == AfterFilled(book[g])
<1>2. r \in Record
  BY <1>1 DEF AfterFilled, Record
<1>3. book' = [book EXCEPT ![g] = r] /\ UNCHANGED <<file, orders, world, snap>>
  BY DEF ResidualFilled
<1>4. /\ book'[g] = r
      /\ r.baseline = book[g].baseline /\ r.order = 0
      /\ r.cid = book[g].cid /\ r.attempt = book[g].attempt /\ r.remaining = book[g].remaining
      /\ r.closed \/ (r.closed = book[g].closed /\ r.waits)
  BY <1>1, <1>3 DEF TypeOK, Record, AfterFilled
<1>5. /\ orders # <<>> /\ book[g].order \in DOMAIN orders /\ book[g].attempt > 0
      /\ book[g].attempt = Attempts => ~Live(Latest)
  BY <1>1 DEF ResidualFilled, Pending, Tracked, RecordSound, Live, Latest, TypeOK
<1>6. g \in settled \/ file[g].closed
  BY <1>1, <1>5 DEF ChainInv
<1>7. RecordSound(g, book[g])'
  BY <1>1, <1>3, <1>4, <1>5 DEF RecordSound, Latest, Attempts, world
<1>8. CopyInv(g)'
  BY <1>1, <1>3, <1>4, <1>5, <1>6, <1>7 DEF CopyInv, Latest, Attempts, world
<1> HIDE DEF r
<1> QED BY <1>1, <1>2, <1>3, <1>8, CopyStep DEF world

\* An order that ended is given up when the account shows what it left; then
\* the account is what the cycle saw.
LEMMA EndedStep ==
  ASSUME ResidualInv, NEW g \in Groups, ResidualEnded(g)
  PROVE  ResidualInv'
<1>1. /\ TypeOK /\ OrdersInv /\ ChainInv /\ CopyInv(g) /\ RecordSound(g, book[g])
      /\ pc # "idle" /\ pc' = pc /\ book[g] \in Record
  BY DEF ResidualInv, ResidualEnded, Visit, TypeOK, CopyInv
<1> DEFINE o == Tracked(g)
           r == AfterEnded(book[g], o)
<1>2. /\ orders # <<>> /\ book[g].order \in DOMAIN orders /\ book[g].attempt > 0
      /\ o = orders[book[g].order] /\ o \in Order /\ ~Live(o)
      /\ book[g].attempt = Attempts => o = Latest
  BY <1>1 DEF ResidualEnded, Pending, Tracked, RecordSound, Live, Latest, TypeOK
<1>3. book' = [book EXCEPT ![g] = r] /\ UNCHANGED <<file, orders, world, snap>>
  BY DEF ResidualEnded
<1>4. Rest(o) \in Int /\ (Rest(o) # 0 => Size(Rest(o)) \in 1 .. Lot)
  <2>1. o.qty \in Int /\ o.filled \in Nat /\ Size(o.qty) \in 1 .. Lot /\ o.filled <= Size(o.qty)
    BY <1>1, <1>2 DEF OrdersInv, Order
  <2>2. CASE o.qty > 0
    BY <1>2, <2>1, <2>2, RestIs DEF Size, Lot
  <2>3. CASE o.qty < 0
    BY <1>2, <2>1, <2>3, RestIs DEF Size, Lot
  <2>4. o.qty # 0
    BY <2>1 DEF Size
  <2> QED BY <2>1, <2>2, <2>3, <2>4
<1>5. CASE Observed(book[g]) # Rest(o)
  <2> DEFINE q == [book[g] EXCEPT !.quarantined = TRUE]
  <2>1. r = q
    BY <1>5 DEF AfterEnded
  <2>2. q \in Record /\ book'[g] = q
    BY <1>1, <1>3, <2>1 DEF Record, TypeOK
  <2>3. /\ q.closed = book[g].closed /\ q.baseline = book[g].baseline /\ q.order = book[g].order
        /\ q.cid = book[g].cid /\ q.attempt = book[g].attempt /\ q.remaining = book[g].remaining
        /\ q.waits = book[g].waits
    BY <1>1 DEF Record
  <2>4. CopyInv(g)'
    BY <1>1, <1>3, <2>2, <2>3 DEF CopyInv, RecordSound, Latest, Attempts, world
  <2> HIDE DEF q, r
  <2> QED BY <1>1, <1>3, <2>1, <2>2, <2>4, CopyStep DEF world
<1>6. CASE Observed(book[g]) = Rest(o)
  <2> DEFINE left == IF Rest(o) = 0 THEN NoQty ELSE Rest(o)
             q == [book[g] EXCEPT !.order = 0, !.remaining = left]
  <2>1. r = q
    BY <1>6 DEF AfterEnded
  <2>2. q \in Record /\ book'[g] = q
    BY <1>1, <1>3, <1>4, <2>1 DEF Record, TypeOK
  <2>3. /\ q.closed = book[g].closed /\ q.baseline = book[g].baseline /\ q.order = 0
        /\ q.cid = book[g].cid /\ q.attempt = book[g].attempt /\ q.remaining = left
        /\ q.waits = book[g].waits
    BY <1>1 DEF Record
  <2>4. left # NoQty => Size(left) \in 1 .. Lot
    BY <1>4
  <2>5. book[g].attempt = Attempts => stock = snap.stock /\ ~Live(Latest)
    <3> SUFFICES ASSUME book[g].attempt = Attempts PROVE stock = snap.stock /\ ~Live(Latest)
      OBVIOUS
    <3>1. o = Latest
      BY <1>2
    <3>2. file[g].baseline # NoQty /\ stock - Rest(Latest) = file[g].baseline
      BY <1>1, <1>2 DEF RecordSound
    <3>3. book[g].baseline = file[g].baseline /\ file[g].baseline \in Int
      BY <1>1, <3>2 DEF CopyInv, TypeOK, Record
    <3>4. snap.stock - file[g].baseline = Rest(Latest) /\ snap.stock \in Int /\ stock \in Int
      BY <1>1, <1>6, <3>1, <3>3 DEF Observed, TypeOK
    <3> QED BY <1>2, <1>4, <3>1, <3>2, <3>3, <3>4
  <2>6. RecordSound(g, book[g])'
    BY <1>1, <1>2, <1>3, <2>2, <2>3, <2>4, <2>5 DEF RecordSound, Latest, Attempts, world
  <2>7. CopyInv(g)'
    BY <1>1, <1>3, <2>2, <2>3, <2>5, <2>6 DEF CopyInv, Latest, Attempts, world
  <2> HIDE DEF q, r
  <2> QED BY <1>1, <1>3, <2>1, <2>2, <2>7, CopyStep DEF world
<1> QED BY <1>5, <1>6

\* No stock, so the structure ended worthless.
LEMMA AbsentStep ==
  ASSUME ResidualInv, NEW g \in Groups, ExpiredAbsent(g)
  PROVE  ResidualInv'
<1>1. /\ TypeOK /\ SeenInv /\ CopyInv(g) /\ pc # "idle" /\ pc' = pc /\ book[g] \in Record
      /\ g \in snap.gone /\ g \in settled
  BY DEF ResidualInv, ExpiredAbsent, NotThisCycle, Visit, TypeOK, SeenInv
<1> DEFINE r == [book[g] EXCEPT !.closed = TRUE, !.quarantined = FALSE]
<1>2. r \in Record
  BY <1>1 DEF Record
<1>3. book' = [book EXCEPT ![g] = r] /\ UNCHANGED <<file, orders, world, snap>>
  BY DEF ExpiredAbsent
<1>4. /\ book'[g] = r
      /\ r.closed /\ r.baseline = book[g].baseline /\ r.order = book[g].order
      /\ r.cid = book[g].cid /\ r.attempt = book[g].attempt /\ r.remaining = book[g].remaining
      /\ r.waits = book[g].waits
  BY <1>1, <1>3 DEF TypeOK, Record
<1>5. CopyInv(g)'
  BY <1>1, <1>3, <1>4 DEF CopyInv, RecordSound, Latest, Attempts, world
<1> HIDE DEF r
<1> QED BY <1>1, <1>2, <1>3, <1>5, CopyStep DEF world

-----------------------------------------------------------------------------
(* The market.                                                             *)

\* Settlement comes before the first order: once there is one, every
\* structure has settled or was closed before.
LEMMA SettleStep ==
  ASSUME ResidualInv, NEW d \in 0 .. MaxDay, NEW spot \in Spots, Settle(d, spot)
  PROVE  ResidualInv'
<1>1. /\ TypeOK /\ OrdersInv /\ ChainInv /\ \A g \in Groups : RecordSound(g, file[g])
      /\ pc # "idle" => SeenInv /\ \A g \in Groups : CopyInv(g)
  BY DEF ResidualInv
<1> DEFINE due == {g \in Groups : Expiry[g] = d /\ g \notin settled /\ ~file[g].closed}
<1>2. /\ due # {} /\ settled' = settled \cup due
      /\ stock' = stock + SumFunctionOnSet([g \in Groups |-> Delivery(g, spot)], due)
      /\ UNCHANGED <<file, book, orders, base, snap, price, day>> /\ pc' = pc
  BY DEF Settle, control
<1>3. due \in SUBSET Groups
  OBVIOUS
<1>4. orders = <<>>
  BY <1>1, <1>2 DEF ChainInv
<1>5. TypeOK'
  <2>1. stock' \in Int
    BY <1>1, <1>2, <1>3, Delivered DEF TypeOK
  <2> QED BY <1>1, <1>2, <1>3, <2>1 DEF TypeOK
<1>6. OrdersInv' /\ ChainInv'
  BY <1>1, <1>2, <1>4 DEF OrdersInv, ChainInv, Attempts, CidUsed
<1>7. \A g \in Groups : \A r \in Record : RecordSound(g, r) => RecordSound(g, r)'
  BY <1>2, <1>4 DEF RecordSound, Attempts, Record
<1>8. \A g \in Groups : RecordSound(g, file[g])'
  BY <1>1, <1>2, <1>7 DEF TypeOK
<1>9. pc' # "idle" => SeenInv'
  <2> SUFFICES ASSUME pc' # "idle" PROVE SeenInv'
    OBVIOUS
  <2>1. PICK h \in due : TRUE
    BY <1>2
  <2>2. h \in settled' /\ h \notin snap'.gone /\ ~file'[h].closed
    BY <1>1, <1>2, <2>1 DEF SeenInv
  <2> QED BY <1>1, <1>2, <2>2 DEF SeenInv
<1>10. pc' # "idle" => \A g \in Groups : CopyInv(g)'
  <2> SUFFICES ASSUME pc' # "idle", NEW g \in Groups PROVE CopyInv(g)'
    OBVIOUS
  <2>1. CopyInv(g) /\ book[g] \in Record /\ RecordSound(g, book[g])
    BY <1>1, <1>2 DEF TypeOK, CopyInv
  <2>2. RecordSound(g, book[g])' /\ ~(book[g].attempt > 0)
    BY <1>2, <1>4, <1>7, <2>1 DEF RecordSound, Attempts, Record
  <2> QED BY <1>2, <2>1, <2>2 DEF CopyInv
<1> QED BY <1>5, <1>6, <1>8, <1>9, <1>10 DEF ResidualInv

\* One more of the latest order fills; it leads to the same account.
LEMMA FillStep ==
  ASSUME ResidualInv, NEW i \in DOMAIN orders, Fill(i)
  PROVE  ResidualInv'
<1>1. /\ TypeOK /\ OrdersInv /\ ChainInv /\ \A g \in Groups : RecordSound(g, file[g])
      /\ pc # "idle" => SeenInv /\ \A g \in Groups : CopyInv(g)
  BY DEF ResidualInv
<1> DEFINE o == orders[i]
           n == o.filled + 1
           status == IF n = Size(o.qty) THEN "FILLED" ELSE "PARTIALLY_FILLED"
           p == [o EXCEPT !.filled = n, !.status = status]
<1>2. /\ Live(o) /\ i = Len(orders) /\ orders # <<>> /\ o = Latest /\ o \in Order
      /\ o.filled < Size(o.qty)
  BY <1>1 DEF Fill, OrdersInv, Latest, TypeOK
<1>3. /\ orders' = [orders EXCEPT ![i] = p] /\ stock' = stock - SignOf(o.qty)
      /\ UNCHANGED <<file, book, settled, base, snap, price, day>> /\ pc' = pc
  BY DEF Fill, control
<1>4. /\ p \in Order /\ p.cid = o.cid /\ p.qty = o.qty /\ p.filled = o.filled + 1
      /\ p.status = IF p.filled = Size(o.qty) THEN "FILLED" ELSE "PARTIALLY_FILLED"
  <2>1. n \in Nat /\ status \in {"FILLED", "PARTIALLY_FILLED"}
    BY <1>2 DEF Order
  <2>2. p \in Order /\ p.cid = o.cid /\ p.qty = o.qty /\ p.filled = n /\ p.status = status
    <3> HIDE DEF n, status
    <3> QED BY <1>2, <2>1 DEF Order
  <2> QED BY <2>2
<1>5. /\ DOMAIN orders' = DOMAIN orders /\ Len(orders') = Len(orders) /\ orders' # <<>>
      /\ orders'[i] = p /\ Latest' = p /\ \A j \in DOMAIN orders \ {i} : orders'[j] = orders[j]
      /\ orders' \in Seq(Order)
  <2> HIDE DEF p
  <2> QED BY <1>1, <1>2, <1>3, <1>4 DEF TypeOK, Latest
<1> HIDE DEF p, n, status
<1>6. Attempts' = Attempts
  BY <1>2, <1>4, <1>5 DEF Attempts
<1>7. SignOf(o.qty) \in Int /\ Rest(p) = Rest(o) - SignOf(o.qty) /\ Rest(o) \in Int
  <2>1. o.qty \in Int /\ o.filled \in Nat /\ Size(o.qty) \in 1 .. Lot
    BY <1>1, <1>2 DEF OrdersInv, Order
  <2>2. CASE o.qty > 0
    BY <1>2, <1>4, <2>1, <2>2, RestIs DEF SignOf
  <2>3. CASE o.qty < 0
    BY <1>2, <1>4, <2>1, <2>3, RestIs DEF SignOf
  <2>4. o.qty # 0
    BY <2>1 DEF Size
  <2> QED BY <2>1, <2>2, <2>3, <2>4
<1>8. stock' \in Int /\ stock' - Rest(Latest') = stock - Rest(Latest)
  BY <1>1, <1>2, <1>3, <1>5, <1>7 DEF TypeOK
<1>9. TypeOK'
  BY <1>1, <1>3, <1>5, <1>8 DEF TypeOK
<1>10. OrdersInv'
  <2>1. \A m : CidUsed(<<m>>)' <=> CidUsed(<<m>>)
    BY <1>4, <1>5 DEF CidUsed
  <2>2. \A j \in DOMAIN orders' :
          /\ orders'[j].cid # <<>> /\ Size(orders'[j].qty) \in 1 .. Lot
          /\ orders'[j].filled <= Size(orders'[j].qty)
          /\ orders'[j].status = "NEW" => orders'[j].filled = 0
          /\ Live(orders'[j]) => j = Len(orders') /\ orders'[j].filled < Size(orders'[j].qty)
    <3>1. o.filled \in Nat /\ Size(o.qty) \in Int /\ o.cid # <<>> /\ Size(o.qty) \in 1 .. Lot
      BY <1>1, <1>2 DEF OrdersInv, Order, Lot
    <3>2. p.filled <= Size(p.qty) /\ (Live(p) => p.filled < Size(p.qty)) /\ p.status # "NEW"
      BY <1>2, <1>4, <3>1 DEF Live
    <3>3. \A j \in DOMAIN orders \ {i} :
            /\ orders[j].cid # <<>> /\ Size(orders[j].qty) \in 1 .. Lot
            /\ orders[j].filled <= Size(orders[j].qty)
            /\ orders[j].status = "NEW" => orders[j].filled = 0
            /\ Live(orders[j]) => j = Len(orders) /\ orders[j].filled < Size(orders[j].qty)
      BY <1>1 DEF OrdersInv
    <3> QED BY <1>2, <1>4, <1>5, <3>1, <3>2, <3>3
  <2> QED BY <1>1, <1>6, <2>1, <2>2 DEF OrdersInv
<1>11. ChainInv'
  <2>1. Latest'.filled # 0
    BY <1>2, <1>4, <1>5 DEF Order
  <2> QED BY <1>1, <1>2, <1>3, <1>8, <2>1 DEF ChainInv
<1>12. \A g \in Groups : \A r \in Record :
         RecordSound(g, r) => RecordSound(g, r)' /\ ~(r.order = 0 /\ r.attempt > 0 /\ r.attempt = Attempts)
  <2> SUFFICES ASSUME NEW g \in Groups, NEW r \in Record, RecordSound(g, r)
               PROVE  /\ RecordSound(g, r)'
                      /\ ~(r.order = 0 /\ r.attempt > 0 /\ r.attempt = Attempts)
    OBVIOUS
  <2>1. ~(r.order = 0 /\ r.attempt > 0 /\ r.attempt = Attempts)
    BY <1>2 DEF RecordSound
  <2>2. r.order # 0 =>
          /\ r.order \in DOMAIN orders' /\ r.attempt > 0
          /\ orders'[r.order].cid = r.cid /\ r.cid[1] = r.attempt
          /\ r.attempt = Attempts' => r.order = Len(orders') \/ orders'[r.order].status = "REPLACED"
    BY <1>2, <1>4, <1>5, <1>6 DEF RecordSound
  <2>3. r.attempt > 0 => file'[g].baseline # NoQty /\ stock' - Rest(Latest') = file'[g].baseline
    BY <1>3, <1>8 DEF RecordSound
  <2> QED BY <1>6, <2>1, <2>2, <2>3 DEF RecordSound
<1>13. \A g \in Groups : RecordSound(g, file[g])'
  BY <1>1, <1>3, <1>12 DEF TypeOK
<1>14. pc' # "idle" => SeenInv'
  BY <1>1, <1>3, <1>5 DEF SeenInv
<1>15. pc' # "idle" => \A g \in Groups : CopyInv(g)'
  <2> SUFFICES ASSUME pc' # "idle", NEW g \in Groups PROVE CopyInv(g)'
    OBVIOUS
  <2>1. CopyInv(g) /\ book[g] \in Record /\ RecordSound(g, book[g])
    BY <1>1, <1>3 DEF TypeOK, CopyInv
  <2> QED BY <1>2, <1>3, <1>5, <1>6, <1>12, <2>1 DEF CopyInv
<1> QED BY <1>9, <1>10, <1>11, <1>13, <1>14, <1>15 DEF ResidualInv

\* The ordinary exit closes what has not expired; the account is not touched.
LEMMA OrdinaryStep ==
  ASSUME ResidualInv, NEW g \in Groups, OrdinaryClose(g)
  PROVE  ResidualInv'
<1>1. /\ TypeOK /\ OrdersInv /\ ChainInv /\ \A h \in Groups : RecordSound(h, file[h])
      /\ file[g] \in Record
  BY DEF ResidualInv, TypeOK
<1>2. /\ pc' = "idle" /\ UNCHANGED <<book, orders, stock, base, settled, snap, price, day>>
      /\ file' = [file EXCEPT ![g].closed = TRUE]
  BY DEF OrdinaryClose, control, world
<1> DEFINE r == [file[g] EXCEPT !.closed = TRUE]
<1>3. /\ r \in Record /\ r.closed /\ r.baseline = file[g].baseline /\ r.order = file[g].order
      /\ r.cid = file[g].cid /\ r.attempt = file[g].attempt /\ r.remaining = file[g].remaining
  BY <1>1 DEF Record
<1>4. file'[g] = r /\ \A h \in Groups \ {g} : file'[h] = file[h]
  BY <1>1, <1>2 DEF TypeOK
<1>5. TypeOK'
  BY <1>1, <1>2, <1>3 DEF TypeOK
<1> HIDE DEF r
<1>6. \A h \in Groups : /\ file'[h].baseline = file[h].baseline
                        /\ file[h].closed => file'[h].closed
  BY <1>3, <1>4
<1>7. OrdersInv' /\ ChainInv'
  BY <1>1, <1>2, <1>6 DEF OrdersInv, ChainInv, Latest, Attempts, CidUsed
<1>8. \A h \in Groups : RecordSound(h, file[h])'
  BY <1>1, <1>2, <1>3, <1>4, <1>6 DEF RecordSound, Latest, Attempts
<1> QED BY <1>2, <1>5, <1>7, <1>8 DEF ResidualInv

-----------------------------------------------------------------------------
(* The cycle.                                                              *)

\* A cycle starts with what is on file and with the account as it is.
LEMMA BeginStep ==
  ASSUME ResidualInv, NEW timely \in BOOLEAN, Begin(timely)
  PROVE  ResidualInv'
<1>1. /\ TypeOK /\ OrdersInv /\ ChainInv /\ \A h \in Groups : RecordSound(h, file[h])
      /\ \A h \in Groups : file[h] \in Record
  BY DEF ResidualInv, TypeOK
<1>2. /\ UNCHANGED <<file, orders, stock, base, settled, price, day>>
      /\ snap' = [stock |-> stock, gone |-> settled, price |-> price, day |-> day]
      /\ book' = [g \in Groups |-> WithBaseline(g, timely)]
  BY DEF Begin, world
<1>3. ASSUME NEW g \in Groups
      PROVE  LET r == WithBaseline(g, timely) IN
             /\ r \in Record /\ r.closed = file[g].closed /\ r.order = file[g].order
             /\ r.cid = file[g].cid /\ r.attempt = file[g].attempt /\ r.remaining = file[g].remaining
             /\ file[g].baseline # NoQty \/ Expiry[g] < day => r.baseline = file[g].baseline
  <2>1. stock \in Int /\ Expiry[g] \in Nat /\ day \in Int
    BY <1>1, ResidualAssumption DEF TypeOK
  <2>2. CASE ~file[g].closed /\ file[g].baseline = NoQty /\ (day < Expiry[g] \/ (day = Expiry[g] /\ timely))
    <3>1. WithBaseline(g, timely) = [file[g] EXCEPT !.baseline = stock, !.waits = FALSE]
      BY <2>2 DEF WithBaseline
    <3>2. ~(file[g].baseline # NoQty \/ Expiry[g] < day)
      BY <2>1, <2>2
    <3> QED BY <1>1, <2>1, <3>1, <3>2 DEF Record
  <2>3. CASE ~(~file[g].closed /\ file[g].baseline = NoQty /\ (day < Expiry[g] \/ (day = Expiry[g] /\ timely)))
    <3>1. WithBaseline(g, timely) = [file[g] EXCEPT !.waits = FALSE]
      BY <2>3 DEF WithBaseline
    <3> QED BY <1>1, <3>1 DEF Record
  <2> QED BY <2>2, <2>3
<1>4. TypeOK'
  <2>1. book' \in [Groups -> Record]
    BY <1>2, <1>3
  <2> QED BY <1>1, <1>2, <2>1 DEF TypeOK
<1>5. OrdersInv' /\ ChainInv'
  BY <1>1, <1>2 DEF OrdersInv, ChainInv, Latest, Attempts, CidUsed
<1>6. \A h \in Groups : RecordSound(h, file[h])'
  BY <1>1, <1>2 DEF RecordSound, Latest, Attempts
<1>7. SeenInv'
  BY <1>2 DEF SeenInv
<1>8. ASSUME NEW g \in Groups PROVE CopyInv(g)'
  <2> DEFINE r == WithBaseline(g, timely)
  <2>1. book'[g] = r
    BY <1>2
  <2>2. /\ r.closed = file[g].closed /\ r.order = file[g].order
        /\ r.cid = file[g].cid /\ r.attempt = file[g].attempt /\ r.remaining = file[g].remaining
        /\ file[g].baseline # NoQty \/ Expiry[g] < day => r.baseline = file[g].baseline
    BY <1>3
  <2> HIDE DEF r
  <2>3. RecordSound(g, book[g])'
    BY <1>2, <1>6, <2>1, <2>2 DEF RecordSound, Latest, Attempts
  <2> QED BY <1>2, <2>1, <2>2, <2>3 DEF CopyInv
<1> QED BY <1>4, <1>5, <1>6, <1>7, <1>8 DEF ResidualInv

\* One more order at the end: the ids that were used stay used.
LEMMA OneMore ==
  ASSUME NEW s \in Seq(Order), NEW o \in Order, NEW t, t = Append(s, o)
  PROVE  /\ t \in Seq(Order) /\ t # <<>> /\ Len(t) = Len(s) + 1
         /\ DOMAIN s = 1 .. Len(s) /\ DOMAIN t = 1 .. (Len(s) + 1)
         /\ t[Len(s) + 1] = o /\ \A i \in DOMAIN s : t[i] = s[i]
OBVIOUS

\* A stale limit is replaced: the new order stands for all of the old one,
\* whether or not the answer arrives.
LEMMA RepriceStep ==
  ASSUME ResidualInv, NEW g \in Groups, Reprice(g)
  PROVE  ResidualInv'
<1>1. /\ TypeOK /\ OrdersInv /\ ChainInv /\ \A h \in Groups : RecordSound(h, file[h])
      /\ SeenInv /\ \A h \in Groups : CopyInv(h) /\ RecordSound(h, book[h])
      /\ pc # "idle" /\ pc' = pc /\ book[g] \in Record
  BY DEF ResidualInv, Reprice, Visit, TypeOK, CopyInv
<1> DEFINE k   == book[g].order
           old == orders[k]
           n   == book[g].reprice + 1
           cid == Append(book[g].cid, n)
           new == NewOrder(cid, old.qty, snap.price)
           done == [old EXCEPT !.status = "REPLACED"]
           rest == [orders EXCEPT ![k] = done]
<1>2. /\ k \in DOMAIN orders /\ old \in Order /\ old.status = "NEW" /\ Live(old) /\ k = Len(orders)
      /\ old = Latest /\ orders # <<>> /\ old.filled = 0
      /\ book[g].attempt > 0 /\ old.cid = book[g].cid /\ book[g].cid[1] = book[g].attempt
      /\ book[g].attempt = Attempts
  <2>1. k # 0 /\ old.status = "NEW"
    BY DEF Reprice, Pending, Tracked
  <2>2. k \in DOMAIN orders /\ book[g].attempt > 0 /\ old.cid = book[g].cid /\ book[g].cid[1] = book[g].attempt
    BY <1>1, <2>1 DEF RecordSound
  <2>3. Live(old) /\ old \in Order /\ old.filled = 0 /\ k = Len(orders)
    BY <1>1, <2>1, <2>2 DEF Live, OrdersInv, TypeOK
  <2>4. orders # <<>>
    BY <2>2
  <2> QED BY <2>1, <2>2, <2>3, <2>4 DEF Latest, Attempts
<1>3. /\ orders' = Append(rest, new)
      /\ UNCHANGED <<file, stock, base, settled, snap, price, day>>
      /\ \/ book' = [book EXCEPT ![g].order = Len(orders) + 1, ![g].cid = cid, ![g].reprice = n]
         \/ book' = book
  BY DEF Reprice, Tracked, world
<1>4. /\ cid \in Seq(Nat \ {0}) /\ cid # <<>> /\ cid[1] = book[g].cid[1] /\ n \in Nat
  <2>1. book[g].cid \in Seq(Nat \ {0}) /\ book[g].cid # <<>> /\ book[g].reprice \in Nat
    BY <1>1, <1>2 DEF Record, OrdersInv
  <2> QED BY <2>1
<1>5. /\ new \in Order /\ new.cid = cid /\ new.qty = old.qty /\ new.filled = 0 /\ new.status = "NEW"
      /\ Rest(new) = Rest(old)
  <2>1. new \in Order /\ new.cid = cid /\ new.qty = old.qty /\ new.filled = 0 /\ new.status = "NEW"
    BY <1>1, <1>2, <1>4 DEF NewOrder, Order, TypeOK
  <2> QED BY <1>2, <2>1, RestIs
<1>6. /\ done \in Order /\ done.cid = old.cid /\ done.qty = old.qty /\ done.filled = old.filled
      /\ done.status = "REPLACED"
  BY <1>2 DEF Order
<1>7. /\ rest \in Seq(Order) /\ Len(rest) = Len(orders) /\ DOMAIN rest = DOMAIN orders
      /\ rest[k] = done /\ \A i \in DOMAIN orders \ {k} : rest[i] = orders[i]
  <2> HIDE DEF done
  <2> QED BY <1>1, <1>2, <1>6 DEF TypeOK
<1> HIDE DEF done, new, cid, rest, n
<1>8. /\ orders' \in Seq(Order) /\ orders' # <<>> /\ Len(orders') = Len(orders) + 1
      /\ DOMAIN orders = 1 .. Len(orders) /\ DOMAIN orders' = 1 .. (Len(orders) + 1)
      /\ orders'[Len(orders) + 1] = new /\ Latest' = new
      /\ orders'[k] = done /\ \A i \in DOMAIN orders \ {k} : orders'[i] = orders[i]
      /\ Len(orders) \in Nat
  <2>1. DOMAIN orders = 1 .. Len(orders) /\ Len(orders) \in Nat
    BY <1>1 DEF TypeOK
  <2>2. /\ orders' \in Seq(Order) /\ orders' # <<>> /\ Len(orders') = Len(rest) + 1
        /\ DOMAIN orders' = 1 .. (Len(rest) + 1)
        /\ orders'[Len(rest) + 1] = new /\ \A i \in DOMAIN rest : orders'[i] = rest[i]
    BY <1>3, <1>5, <1>7, OneMore
  <2>3. Latest' = new
    BY <2>2 DEF Latest
  <2> QED BY <1>2, <1>7, <2>1, <2>2, <2>3
<1>9. Attempts' = Attempts
  BY <1>2, <1>4, <1>5, <1>8 DEF Attempts
<1>10. OrdersInv'
  <2>1. \A m : CidUsed(<<m>>) => CidUsed(<<m>>)'
    BY <1>6, <1>8 DEF CidUsed
  <2>2. \A i \in DOMAIN orders :
          /\ orders[i].cid # <<>> /\ Size(orders[i].qty) \in 1 .. Lot
          /\ orders[i].filled <= Size(orders[i].qty) /\ (orders[i].status = "NEW" => orders[i].filled = 0)
          /\ Live(orders[i]) => i = k
    BY <1>1, <1>2 DEF OrdersInv
  <2>3. \A i \in DOMAIN orders :
          /\ orders'[i].cid # <<>> /\ Size(orders'[i].qty) \in 1 .. Lot
          /\ orders'[i].filled <= Size(orders'[i].qty) /\ (orders'[i].status = "NEW" => orders'[i].filled = 0)
          /\ ~Live(orders'[i])
    BY <1>2, <1>6, <1>8, <2>2 DEF Live
  <2>4. 0 < Size(new.qty)
    BY <1>2, <1>5, <2>2 DEF Lot
  <2>5. /\ new.cid # <<>> /\ Size(new.qty) \in 1 .. Lot /\ new.filled <= Size(new.qty)
        /\ new.filled = 0 /\ new.filled < Size(new.qty)
    BY <1>2, <1>4, <1>5, <2>2, <2>4 DEF Lot
  <2>6. \A i \in DOMAIN orders' : i \in DOMAIN orders \/ i = Len(orders')
    BY <1>8
  <2>7. \A i \in DOMAIN orders' :
          /\ orders'[i].cid # <<>> /\ Size(orders'[i].qty) \in 1 .. Lot
          /\ orders'[i].filled <= Size(orders'[i].qty) /\ (orders'[i].status = "NEW" => orders'[i].filled = 0)
          /\ Live(orders'[i]) => i = Len(orders') /\ orders'[i].filled < Size(orders'[i].qty)
    BY <1>8, <2>3, <2>5, <2>6
  <2> QED BY <1>1, <1>9, <2>1, <2>7 DEF OrdersInv
<1>11. ChainInv'
  BY <1>1, <1>2, <1>3, <1>5, <1>8 DEF ChainInv
<1>12. \A h \in Groups : \A r \in Record :
         RecordSound(h, r) => RecordSound(h, r)' /\ ~(r.order = 0 /\ r.attempt > 0 /\ r.attempt = Attempts)
  <2> SUFFICES ASSUME NEW h \in Groups, NEW r \in Record, RecordSound(h, r)
               PROVE  /\ RecordSound(h, r)'
                      /\ ~(r.order = 0 /\ r.attempt > 0 /\ r.attempt = Attempts)
    OBVIOUS
  <2>1. ~(r.order = 0 /\ r.attempt > 0 /\ r.attempt = Attempts)
    BY <1>2 DEF RecordSound
  <2>2. r.order # 0 =>
          /\ r.order \in DOMAIN orders' /\ r.attempt > 0
          /\ orders'[r.order].cid = r.cid /\ r.cid[1] = r.attempt
          /\ r.attempt = Attempts' => r.order = Len(orders') \/ orders'[r.order].status = "REPLACED"
    BY <1>2, <1>6, <1>8, <1>9 DEF RecordSound
  <2>3. r.attempt > 0 => file'[h].baseline # NoQty /\ stock' - Rest(Latest') = file'[h].baseline
    BY <1>2, <1>3, <1>5, <1>8 DEF RecordSound
  <2> QED BY <1>9, <2>1, <2>2, <2>3 DEF RecordSound
<1>13. \A h \in Groups : RecordSound(h, file[h])'
  BY <1>1, <1>3, <1>12 DEF TypeOK
<1>14. SeenInv'
  BY <1>1, <1>3, <1>8 DEF SeenInv
<1>15. \A h \in Groups : book[h] \in Record /\ CopyInv(h) /\ RecordSound(h, book[h])
  BY <1>1 DEF TypeOK
<1>16. CASE book' = book
  <2>1. \A h \in Groups : CopyInv(h)'
    BY <1>2, <1>3, <1>8, <1>9, <1>12, <1>15, <1>16 DEF CopyInv
  <2>2. TypeOK'
    BY <1>1, <1>3, <1>8, <1>16 DEF TypeOK
  <2> QED BY <1>10, <1>11, <1>13, <1>14, <2>1, <2>2 DEF ResidualInv
<1>17. CASE book' = [book EXCEPT ![g].order = Len(orders) + 1, ![g].cid = cid, ![g].reprice = n]
  <2>1. PICK r \in Record :
          /\ book' = [book EXCEPT ![g] = r]
          /\ r.order = Len(orders) + 1 /\ r.cid = cid /\ r.attempt = book[g].attempt
          /\ r.closed = book[g].closed /\ r.baseline = book[g].baseline
          /\ r.remaining = book[g].remaining
    <3> DEFINE q == [book[g] EXCEPT !.order = Len(orders) + 1, !.cid = cid, !.reprice = n]
    <3>1. Len(orders) + 1 \in Nat
      BY <1>8
    <3>2. /\ q \in Record /\ q.order = Len(orders) + 1 /\ q.cid = cid /\ q.attempt = book[g].attempt
          /\ q.closed = book[g].closed /\ q.baseline = book[g].baseline
          /\ q.remaining = book[g].remaining
      BY <1>1, <1>4, <3>1 DEF Record
    <3>3. book' = [book EXCEPT ![g] = q]
      BY <1>17
    <3> QED BY <3>2, <3>3
  <2>3. book'[g] = r /\ \A h \in Groups \ {g} : book'[h] = book[h]
    BY <1>1, <2>1 DEF TypeOK
  <2>4. TypeOK'
    BY <1>1, <1>3, <1>8, <2>1 DEF TypeOK
  <2>5. RecordSound(g, r)'
    <3>1. PICK q \in Record : q = book[g]
      BY <1>15
    <3>2. RecordSound(g, q)'
      BY <1>12, <1>15, <3>1
    <3> QED BY <1>2, <1>4, <1>5, <1>8, <1>9, <2>1, <3>1, <3>2 DEF RecordSound
  <2>6. CopyInv(g)'
    BY <1>3, <1>8, <1>15, <2>1, <2>3, <2>5 DEF CopyInv
  <2>7. \A h \in Groups \ {g} : CopyInv(h)'
    BY <1>2, <1>3, <1>8, <1>9, <1>12, <1>15, <2>3 DEF CopyInv
  <2> QED BY <1>10, <1>11, <1>13, <1>14, <2>4, <2>6, <2>7 DEF ResidualInv
<1> QED BY <1>3, <1>16, <1>17

\* What is true when a residual order may be sent: nothing is working, the
\* account is what the cycle saw, and the structure knows of every attempt.
LEMMA MaySubmit ==
  ASSUME ResidualInv, NEW g \in Groups, SubmitResidual(g)
  PROVE  /\ \A i \in DOMAIN orders : ~Live(orders[i])
         /\ stock = snap.stock /\ stock # 0
         /\ book[g].attempt = Attempts /\ g \in settled
         /\ \A h \in Groups : h \in settled \/ file[h].closed
         /\ file[g].baseline \in Int /\ book[g].baseline = file[g].baseline
         /\ Observed(book[g]) = stock - file[g].baseline
         /\ Size(stock - file[g].baseline) \in 1 .. Lot
<1>1. /\ TypeOK /\ OrdersInv /\ ChainInv /\ SeenInv
      /\ \A h \in Groups : CopyInv(h) /\ RecordSound(h, book[h])
      /\ book[g] \in Record /\ file[g] \in Record
  BY DEF ResidualInv, SubmitResidual, Visit, TypeOK, CopyInv
<1>2. /\ ~book[g].closed /\ book[g].order = 0 /\ ~book[g].waits /\ Expiry[g] < snap.day /\ g \in snap.gone
      /\ snap.stock # 0 /\ SoleOpen(g) /\ book[g].baseline # NoQty /\ ~CidUsed(NextCid(g))
      /\ IF book[g].remaining = NoQty THEN Size(Observed(book[g])) = Lot
                                      ELSE Observed(book[g]) = book[g].remaining
  <2>1. ~NotThisCycle(g) /\ Attributable(g) /\ ~CidUsed(NextCid(g)) /\ snap.stock # 0
    BY DEF SubmitResidual
  <2>2. Expiry[g] < snap.day
    BY <1>1, <2>1, ResidualAssumption DEF NotThisCycle, TypeOK
  <2> QED BY <2>1, <2>2 DEF NotThisCycle, Attributable, Pending
<1>3. orders # <<>> => Attempts \in Nat \ {0}
  <2>1. orders # <<>> => Latest \in Order /\ Latest.cid # <<>>
    BY <1>1 DEF TypeOK, Latest, OrdersInv
  <2>2. ASSUME NEW cid \in Seq(Nat \ {0}), cid # <<>> PROVE cid[1] \in Nat \ {0}
    BY <2>2
  <2> QED BY <2>1, <2>2 DEF Attempts, Order
<1>4. book[g].attempt = Attempts
  <2>1. book[g].attempt \in Nat /\ book[g].attempt <= Attempts
    BY <1>1 DEF Record, RecordSound
  <2>2. Attempts \in Nat
    BY <1>3 DEF Attempts
  <2>3. ~(book[g].attempt + 1 \in 1 .. Attempts)
    BY <1>1, <1>2 DEF OrdersInv, NextCid
  <2> QED BY <2>1, <2>2, <2>3
<1>5. file[g].baseline \in Int /\ book[g].baseline = file[g].baseline
  BY <1>1, <1>2 DEF CopyInv, Record
<1>6. \A h \in Groups : h \in settled \/ file[h].closed
  BY <1>1, <1>2 DEF SoleOpen, CopyInv, SeenInv
<1>7. stock = snap.stock
  <2>1. CASE orders = <<>>
    <3>1. \A h \in Groups : h \in snap.gone \/ file[h].closed
      BY <1>1, <1>2, <2>1 DEF SoleOpen, CopyInv
    <3> QED BY <1>1, <2>1, <3>1 DEF SeenInv, TypeOK
  <2>2. CASE orders # <<>>
    BY <1>1, <1>2, <1>3, <1>4, <2>2 DEF CopyInv
  <2> QED BY <2>1, <2>2
<1>8. \A i \in DOMAIN orders : ~Live(orders[i])
  <2>1. orders # <<>> => ~Live(Latest)
    BY <1>1, <1>2, <1>3, <1>4 DEF RecordSound
  <2> QED BY <1>1, <2>1 DEF OrdersInv, Latest
<1>9. Observed(book[g]) = stock - file[g].baseline
  BY <1>5, <1>7 DEF Observed
<1>10. Size(stock - file[g].baseline) \in 1 .. Lot
  BY <1>1, <1>2, <1>9 DEF RecordSound, Lot
<1>11. g \in settled /\ stock # 0
  BY <1>1, <1>2, <1>7 DEF SeenInv
<1> QED BY <1>4, <1>5, <1>6, <1>7, <1>8, <1>9, <1>10, <1>11

\* The order that closes delivered stock leads back to the baseline of the
\* structure it is sent for, whether or not the answer arrives.
LEMMA SubmitStep ==
  ASSUME ResidualInv, NEW g \in Groups, SubmitResidual(g)
  PROVE  ResidualInv'
<1>1. /\ TypeOK /\ OrdersInv /\ ChainInv /\ \A h \in Groups : RecordSound(h, file[h])
      /\ SeenInv /\ \A h \in Groups : CopyInv(h) /\ RecordSound(h, book[h])
      /\ pc # "idle" /\ pc' = pc
  BY DEF ResidualInv, SubmitResidual, Visit, CopyInv
<1>2. \A h \in Groups : book[h] \in Record /\ file[h] \in Record
  BY <1>1 DEF TypeOK
<1>3. /\ \A i \in DOMAIN orders : ~Live(orders[i])
      /\ stock = snap.stock /\ stock # 0
      /\ book[g].attempt = Attempts /\ g \in settled
      /\ \A h \in Groups : h \in settled \/ file[h].closed
      /\ file[g].baseline \in Int /\ book[g].baseline = file[g].baseline
      /\ Observed(book[g]) = stock - file[g].baseline
      /\ Size(stock - file[g].baseline) \in 1 .. Lot
  BY MaySubmit
<1> DEFINE delivered == Observed(book[g])
           cid == NextCid(g)
           new == NewOrder(cid, delivered, snap.price)
<1>4. /\ orders' = Append(orders, new)
      /\ UNCHANGED <<file, stock, base, settled, snap, price, day>>
      /\ \/ book' = [book EXCEPT ![g] = Submitted(@, Len(orders) + 1, cid, delivered)]
         \/ book' = [book EXCEPT ![g].quarantined = TRUE]
  BY DEF SubmitResidual, Quarantined, world
<1>5. stock \in Int /\ delivered \in Int /\ Attempts \in Nat /\ orders \in Seq(Order)
  BY <1>1, <1>2, <1>3 DEF TypeOK, Record
<1>6. cid \in Seq(Nat \ {0}) /\ cid # <<>> /\ cid[1] = Attempts + 1 /\ cid = <<Attempts + 1>>
  BY <1>3, <1>5 DEF NextCid
<1>7. /\ new \in Order /\ new.cid = cid /\ new.qty = delivered /\ new.filled = 0 /\ new.status = "NEW"
      /\ Rest(new) = delivered
  <2>1. new \in Order /\ new.cid = cid /\ new.qty = delivered /\ new.filled = 0 /\ new.status = "NEW"
    <3> HIDE DEF delivered, cid
    <3> QED BY <1>1, <1>5, <1>6 DEF NewOrder, Order, TypeOK
  <2> QED BY <2>1, RestIs
<1> HIDE DEF new, cid, delivered
<1>8. /\ orders' \in Seq(Order) /\ orders' # <<>> /\ Len(orders') = Len(orders) + 1
      /\ DOMAIN orders = 1 .. Len(orders) /\ DOMAIN orders' = 1 .. (Len(orders) + 1)
      /\ orders'[Len(orders) + 1] = new /\ \A i \in DOMAIN orders : orders'[i] = orders[i]
      /\ Len(orders) \in Nat
  BY <1>4, <1>5, <1>7, OneMore
<1>9. Latest' = new /\ Attempts' = Attempts + 1
  <2>1. Latest' = new
    BY <1>8 DEF Latest
  <2> QED BY <1>6, <1>7, <1>8, <2>1 DEF Attempts
<1>10. stock - Rest(new) = file[g].baseline
  BY <1>3, <1>5, <1>7 DEF delivered
<1>11. OrdersInv'
  <2>1. \A m : CidUsed(<<m>>) => CidUsed(<<m>>)'
    BY <1>8 DEF CidUsed
  <2>2. \A m : m = Attempts + 1 => CidUsed(<<m>>)'
    <3>1. Len(orders) + 1 \in DOMAIN orders' /\ orders'[Len(orders) + 1].cid = <<Attempts + 1>>
      BY <1>6, <1>7, <1>8
    <3> QED BY <3>1 DEF CidUsed
  <2>3. \A m \in 1 .. Attempts' : m \in 1 .. Attempts \/ m = Attempts + 1
    BY <1>5, <1>9
  <2>4. \A m \in 1 .. Attempts' : CidUsed(<<m>>)'
    BY <1>1, <2>1, <2>2, <2>3 DEF OrdersInv
  <2>5. \A i \in DOMAIN orders' : i \in DOMAIN orders \/ i = Len(orders')
    BY <1>8
  <2>6. /\ new.cid # <<>> /\ Size(new.qty) \in 1 .. Lot /\ new.filled <= Size(new.qty)
        /\ new.filled = 0 /\ new.filled < Size(new.qty)
    <3>1. Size(new.qty) \in 1 .. Lot
      BY <1>3, <1>7 DEF delivered
    <3> QED BY <1>6, <1>7, <3>1 DEF Lot
  <2>7. \A i \in DOMAIN orders' :
          /\ orders'[i].cid # <<>> /\ Size(orders'[i].qty) \in 1 .. Lot
          /\ orders'[i].filled <= Size(orders'[i].qty) /\ (orders'[i].status = "NEW" => orders'[i].filled = 0)
          /\ Live(orders'[i]) => i = Len(orders') /\ orders'[i].filled < Size(orders'[i].qty)
    BY <1>1, <1>3, <1>8, <2>5, <2>6 DEF OrdersInv
  <2> QED BY <2>4, <2>7 DEF OrdersInv
<1>12. ChainInv'
  <2>1. file'[g].baseline # NoQty /\ stock' - Rest(Latest') = file'[g].baseline
    BY <1>3, <1>4, <1>9, <1>10, ResidualAssumption
  <2> QED BY <1>3, <1>4, <2>1 DEF ChainInv
<1>13. \A h \in Groups : \A r \in Record :
         RecordSound(h, r) => RecordSound(h, r)' /\ r.attempt # Attempts'
  <2> SUFFICES ASSUME NEW h \in Groups, NEW r \in Record, RecordSound(h, r)
               PROVE  RecordSound(h, r)' /\ r.attempt # Attempts'
    OBVIOUS
  <2>1. r.attempt \in Nat /\ r.attempt <= Attempts /\ r.order \in Nat
    BY DEF RecordSound, Record
  <2>2. r.attempt <= Attempts' /\ r.attempt # Attempts'
    BY <1>5, <1>9, <2>1
  <2>3. r.attempt > 0 => file'[h].baseline # NoQty /\ stock' - Rest(Latest') = file'[h].baseline
    <3> SUFFICES ASSUME r.attempt > 0
                 PROVE  file'[h].baseline # NoQty /\ stock' - Rest(Latest') = file'[h].baseline
      OBVIOUS
    <3>1. file[h].baseline # NoQty /\ stock - Rest(Latest) = file[h].baseline
      BY DEF RecordSound
    <3>2. book[g].attempt > 0
      BY <1>3, <1>5, <2>1
    <3>3. stock - Rest(Latest) = file[g].baseline
      BY <1>1, <3>2 DEF RecordSound
    <3> QED BY <1>4, <1>9, <1>10, <3>1, <3>3
  <2>4. r.order # 0 =>
          /\ r.order \in DOMAIN orders' /\ r.attempt > 0
          /\ orders'[r.order].cid = r.cid /\ r.cid[1] = r.attempt
    BY <1>8 DEF RecordSound
  <2> QED BY <2>2, <2>3, <2>4 DEF RecordSound
<1>14. \A h \in Groups : RecordSound(h, file[h])'
  BY <1>1, <1>2, <1>4, <1>13
<1>15. SeenInv'
  BY <1>1, <1>4, <1>8 DEF SeenInv
<1>16. \A h \in Groups : RecordSound(h, book[h]) /\ CopyInv(h)
  BY <1>1
<1>17. ASSUME NEW h \in Groups, book'[h] = book[h] PROVE CopyInv(h)'
  BY <1>2, <1>4, <1>8, <1>13, <1>16, <1>17 DEF CopyInv
<1>18. PICK r \in Record :
         /\ book' = [book EXCEPT ![g] = r]
         /\ r.closed = book[g].closed /\ r.baseline = book[g].baseline
         /\ \/ /\ r.order = book[g].order /\ r.cid = book[g].cid /\ r.attempt = book[g].attempt
               /\ r.remaining = book[g].remaining
            \/ /\ r.order = Len(orders) + 1 /\ r.cid = cid /\ r.attempt = Attempts + 1
               /\ r.remaining = NoQty
  <2>1. CASE book' = [book EXCEPT ![g] = Submitted(@, Len(orders) + 1, cid, delivered)]
    <3> DEFINE q == Submitted(book[g], Len(orders) + 1, cid, delivered)
    <3>1. Len(orders) + 1 \in Nat /\ book[g].attempt + 1 \in Nat
      BY <1>3, <1>5, <1>8
    <3>2. book[g].original \in Int \cup {NoQty}
      BY <1>2 DEF Record
    <3>3. /\ q \in Record /\ q.order = Len(orders) + 1 /\ q.cid = cid /\ q.attempt = book[g].attempt + 1
          /\ q.closed = book[g].closed /\ q.baseline = book[g].baseline /\ q.remaining = NoQty
      BY <1>2, <1>5, <1>6, <3>1, <3>2 DEF Submitted, Record
    <3>4. book' = [book EXCEPT ![g] = q]
      BY <2>1
    <3> HIDE DEF q
    <3> QED BY <1>3, <3>3, <3>4
  <2>2. CASE book' = [book EXCEPT ![g].quarantined = TRUE]
    <3> DEFINE q == [book[g] EXCEPT !.quarantined = TRUE]
    <3>1. /\ q \in Record /\ q.order = book[g].order /\ q.cid = book[g].cid /\ q.attempt = book[g].attempt
          /\ q.closed = book[g].closed /\ q.baseline = book[g].baseline /\ q.remaining = book[g].remaining
      BY <1>2 DEF Record
    <3>2. book' = [book EXCEPT ![g] = q]
      BY <2>2
    <3> HIDE DEF q
    <3> QED BY <3>1, <3>2
  <2> QED BY <1>4, <2>1, <2>2
<1>19. book'[g] = r /\ \A h \in Groups \ {g} : book'[h] = book[h]
  BY <1>1, <1>18 DEF TypeOK
<1>20. TypeOK'
  BY <1>1, <1>4, <1>8, <1>18 DEF TypeOK
<1>21. RecordSound(g, r)' /\ ~(r.order = 0 /\ r.attempt = Attempts')
  <2>1. CASE /\ r.order = book[g].order /\ r.cid = book[g].cid /\ r.attempt = book[g].attempt
             /\ r.remaining = book[g].remaining
    <3>1. RecordSound(g, r)
      BY <1>16, <2>1 DEF RecordSound
    <3> QED BY <1>13, <3>1
  <2>2. CASE /\ r.order = Len(orders) + 1 /\ r.cid = cid /\ r.attempt = Attempts + 1
             /\ r.remaining = NoQty
    <3>1. file'[g].baseline # NoQty /\ stock' - Rest(Latest') = file'[g].baseline
      BY <1>3, <1>4, <1>9, <1>10, ResidualAssumption
    <3>2. r.order \in DOMAIN orders' /\ r.order = Len(orders') /\ r.order # 0 /\ r.attempt > 0
      BY <1>5, <1>8, <2>2
    <3>3. orders'[r.order].cid = r.cid /\ r.cid[1] = r.attempt
      BY <1>6, <1>7, <1>8, <2>2
    <3>4. r.attempt <= Attempts'
      BY <1>5, <1>9, <2>2
    <3> QED BY <2>2, <3>1, <3>2, <3>3, <3>4 DEF RecordSound
  <2> QED BY <1>18, <2>1, <2>2
<1>22. CopyInv(g)'
  BY <1>4, <1>8, <1>16, <1>18, <1>19, <1>21 DEF CopyInv
<1>23. \A h \in Groups : CopyInv(h)'
  BY <1>17, <1>19, <1>22
<1> QED BY <1>11, <1>12, <1>14, <1>15, <1>20, <1>23 DEF ResidualInv

\* What the cycle learned goes to the file.
LEMMA SaveStep ==
  ASSUME ResidualInv, Save
  PROVE  ResidualInv'
<1>1. /\ TypeOK /\ OrdersInv /\ ChainInv /\ SeenInv
      /\ \A h \in Groups : CopyInv(h) /\ RecordSound(h, book[h])
  BY DEF ResidualInv, Save, CopyInv
<1>2. file' = book /\ pc' = "idle" /\ UNCHANGED <<book, orders, stock, base, settled, snap, price, day>>
  BY DEF Save, world
<1>3. TypeOK'
  BY <1>1, <1>2 DEF TypeOK
<1>4. OrdersInv'
  BY <1>1, <1>2 DEF OrdersInv, Latest, Attempts, CidUsed
<1>5. \A h \in Groups : /\ file[h].baseline # NoQty => file'[h].baseline = file[h].baseline
                        /\ file[h].closed => file'[h].closed
  BY <1>1, <1>2 DEF CopyInv
<1>6. ChainInv'
  BY <1>1, <1>2, <1>5 DEF ChainInv, Latest
<1>7. \A h \in Groups : RecordSound(h, file[h])'
  BY <1>1, <1>2, <1>5 DEF RecordSound, Latest, Attempts
<1> QED BY <1>2, <1>3, <1>4, <1>6, <1>7 DEF ResidualInv

LEMMA CrashStep ==
  ASSUME ResidualInv, Crash
  PROVE  ResidualInv'
<1>1. TypeOK /\ OrdersInv /\ ChainInv /\ \A h \in Groups : RecordSound(h, file[h])
  BY DEF ResidualInv
<1>2. book' = file /\ pc' = "idle" /\ UNCHANGED <<file, orders, stock, base, settled, snap, price, day>>
  BY DEF Crash, world
<1>3. TypeOK'
  BY <1>1, <1>2 DEF TypeOK
<1>4. OrdersInv' /\ ChainInv'
  BY <1>1, <1>2 DEF OrdersInv, ChainInv, Latest, Attempts, CidUsed
<1>5. \A h \in Groups : RecordSound(h, file[h])'
  BY <1>1, <1>2 DEF RecordSound, Latest, Attempts
<1> QED BY <1>2, <1>3, <1>4, <1>5 DEF ResidualInv

-----------------------------------------------------------------------------
(* The invariant.                                                          *)

\* Nothing is recorded, ordered or settled to begin with.
LEMMA InitResidualInv == Init => ResidualInv
<1> SUFFICES ASSUME Init PROVE ResidualInv
  OBVIOUS
<1> USE ResidualAssumption
<1>1. Fresh \in Record /\ Fresh.order = 0 /\ Fresh.attempt = 0 /\ Fresh.remaining = NoQty
  BY DEF Fresh, Record
<1>2. TypeOK
  BY <1>1 DEF Init, TypeOK
<1>3. orders = <<>> /\ Attempts = 0
  BY DEF Init, Attempts
<1>4. OrdersInv /\ ChainInv
  BY <1>3 DEF OrdersInv, ChainInv
<1>5. \A g \in Groups : RecordSound(g, file[g])
  BY <1>1, <1>3 DEF Init, RecordSound
<1> QED BY <1>2, <1>4, <1>5 DEF Init, ResidualInv

LEMMA StepResidualInv ==
  ASSUME ResidualInv, [Next]_vars
  PROVE  ResidualInv'
<1>1. CASE UNCHANGED vars
  BY <1>1, QuietStep DEF vars, world, control, Recorded, ResidualInv, TypeOK
<1>2. CASE Market
  BY <1>2, SettleStep, NextDayStep, QuietActions, OrdinaryStep DEF Market
<1>3. CASE CycleStep
  BY <1>3, BeginStep, CancelStep, QuietActions, QuarantineStep, RepriceStep, FilledStep, EndedStep,
     AbsentStep, SubmitStep, SaveStep DEF CycleStep
<1>4. CASE Crash
  BY <1>4, CrashStep
<1>5. CASE \E i \in DOMAIN orders : Fill(i)
  BY <1>5, FillStep
<1> QED BY <1>1, <1>2, <1>3, <1>4, <1>5 DEF Next

LEMMA ResidualInvariant == Spec => []ResidualInv
BY InitResidualInv, StepResidualInv, PTL DEF Spec

\* The variables keep their types.
THEOREM ResidualTypes == Spec => []TypeOK
<1>1. ResidualInv => TypeOK
  BY DEF ResidualInv
<1> QED BY <1>1, ResidualInvariant, PTL

\* The working orders together lead back to what the account held when a
\* structure that expired was last seen whole; so no order is ever sent twice
\* for the same stock (executor.py 257-267).
THEOREM AlwaysClosesToBaseline == Spec => []ClosesToBaseline
<1>1. ResidualInv => ClosesToBaseline
  <2> SUFFICES ASSUME ResidualInv, Working # {}
               PROVE  \E g \in Groups : file[g].baseline = WhenFilled
    BY DEF ClosesToBaseline
  <2>1. orders # <<>> /\ WhenFilled = stock - Rest(Latest)
    BY WhenFilledIs DEF ResidualInv
  <2> QED BY <2>1 DEF ResidualInv, ChainInv
<1> QED BY <1>1, ResidualInvariant, PTL

\* As long as every structure was seen before anything was delivered, the
\* working orders never pass the stock that was.
THEOREM NeverOversoldWhenSeen == Spec => [](SeenWhole => NeverOversold)
<1>1. ResidualInv => (SeenWhole => NeverOversold)
  <2> SUFFICES ASSUME ResidualInv, SeenWhole PROVE NeverOversold
    OBVIOUS
  <2>1. stock \in Int /\ base \in Int
    BY DEF ResidualInv, TypeOK
  <2>2. CASE Working = {}
    BY <2>1, <2>2, WhenFilledIs DEF ResidualInv, NeverOversold, Between
  <2>3. CASE Working # {}
    <3>1. orders # <<>> /\ WhenFilled = stock - Rest(Latest)
      BY <2>3, WhenFilledIs DEF ResidualInv
    <3>2. WhenFilled = base
      BY <3>1 DEF ResidualInv, ChainInv, SeenWhole
    <3> QED BY <2>1, <3>2 DEF NeverOversold, Between
  <2> QED BY <2>2, <2>3
<1> QED BY <1>1, ResidualInvariant, PTL

-----------------------------------------------------------------------------
(* Closed means flat.                                                      *)

\* A baseline that is on file stays.
LEMMA SeenKept ==
  ASSUME ResidualInv, [Next]_vars, SeenWhole'
  PROVE  SeenWhole
<1>1. base' = base
  BY DEF Next, vars, Market, CycleStep, Settle, NextDay, Move, OrdinaryClose, Begin, CancelStray, Cleaned,
         NothingPending, StatusUnavailable, StillWorking, Reprice, RepriceFailed, ResidualFilled,
         ResidualEnded, ResidualsDone, PassedOver, ExpiredAbsent, Unattributed, SubmitResidual, Save,
         Crash, Fill, world
<1>2. UNCHANGED file \/ Save \/ \E g \in Groups : OrdinaryClose(g)
  BY DEF Next, vars, Market, CycleStep, Settle, NextDay, Move, Begin, CancelStray, Cleaned,
         NothingPending, StatusUnavailable, StillWorking, Reprice, RepriceFailed, ResidualFilled,
         ResidualEnded, ResidualsDone, PassedOver, ExpiredAbsent, Unattributed, SubmitResidual,
         Crash, Fill
<1>3. \A g \in Groups : file[g].baseline # NoQty => file'[g].baseline = file[g].baseline
  <2>1. CASE UNCHANGED file
    BY <2>1
  <2>2. CASE Save
    BY <2>2 DEF ResidualInv, CopyInv, Save
  <2>3. ASSUME NEW g \in Groups, OrdinaryClose(g)
        PROVE  \A h \in Groups : file'[h].baseline = file[h].baseline
    <3>1. file' = [file EXCEPT ![g].closed = TRUE] /\ file \in [Groups -> Record]
      BY <2>3 DEF ResidualInv, TypeOK, OrdinaryClose
    <3> QED BY <3>1 DEF Record
  <2> QED BY <1>2, <2>1, <2>2, <2>3
<1> QED BY <1>1, <1>3 DEF SeenWhole

\* Steps that neither touch the account nor close what has settled.
LEMMA FlatKept ==
  ASSUME FlatInv, SeenWhole' => SeenWhole, UNCHANGED <<stock, base, settled>>,
         AllClosed(file)' => AllClosed(file),
         pc' # "idle" => /\ pc # "idle" /\ snap' = snap /\ (orders' # <<>> => orders # <<>>)
                         /\ AllClosed(book)' => AllClosed(book)
  PROVE  FlatInv'
BY DEF FlatInv

\* What fills brings the account to the base, if it is at either end.
LEMMA FillEnds ==
  ASSUME ResidualInv, SeenWhole, NEW i \in DOMAIN orders, Fill(i), stock \in {0, base}
  PROVE  stock' = base
<1>1. TypeOK /\ OrdersInv /\ ChainInv
  BY DEF ResidualInv
<1> DEFINE o == orders[i]
<1>2. /\ i = Len(orders) /\ orders # <<>> /\ o = Latest /\ o \in Order /\ o.filled < Size(o.qty)
      /\ Size(o.qty) \in 1 .. Lot
  BY <1>1 DEF Fill, OrdersInv, Latest, TypeOK
<1>3. stock - Rest(o) = base
  BY <1>1, <1>2 DEF ChainInv, SeenWhole
<1>4. stock' = stock - SignOf(o.qty)
  BY DEF Fill
<1>5. o.qty \in Int /\ o.filled \in Nat /\ Rest(o) \in Int /\ stock \in Int /\ base \in Int
  BY <1>1, <1>2, RestIs DEF Order, TypeOK
<1>6. Rest(o) # 0
  <2>1. CASE o.qty > 0
    BY <1>2, <1>5, <2>1, RestIs DEF Size
  <2>2. CASE o.qty < 0
    BY <1>2, <1>5, <2>2, RestIs DEF Size
  <2>3. o.qty # 0
    BY <1>2 DEF Size
  <2> QED BY <1>5, <2>1, <2>2, <2>3
<1>7. stock = 0 /\ o.filled # 0
  BY <1>1, <1>2, <1>3, <1>5, <1>6 DEF ChainInv
<1>8. Rest(o) = SignOf(o.qty)
  <2>1. CASE o.qty > 0
    BY <1>2, <1>5, <1>7, <2>1, RestIs DEF Size, Lot, SignOf
  <2>2. CASE o.qty < 0
    BY <1>2, <1>5, <1>7, <2>2, RestIs DEF Size, Lot, SignOf
  <2>3. o.qty # 0
    BY <1>2 DEF Size
  <2> QED BY <1>5, <2>1, <2>2, <2>3
<1> QED BY <1>3, <1>4, <1>5, <1>8

\* A step about one structure changes the copy of that structure alone, and
\* neither its baseline nor, but for two of them, whether it is closed.
LEMMA CopyTouched ==
  ASSUME TypeOK, NEW g \in Groups,
         \/ StatusUnavailable(g) \/ Unattributed(g) \/ Reprice(g) \/ ResidualEnded(g)
         \/ SubmitResidual(g)
  PROVE  \A h \in Groups : book'[h].baseline = book[h].baseline /\ book'[h].closed = book[h].closed
<1> DEFINE Same == \A h \in Groups : /\ book'[h].baseline = book[h].baseline
                                     /\ book'[h].closed = book[h].closed
<1>1. book \in [Groups -> Record] /\ book[g] \in Record
  BY DEF TypeOK
<1>2. ASSUME NEW r, book' = [book EXCEPT ![g] = r], r.baseline = book[g].baseline,
             r.closed = book[g].closed
      PROVE  Same
  <2>1. book'[g] = r /\ \A h \in Groups \ {g} : book'[h] = book[h]
    BY <1>1, <1>2
  <2> QED BY <1>2, <2>1
<1> HIDE DEF Same
<1>3. ASSUME book' = Quarantined(g) PROVE Same
  <2> DEFINE r == [book[g] EXCEPT !.quarantined = TRUE]
  <2>1. r.baseline = book[g].baseline /\ r.closed = book[g].closed
    BY <1>1 DEF Record
  <2>2. book' = [book EXCEPT ![g] = r]
    BY <1>3 DEF Quarantined
  <2> HIDE DEF r
  <2> QED BY <1>2, <2>1, <2>2
<1>4. CASE StatusUnavailable(g) \/ Unattributed(g)
  BY <1>3, <1>4 DEF StatusUnavailable, Unattributed, Same
<1>5. CASE Reprice(g)
  <2>1. CASE UNCHANGED book
    BY <2>1 DEF Same
  <2> DEFINE first == Len(orders) + 1
             next == Append(book[g].cid, book[g].reprice + 1)
             count == book[g].reprice + 1
             r == [book[g] EXCEPT !.order = first, !.cid = next, !.reprice = count]
  <2>2. \/ UNCHANGED book
        \/ book' = [book EXCEPT ![g].order = first, ![g].cid = next, ![g].reprice = count]
    BY <1>5 DEF Reprice
  <2> HIDE DEF first, next, count
  <2>3. r.baseline = book[g].baseline /\ r.closed = book[g].closed
    BY <1>1 DEF Record
  <2>4. UNCHANGED book \/ book' = [book EXCEPT ![g] = r]
    BY <2>2
  <2> HIDE DEF r
  <2>5. CASE book' = [book EXCEPT ![g] = r]
    <3>1. Same
      BY <1>2, <2>3, <2>5
    <3> QED BY <3>1 DEF Same
  <2> QED BY <2>1, <2>4, <2>5
<1>6. CASE ResidualEnded(g)
  <2> DEFINE r == AfterEnded(book[g], Tracked(g))
  <2>1. r.baseline = book[g].baseline /\ r.closed = book[g].closed
    BY <1>1 DEF AfterEnded, Record
  <2>2. book' = [book EXCEPT ![g] = r]
    BY <1>6 DEF ResidualEnded
  <2> HIDE DEF r
  <2> QED BY <1>2, <2>1, <2>2
<1>7. CASE SubmitResidual(g)
  <2>1. ASSUME NEW i, NEW cid, NEW qty, book' = [book EXCEPT ![g] = Submitted(@, i, cid, qty)]
        PROVE  Same
    <3> DEFINE r == Submitted(book[g], i, cid, qty)
    <3>1. r.baseline = book[g].baseline /\ r.closed = book[g].closed
      BY <1>1 DEF Submitted, Record
    <3>2. book' = [book EXCEPT ![g] = r]
      BY <2>1
    <3> HIDE DEF r
    <3> QED BY <1>2, <3>1, <3>2
  <2> QED BY <1>3, <1>7, <2>1 DEF SubmitResidual, Same
<1> QED BY <1>4, <1>5, <1>6, <1>7 DEF Same

\* The two that may close it.
LEMMA CopyClosed ==
  ASSUME TypeOK, NEW g \in Groups, ResidualFilled(g) \/ ExpiredAbsent(g)
  PROVE  /\ \A h \in Groups : book'[h].baseline = book[h].baseline
         /\ \A h \in Groups \ {g} : book'[h] = book[h]
<1>1. book \in [Groups -> Record] /\ book[g] \in Record
  BY DEF TypeOK
<1>2. ASSUME NEW r, book' = [book EXCEPT ![g] = r], r.baseline = book[g].baseline
      PROVE  /\ \A h \in Groups : book'[h].baseline = book[h].baseline
             /\ \A h \in Groups \ {g} : book'[h] = book[h]
  <2>1. book'[g] = r /\ \A h \in Groups \ {g} : book'[h] = book[h]
    BY <1>1, <1>2
  <2> QED BY <1>2, <2>1
<1>3. CASE ResidualFilled(g)
  <2> DEFINE r == AfterFilled(book[g])
  <2>1. r.baseline = book[g].baseline
    BY <1>1 DEF AfterFilled, Record
  <2>2. book' = [book EXCEPT ![g] = r]
    BY <1>3 DEF ResidualFilled
  <2> HIDE DEF r
  <2> QED BY <1>2, <2>1, <2>2
<1>4. CASE ExpiredAbsent(g)
  <2> DEFINE r == [book[g] EXCEPT !.closed = TRUE, !.quarantined = FALSE]
  <2>1. r.baseline = book[g].baseline
    BY <1>1 DEF Record
  <2>2. book' = [book EXCEPT ![g] = r]
    BY <1>4 DEF ExpiredAbsent
  <2> HIDE DEF r
  <2> QED BY <1>2, <2>1, <2>2
<1> QED BY <1>3, <1>4

\* Nobody closes a structure but OrdinaryClose, and the two steps below.
LEMMA FlatQuiet ==
  ASSUME ResidualInv, FlatInv, [Next]_vars, SeenWhole' => SeenWhole,
         \/ UNCHANGED vars \/ Move \/ NextDay \/ Crash
         \/ \E g \in Groups : OrdinaryClose(g)
         \/ \E i \in DOMAIN orders : CancelStray(i)
         \/ Cleaned \/ ResidualsDone
         \/ \E g \in Groups : \/ NothingPending(g) \/ StillWorking(g) \/ RepriceFailed(g) \/ PassedOver(g)
                              \/ StatusUnavailable(g) \/ Unattributed(g) \/ Reprice(g) \/ ResidualEnded(g)
  PROVE  FlatInv'
<1>1. TypeOK
  BY DEF ResidualInv
<1>2. CASE UNCHANGED <<file, book, orders, stock, base, settled, snap>> /\ (pc' # "idle" => pc # "idle")
  BY <1>2, FlatKept DEF AllClosed
<1>3. CASE Move \/ UNCHANGED vars
  BY <1>2, <1>3 DEF Move, vars, world, control
<1>4. CASE NextDay
  <2>1. pc' = "idle" /\ UNCHANGED <<file, stock, base, settled>>
    BY <1>4 DEF NextDay, control
  <2> QED BY <2>1, FlatKept DEF AllClosed
<1>5. CASE Crash
  <2>1. pc' = "idle" /\ UNCHANGED <<file, stock, base, settled>>
    BY <1>5 DEF Crash, world
  <2> QED BY <2>1, FlatKept DEF AllClosed
<1>6. ASSUME NEW g \in Groups, OrdinaryClose(g) PROVE FlatInv'
  <2>1. pc' = "idle" /\ UNCHANGED <<stock, base, settled>> /\ g \notin settled
    BY <1>6 DEF OrdinaryClose, control, world
  <2>2. \A h \in settled : file'[h] = file[h]
    BY <1>1, <1>6, <2>1 DEF OrdinaryClose, TypeOK
  <2> QED BY <2>1, <2>2, FlatKept DEF AllClosed
<1>7. ASSUME NEW i \in DOMAIN orders, CancelStray(i) PROVE FlatInv'
  <2>1. UNCHANGED <<file, book, stock, base, settled, snap>> /\ pc' = pc /\ pc # "idle" /\ orders # <<>>
    BY <1>1, <1>7 DEF CancelStray, world, TypeOK
  <2> QED BY <2>1, FlatKept DEF AllClosed
<1>8. ASSUME NEW g \in Groups,
             NothingPending(g) \/ StillWorking(g) \/ RepriceFailed(g) \/ PassedOver(g)
      PROVE  FlatInv'
  BY <1>2, <1>8 DEF NothingPending, StillWorking, RepriceFailed, PassedOver, Visit, world
<1>9. CASE Cleaned \/ ResidualsDone
  BY <1>2, <1>9 DEF Cleaned, ResidualsDone, world
<1>10. ASSUME NEW g \in Groups, StatusUnavailable(g) \/ Unattributed(g) \/ Reprice(g) \/ ResidualEnded(g)
       PROVE  FlatInv'
  <2>1. /\ UNCHANGED <<file, stock, base, settled, snap>> /\ pc' = pc /\ pc # "idle"
        /\ orders' # <<>> => orders # <<>>
    <3>1. CASE Reprice(g)
      <4>1. pc # "idle" /\ book[g].order # 0
        BY <3>1 DEF Reprice, Pending, Visit
      <4>2. RecordSound(g, book[g])
        BY <4>1 DEF ResidualInv, CopyInv
      <4>3. orders # <<>>
        BY <4>1, <4>2 DEF RecordSound
      <4> QED BY <3>1, <4>3 DEF Reprice, Visit, world
    <3> QED BY <1>10, <3>1 DEF StatusUnavailable, Unattributed, ResidualEnded, Visit, world
  <2>2. \A h \in Groups : book'[h].closed = book[h].closed
    BY <1>1, <1>10, CopyTouched
  <2>3. AllClosed(book)' => AllClosed(book)
    BY <1>1, <2>1, <2>2 DEF AllClosed, TypeOK
  <2> QED BY <2>1, <2>3, FlatKept DEF AllClosed
<1> QED BY <1>3, <1>4, <1>5, <1>6, <1>7, <1>8, <1>9, <1>10

LEMMA StepFlatInv ==
  ASSUME ResidualInv, FlatInv, [Next]_vars
  PROVE  FlatInv'
<1>1. /\ TypeOK /\ OrdersInv /\ ChainInv
      /\ SeenWhole' => SeenWhole
      /\ pc # "idle" => SeenInv /\ \A g \in Groups : CopyInv(g) /\ RecordSound(g, book[g])
  BY SeenKept DEF ResidualInv, CopyInv
<1>2. ASSUME NEW d \in 0 .. MaxDay, NEW spot \in Spots, Settle(d, spot) PROVE FlatInv'
  <2>1. PICK h \in Groups : h \notin settled /\ h \in settled' /\ ~file[h].closed
    BY <1>2 DEF Settle
  <2>2. file' = file /\ book' = book /\ orders' = orders /\ pc' = pc
    BY <1>2 DEF Settle, control
  <2>3. orders = <<>>
    BY <1>1, <2>1 DEF ChainInv
  <2>4. pc # "idle" => ~book[h].closed
    BY <1>1, <2>1 DEF CopyInv
  <2> QED BY <2>1, <2>2, <2>3, <2>4 DEF FlatInv, AllClosed
<1>3. ASSUME NEW i \in DOMAIN orders, Fill(i) PROVE FlatInv'
  <2>1. UNCHANGED <<file, book, settled, base, snap>> /\ pc' = pc /\ orders # <<>>
    BY <1>1, <1>3 DEF Fill, control, TypeOK
  <2>2. ASSUME SeenWhole', stock \in {0, base} PROVE stock' = base
    BY <1>1, <1>3, <2>2, FillEnds
  <2> QED BY <1>1, <2>1, <2>2 DEF FlatInv, AllClosed
<1>4. ASSUME NEW timely \in BOOLEAN, Begin(timely) PROVE FlatInv'
  <2>1. UNCHANGED <<file, orders, stock, base, settled>> /\ snap'.stock = stock
    BY <1>4 DEF Begin, world
  <2>2. \A g \in Groups : book'[g].closed = file[g].closed
    BY <1>1, <1>4 DEF Begin, WithBaseline, TypeOK, Record
  <2>3. AllClosed(book)' => AllClosed(file)
    BY <1>1, <2>1, <2>2 DEF AllClosed, TypeOK
  <2> QED BY <1>1, <2>1, <2>3 DEF FlatInv, AllClosed
<1>5. CASE Save
  <2>1. pc' = "idle" /\ pc # "idle" /\ file' = book /\ UNCHANGED <<stock, base, settled>>
    BY <1>5 DEF Save, world
  <2> QED BY <1>1, <2>1 DEF FlatInv, AllClosed
<1>6. ASSUME NEW g \in Groups, ExpiredAbsent(g) PROVE FlatInv'
  <2>1. /\ UNCHANGED <<file, orders, stock, base, settled, snap>> /\ pc' = pc /\ pc # "idle"
        /\ g \in snap.gone /\ snap.stock = 0
    BY <1>6 DEF ExpiredAbsent, NotThisCycle, Visit, world
  <2>2. \A h \in Groups \ {g} : book'[h].closed = book[h].closed
    BY <1>1, <1>6 DEF ExpiredAbsent, TypeOK
  <2>3. ASSUME SeenWhole, settled # {}, \A h \in settled : book'[h].closed
        PROVE  stock \in {0, base}
    <3>1. CASE orders # <<>>
      BY <2>1, <2>3, <3>1 DEF FlatInv
    <3>2. CASE orders = <<>>
      <4>1. \A h \in settled : h \in snap.gone \/ file[h].closed
        BY <1>1, <2>1, <2>2, <2>3, <3>2 DEF CopyInv, TypeOK
      <4> QED BY <1>1, <2>1, <3>2, <4>1 DEF SeenInv
    <3> QED BY <3>1, <3>2
  <2> QED BY <1>1, <2>1, <2>3 DEF FlatInv, AllClosed
<1>7. ASSUME NEW g \in Groups, ResidualFilled(g) PROVE FlatInv'
  <2>1. /\ UNCHANGED <<file, orders, stock, base, settled, snap>> /\ pc' = pc /\ pc # "idle"
        /\ book[g].order # 0 /\ book' = [book EXCEPT ![g] = AfterFilled(@)]
    BY <1>7 DEF ResidualFilled, Pending, Visit, world
  <2>2. /\ orders # <<>> /\ file[g].baseline # NoQty /\ book[g].baseline = file[g].baseline
    BY <1>1, <2>1 DEF RecordSound, CopyInv
  <2>3. \A h \in Groups \ {g} : book'[h].closed = book[h].closed
    BY <1>1, <2>1 DEF TypeOK
  <2>4. book[g] \in Record /\ book'[g] = AfterFilled(book[g])
    BY <1>1, <2>1 DEF TypeOK
  <2>5. CASE snap.stock = book[g].baseline
    <3>1. SeenWhole => stock = base
      BY <2>1, <2>2, <2>5 DEF SeenWhole, FlatInv
    <3> QED BY <1>1, <2>1, <2>2, <3>1 DEF FlatInv, AllClosed
  <2>6. CASE snap.stock # book[g].baseline
    <3>1. book'[g].closed = book[g].closed
      BY <2>4, <2>6 DEF AfterFilled, Record
    <3>2. AllClosed(book)' => AllClosed(book)
      BY <1>1, <2>1, <2>3, <3>1 DEF AllClosed, TypeOK
    <3> QED BY <1>1, <2>1, <2>2, <3>2, FlatKept DEF AllClosed
  <2> QED BY <2>5, <2>6
<1>8. ASSUME NEW g \in Groups, SubmitResidual(g) PROVE FlatInv'
  <2>1. /\ UNCHANGED <<file, stock, base, settled, snap>> /\ pc' = pc /\ pc # "idle"
        /\ stock = snap.stock
    BY <1>8, MaySubmit DEF SubmitResidual, Visit, world
  <2>2. \A h \in Groups : book'[h].closed = book[h].closed
    BY <1>1, <1>8, CopyTouched
  <2>3. AllClosed(book)' => AllClosed(book)
    BY <1>1, <2>1, <2>2 DEF AllClosed, TypeOK
  <2> QED BY <1>1, <2>1, <2>3 DEF FlatInv, AllClosed
<1> QED
  BY <1>1, <1>2, <1>3, <1>4, <1>5, <1>6, <1>7, <1>8, FlatQuiet DEF Next, Market, CycleStep

\* As long as every structure was seen before anything was delivered, what
\* expired is only marked closed when the account holds no stock of it.
THEOREM ClosedFlatWhenSeen == Spec => [](SeenWhole => ExpiredClosedIsFlat)
<1>1. Init => FlatInv
  BY DEF Init, FlatInv, AllClosed
<1>2. ResidualInv /\ FlatInv => (SeenWhole => ExpiredClosedIsFlat)
  BY DEF ResidualInv, TypeOK, FlatInv, AllClosed, ExpiredClosedIsFlat
<1> QED BY <1>1, <1>2, ResidualInvariant, StepFlatInv, PTL DEF Spec

-----------------------------------------------------------------------------
(* Structures of one date.                                                 *)

LEMMA StepWholeInv ==
  ASSUME SameDate, ResidualInv, WholeInv, [Next]_vars
  PROVE  WholeInv'
<1> USE ResidualAssumption
<1>1. /\ TypeOK
      /\ pc # "idle" => \A g \in Groups : RecordSound(g, book[g])
  BY DEF ResidualInv, CopyInv
<1> DEFINE Same == UNCHANGED <<stock, base, settled>> /\ day' = day
<1>2. ASSUME Same, file' = file, orders' # <<>> => orders # <<>>,
             pc' # "idle" => pc # "idle" /\ snap' = snap,
             \A g \in Groups : pc' # "idle" => book'[g].baseline = book[g].baseline
      PROVE  WholeInv'
  BY <1>2 DEF WholeInv, SeenWhole
<1>3. CASE UNCHANGED vars \/ Move \/ Cleaned \/ ResidualsDone
  BY <1>2, <1>3 DEF vars, world, control, Move, Cleaned, ResidualsDone
<1>4. ASSUME NEW d \in 0 .. MaxDay, NEW spot \in Spots, Settle(d, spot) PROVE WholeInv'
  <2>1. PICK h \in Groups : Expiry[h] = d /\ h \in settled'
    BY <1>4 DEF Settle
  <2>2. day' > Expiry[h] /\ settled' # {} /\ settled \subseteq settled'
    BY <1>4, <2>1 DEF Settle
  <2>3. UNCHANGED <<file, book, base, snap, day>> /\ pc' = pc
    BY <1>4 DEF Settle, control
  <2> QED BY <2>2, <2>3 DEF WholeInv, SeenWhole
<1>5. ASSUME NEW i \in DOMAIN orders, Fill(i) PROVE WholeInv'
  <2>1. settled # {}
    BY <1>1, <1>5 DEF WholeInv, TypeOK
  <2>2. UNCHANGED <<file, book, settled, base, snap, day>> /\ pc' = pc
    BY <1>5 DEF Fill, control
  <2> QED BY <2>1, <2>2 DEF WholeInv, SeenWhole
<1>6. CASE NextDay
  <2>1. /\ day' <= MaxDay /\ day <= day' /\ day' \in Int /\ pc' = "idle"
        /\ UNCHANGED <<file, stock, settled, base>>
    BY <1>1, <1>6, DayGrows DEF NextDay, TypeOK, WholeInv, control
  <2>2. settled = {} => orders' = <<>>
    BY <1>6 DEF NextDay, WholeInv
  <2>3. \A g \in Groups : day > Expiry[g] => day' > Expiry[g]
    BY <1>1, <2>1 DEF TypeOK
  <2> QED BY <2>1, <2>2, <2>3 DEF WholeInv, SeenWhole
<1>7. ASSUME NEW g \in Groups, OrdinaryClose(g) PROVE WholeInv'
  <2>1. pc' = "idle" /\ Same /\ orders' = orders /\ \A h \in Groups : file'[h].baseline = file[h].baseline
    BY <1>1, <1>7 DEF OrdinaryClose, control, world, TypeOK, Record
  <2> QED BY <2>1 DEF WholeInv, SeenWhole
<1>8. ASSUME NEW timely \in BOOLEAN, Begin(timely) PROVE WholeInv'
  <2>1. Same /\ file' = file /\ orders' = orders /\ snap'.gone = settled
    BY <1>8 DEF Begin, world
  <2>2. \A g \in Groups : book'[g].baseline \in {NoQty, base}
    <3> SUFFICES ASSUME NEW g \in Groups PROVE book'[g].baseline \in {NoQty, base}
      OBVIOUS
    <3>1. file[g] \in Record /\ file[g].baseline \in {NoQty, base} /\ book'[g] = WithBaseline(g, timely)
      BY <1>1, <1>8 DEF WholeInv, SeenWhole, Begin, TypeOK
    <3>2. CASE day <= Expiry[g]
      <4>1. \A h \in Groups : ~(day > Expiry[h])
        BY <1>1, <3>2 DEF SameDate, TypeOK
      <4>2. stock = base
        BY <4>1 DEF WholeInv
      <4> QED BY <3>1, <4>2 DEF WithBaseline, Record
    <3>3. CASE ~(day <= Expiry[g])
      <4>1. WithBaseline(g, timely) = [file[g] EXCEPT !.waits = FALSE]
        BY <1>1, <3>3 DEF WithBaseline, TypeOK
      <4> QED BY <3>1, <4>1 DEF Record
    <3> QED BY <3>2, <3>3
  <2> QED BY <2>1, <2>2 DEF WholeInv, SeenWhole
<1>9. ASSUME NEW i \in DOMAIN orders, CancelStray(i) PROVE WholeInv'
  <2>1. Same /\ file' = file /\ book' = book /\ snap' = snap /\ pc' = pc /\ orders # <<>>
    BY <1>1, <1>9 DEF CancelStray, world, TypeOK
  <2> QED BY <1>2, <2>1
<1>10. ASSUME NEW g \in Groups,
              NothingPending(g) \/ StillWorking(g) \/ RepriceFailed(g) \/ PassedOver(g)
       PROVE  WholeInv'
  BY <1>2, <1>10 DEF NothingPending, StillWorking, RepriceFailed, PassedOver, Visit, world
<1>11. ASSUME NEW g \in Groups,
              \/ StatusUnavailable(g) \/ Unattributed(g) \/ Reprice(g) \/ ResidualFilled(g)
              \/ ResidualEnded(g) \/ ExpiredAbsent(g) \/ SubmitResidual(g)
       PROVE  WholeInv'
  <2>1. Same /\ file' = file /\ snap' = snap /\ pc' = pc /\ pc # "idle"
    BY <1>11 DEF StatusUnavailable, Unattributed, Reprice, ResidualFilled, ResidualEnded,
                 ExpiredAbsent, SubmitResidual, Visit, world
  <2>2. \A h \in Groups : book'[h].baseline = book[h].baseline
    BY <1>1, <1>11, CopyTouched, CopyClosed
  <2>3. orders' # <<>> => orders # <<>> \/ settled # {}
    <3>1. CASE SubmitResidual(g)
      BY <3>1, MaySubmit
    <3>2. CASE Reprice(g)
      BY <1>1, <2>1, <3>2 DEF Reprice, Pending, RecordSound
    <3> QED BY <1>11, <3>1, <3>2 DEF StatusUnavailable, Unattributed, ResidualFilled, ResidualEnded,
                 ExpiredAbsent
  <2> QED BY <2>1, <2>2, <2>3 DEF WholeInv, SeenWhole
<1>12. CASE Save
  <2>1. pc # "idle" /\ pc' = "idle" /\ Same /\ file' = book /\ orders' = orders
    BY <1>12 DEF Save, world
  <2> QED BY <2>1 DEF WholeInv, SeenWhole
<1>13. CASE Crash
  <2>1. pc' = "idle" /\ Same /\ file' = file /\ orders' = orders
    BY <1>13 DEF Crash, world
  <2> QED BY <2>1 DEF WholeInv, SeenWhole
<1> QED
  BY <1>3, <1>4, <1>5, <1>6, <1>7, <1>8, <1>9, <1>10, <1>11, <1>12, <1>13 DEF Next, Market, CycleStep

\* Structures that expire on one date are all seen before anything is
\* delivered, so both hold without a condition on what was seen.
THEOREM SameDateIsSafe ==
  SameDate => (Spec => [](NeverOversold /\ ExpiredClosedIsFlat))
<1> SUFFICES ASSUME SameDate PROVE Spec => [](NeverOversold /\ ExpiredClosedIsFlat)
  OBVIOUS
<1>1. Init => WholeInv
  BY ResidualAssumption DEF Init, WholeInv, SeenWhole, Fresh
<1>2. Spec => []WholeInv
  BY <1>1, StepWholeInv, ResidualInvariant, PTL DEF Spec
<1>3. WholeInv => SeenWhole
  BY DEF WholeInv
<1> QED BY <1>2, <1>3, NeverOversoldWhenSeen, ClosedFlatWhenSeen, PTL
=============================================================================
