----------------------------- MODULE ResidualStock -----------------------------
(***************************************************************************)
(* What happens to a structure whose options have expired: the expiry half *)
(* of PositionLifecycle.manage (agent/position_lifecycle.py) with the      *)
(* broker calls of agent/executor.py it makes.  Settlement takes the       *)
(* option legs away and may leave stock; the stock is closed by a day      *)
(* limit order, repriced while nothing of it has filled, and sent again    *)
(* when the day ends.  All structures here are on one underlying, which is *)
(* where attribution is hard.  Quantities of stock are counted in half     *)
(* lots, so that an order for a lot can fill in part.                      *)
(***************************************************************************)
EXTENDS Integers, Sequences, FiniteSetsExt, Functions

CONSTANTS Groups,     \* structures on the underlying
          Legs,       \* the option legs of a structure
          Expiry,     \* its expiry date
          Bases,      \* stock the account may hold beside the structures
          Spots,      \* prices the underlying may settle at
          Prices,     \* touch prices of the stock
          NoQty,      \* a quantity that is not recorded
          MaxDay,     \* bound: trading days
          MaxMoves,   \* bound: changes of the touch price
          Faults,     \* what may go wrong
          MaxFaults   \* bound: how often

\* status: an order cannot be read; cancel: a cancel or a replacement is
\* refused; reply: the answer to a submitted or replaced order is lost;
\* crash: the process dies.
FaultKinds == {"status", "cancel", "reply", "crash"}

ASSUME ResidualAssumption ==
  /\ IsFiniteSet(Groups) /\ \A g \in Groups : IsFiniteSet(Legs[g])
  /\ \A g \in Groups : Legs[g] \subseteq [kind : {"call", "put"}, side : {"buy", "sell"}, strike : Spots]
  /\ Expiry \in [Groups -> Nat]
  /\ Bases \subseteq Int /\ NoQty \notin Int /\ Spots \subseteq Int /\ Prices \subseteq Nat \ {0}
  /\ MaxDay \in Nat /\ MaxMoves \in Nat /\ MaxFaults \in Nat
  /\ Faults \subseteq FaultKinds

VARIABLES file,      \* positions_meta.json
          book,      \* the copy of it a cycle works on
          orders,    \* the broker's stock orders, in the order they were accepted
          stock,     \* the account's stock
          settled,   \* structures whose legs have left the account
          base,      \* stock held beside the structures
          snap,      \* the stock and legs this cycle saw when it started
          price, day, moves, faults,
          pc, todo,
          lost       \* history: the program lost track of an order it sent

world   == <<stock, settled, base, price, day, moves>>
control == <<pc, todo>>
vars    == <<file, book, orders, world, snap, faults, control, lost>>

Lot  == 2
SignOf(n) == IF n > 0 THEN 1 ELSE IF n < 0 THEN -1 ELSE 0
Size(n) == IF n < 0 THEN -n ELSE n

\* order: the tracked order while residual_equity_close_pending, or 0.
\* waits: retry_after holds this cycle's clock; any later cycle is past it.
Fresh == [closed |-> FALSE, quarantined |-> FALSE, baseline |-> NoQty,
          order |-> 0, cid |-> <<>>, qty |-> 0, attempt |-> 0, reprice |-> 0,
          original |-> NoQty, remaining |-> NoQty, waits |-> FALSE]

Init == /\ base \in Bases
        /\ file = [g \in Groups |-> Fresh]
        /\ book = file
        /\ orders = <<>> /\ stock = base /\ settled = {}
        /\ snap = [stock |-> base, gone |-> {}, price |-> 0, day |-> 0]
        /\ price \in Prices
        /\ day = 0 /\ moves = 0 /\ faults = 0
        /\ pc = "idle" /\ todo = {} /\ lost = FALSE

Fault(kind) == kind \in Faults /\ faults < MaxFaults /\ faults' = faults + 1

-----------------------------------------------------------------------------
(* The broker and the market.                                              *)

Live(o) == o.status \in {"NEW", "PARTIALLY_FILLED"}
Rest(o) == o.qty - SignOf(o.qty) * o.filled
Marketable(o) == IF o.qty > 0 THEN o.limit <= price ELSE o.limit >= price

\* What the legs turn into when they settle at a price.
Direction(leg) == (IF leg.kind = "call" THEN 1 ELSE -1) * (IF leg.side = "sell" THEN -1 ELSE 1)
InTheMoney(leg, spot) == IF leg.kind = "call" THEN spot > leg.strike ELSE spot < leg.strike
Delivery(g, spot) ==
  SumFunctionOnSet([leg \in Legs[g] |-> Direction(leg) * Lot], {leg \in Legs[g] : InTheMoney(leg, spot)})

\* Structures of one date settle together, some time after their expiry.
Settle(d, spot) ==
  LET due == {g \in Groups : Expiry[g] = d /\ g \notin settled /\ ~file[g].closed}
  IN /\ due # {} /\ day > d
     /\ settled' = settled \cup due
     /\ stock' = stock + SumFunctionOnSet([g \in Groups |-> Delivery(g, spot)], due)
     /\ UNCHANGED <<file, book, orders, base, snap, price, day, moves, faults, control, lost>>

Fill(i) == /\ Live(orders[i]) /\ Marketable(orders[i])
           /\ LET n == orders[i].filled + 1
              IN orders' = [orders EXCEPT ![i].filled = n,
                              ![i].status = IF n = Size(orders[i].qty) THEN "FILLED" ELSE "PARTIALLY_FILLED"]
           /\ stock' = stock - SignOf(orders[i].qty)
           /\ UNCHANGED <<file, book, settled, base, snap, price, day, moves, faults, control, lost>>

\* Day orders end with the day.  A cycle takes minutes, not days.  Past the
\* bound a day still ends for an order the price has left behind in part.
LeftBehind(o) == o.status = "PARTIALLY_FILLED" /\ ~Marketable(o)
NextDay == /\ pc = "idle"
           /\ day < MaxDay \/ \E i \in DOMAIN orders : LeftBehind(orders[i])
           /\ day' = Min({day + 1, MaxDay})
           /\ orders' = [i \in DOMAIN orders |->
                IF Live(orders[i]) THEN [orders[i] EXCEPT !.status = "EXPIRED"] ELSE orders[i]]
           /\ UNCHANGED <<file, book, stock, settled, base, snap, price, moves, faults, control, lost>>

Move == /\ moves < MaxMoves
        /\ \E p \in Prices \ {price} : price' = p
        /\ moves' = moves + 1
        /\ UNCHANGED <<file, book, orders, stock, settled, base, snap, day, faults, control, lost>>

\* A structure that has not expired is closed by the ordinary exit path.
OrdinaryClose(g) ==
  /\ pc = "idle" /\ g \notin settled /\ day <= Expiry[g] /\ ~file[g].closed
  /\ file' = [file EXCEPT ![g].closed = TRUE]
  /\ UNCHANGED <<book, orders, world, snap, faults, control, lost>>

-----------------------------------------------------------------------------
(* The start of a cycle.                                                   *)

\* _record_pre_expiry_underlying_baselines.  timely: before 15:15 of the day.
WithBaseline(g, timely) ==
  IF ~file[g].closed /\ file[g].baseline = NoQty /\ (day < Expiry[g] \/ (day = Expiry[g] /\ timely))
  THEN [file[g] EXCEPT !.baseline = stock, !.waits = FALSE]
  ELSE [file[g] EXCEPT !.waits = FALSE]

Begin(timely) == /\ pc = "idle" /\ pc' = "cleanup"
                 /\ snap' = [stock |-> stock, gone |-> settled, price |-> price, day |-> day]
                 /\ book' = [g \in Groups |-> WithBaseline(g, timely)]
                 /\ UNCHANGED <<file, orders, world, faults, todo, lost>>

\* retry_open_orders_cleanup: an order nobody tracks is cancelled.
Stray == {i \in DOMAIN orders : Live(orders[i]) /\ \A g \in Groups : file[g].order # i}

CancelStray(i) ==
  /\ pc = "cleanup" /\ i \in Stray \ todo
  /\ \/ /\ orders' = [orders EXCEPT ![i].status = "CANCELED"]
        /\ UNCHANGED <<faults, todo>>
     \/ /\ Fault("cancel")
        /\ todo' = todo \cup {i}
        /\ UNCHANGED orders
  /\ UNCHANGED <<file, book, world, snap, pc, lost>>

Cleaned == /\ pc = "cleanup" /\ Stray \subseteq todo
           /\ pc' = "residuals" /\ todo' = Groups
           /\ UNCHANGED <<file, book, orders, world, snap, faults, lost>>

-----------------------------------------------------------------------------
(* _reconcile_residual_equity_orders.                                      *)

Visit(g, phase) == pc = phase /\ g \in todo /\ todo' = todo \ {g} /\ pc' = pc
Quarantined(g)  == [book EXCEPT ![g].quarantined = TRUE]
Tracked(g)      == orders[book[g].order]
Pending(g)      == book[g].order # 0
Observed(r)     == snap.stock - r.baseline

NothingPending(g) == /\ Visit(g, "residuals") /\ ~Pending(g)
                     /\ UNCHANGED <<file, book, orders, world, snap, faults, lost>>

StatusUnavailable(g) == /\ Visit(g, "residuals") /\ Pending(g) /\ Fault("status")
                        /\ book' = Quarantined(g)
                        /\ UNCHANGED <<file, orders, world, snap, lost>>

Stale(o) == IF o.qty > 0 THEN o.limit > snap.price ELSE o.limit < snap.price

\* NEW at a fresh limit, PARTIALLY_FILLED and REPLACED change nothing.
StillWorking(g) ==
  /\ Visit(g, "residuals") /\ Pending(g)
  /\ \/ Tracked(g).status \in {"PARTIALLY_FILLED", "REPLACED"}
     \/ Tracked(g).status = "NEW" /\ ~Stale(Tracked(g))
  /\ UNCHANGED <<file, book, orders, world, snap, faults, lost>>

NewOrder(cid, qty, limit) == [cid |-> cid, qty |-> qty, limit |-> limit, filled |-> 0, status |-> "NEW"]
CidUsed(cid) == \E i \in DOMAIN orders : orders[i].cid = cid

\* reprice_residual_equity_close: the broker swaps the orders in one step.
Reprice(g) ==
  LET old == Tracked(g)
      n   == book[g].reprice + 1
      cid == Append(book[g].cid, n)
  IN /\ Visit(g, "residuals") /\ Pending(g)
     /\ old.status = "NEW" /\ Stale(old)
     /\ orders' = Append([orders EXCEPT ![book[g].order].status = "REPLACED"],
                         NewOrder(cid, old.qty, snap.price))
     /\ \/ /\ book' = [book EXCEPT ![g].order = Len(orders) + 1, ![g].cid = cid, ![g].reprice = n]
           /\ UNCHANGED <<faults, lost>>
        \/ /\ Fault("reply") /\ lost' = TRUE
           /\ UNCHANGED book
     /\ UNCHANGED <<file, world, snap>>

\* The broker refuses, or does not take the request: the next cycle looks again.
RepriceFailed(g) ==
  /\ Visit(g, "residuals") /\ Pending(g)
  /\ Tracked(g).status = "NEW" /\ Stale(Tracked(g)) /\ Fault("cancel")
  /\ UNCHANGED <<file, book, orders, world, snap, lost>>

\* Slip: a filled order leaves the rest to the same cycle.
SlipNoRetryClock(r) ==
  IF snap.stock = r.baseline
  THEN [r EXCEPT !.closed = TRUE, !.order = 0, !.quarantined = FALSE]
  ELSE [r EXCEPT !.order = 0, !.quarantined = TRUE]

\* FILLED: closed when the account is back at the baseline, otherwise the
\* rest waits for a cycle that sees the account after the fill.
AfterFilled(r) ==
  IF snap.stock = r.baseline
  THEN [r EXCEPT !.closed = TRUE, !.order = 0, !.quarantined = FALSE]
  ELSE [r EXCEPT !.order = 0, !.waits = TRUE, !.quarantined = TRUE]

ResidualFilled(g) ==
  /\ Visit(g, "residuals") /\ Pending(g) /\ Tracked(g).status = "FILLED"
  /\ book' = [book EXCEPT ![g] = AfterFilled(@)]
  /\ UNCHANGED <<file, orders, world, snap, faults, lost>>

\* CANCELED, REJECTED, EXPIRED: the rest is believed when the account agrees.
AfterEnded(r, o) ==
  IF Observed(r) # Rest(o)
  THEN [r EXCEPT !.quarantined = TRUE]
  ELSE [r EXCEPT !.order = 0, !.remaining = IF Rest(o) = 0 THEN NoQty ELSE Rest(o)]

ResidualEnded(g) ==
  /\ Visit(g, "residuals") /\ Pending(g) /\ Tracked(g).status \in {"CANCELED", "EXPIRED"}
  /\ book' = [book EXCEPT ![g] = AfterEnded(@, Tracked(g))]
  /\ UNCHANGED <<file, orders, world, snap, faults, lost>>

ResidualsDone == /\ pc = "residuals" /\ todo = {}
                 /\ pc' = "expired" /\ todo' = Groups
                 /\ UNCHANGED <<file, book, orders, world, snap, faults, lost>>

-----------------------------------------------------------------------------
(* _reconcile_expired_absent and _submit_residual_equity_close.            *)

NotThisCycle(g) == \/ book[g].closed \/ Pending(g) \/ book[g].waits
                   \/ Expiry[g] >= snap.day \/ g \notin snap.gone

PassedOver(g) == /\ Visit(g, "expired") /\ NotThisCycle(g)
                 /\ UNCHANGED <<file, book, orders, world, snap, faults, lost>>

\* Slip: legs that are gone are taken for proof of closure.
SlipAbsentIsClosed(g) ==
  /\ Visit(g, "expired") /\ ~NotThisCycle(g)
  /\ book' = [book EXCEPT ![g].closed = TRUE, ![g].quarantined = FALSE]
  /\ UNCHANGED <<file, orders, world, snap, faults, lost>>

\* No stock: the structure ended worthless.
ExpiredAbsent(g) ==
  /\ Visit(g, "expired") /\ ~NotThisCycle(g) /\ snap.stock = 0
  /\ book' = [book EXCEPT ![g].closed = TRUE, ![g].quarantined = FALSE]
  /\ UNCHANGED <<file, orders, world, snap, faults, lost>>

\* _possible_delivery_deltas: one price below, between and above the strikes
\* (strikes are even numbers here, so a midpoint is a number as well).
Strikes(g) == {leg.strike : leg \in Legs[g]}
Gaps(g) == {p \in Strikes(g) \X Strikes(g) :
              p[1] < p[2] /\ ~\E c \in Strikes(g) : p[1] < c /\ c < p[2]}
\* Slip: settlement between two strikes is forgotten.
SlipOuterProbes(g) == {Min(Strikes(g)) - 1, Max(Strikes(g)) + 1}
Probes(g) == {Min(Strikes(g)) - 1, Max(Strikes(g)) + 1} \cup {(p[1] + p[2]) \div 2 : p \in Gaps(g)}
PossibleDeliveryDeltas(g) == {0} \cup {Delivery(g, spot) : spot \in Probes(g)}

SoleOpen(g) == \A h \in Groups \ {g} : book[h].closed

Attributable(g) ==
  LET r == book[g]
      delivered == Observed(r)
  IN /\ SoleOpen(g) /\ r.baseline # NoQty
     /\ IF r.remaining = NoQty THEN Size(delivered) = Lot ELSE delivered = r.remaining
     /\ (IF r.remaining = NoQty THEN delivered ELSE r.original) \in PossibleDeliveryDeltas(g)

\* The id names the underlying and the attempt, not the structure.
NextCid(g) == <<book[g].attempt + 1>>

Unattributed(g) ==
  /\ Visit(g, "expired") /\ ~NotThisCycle(g) /\ snap.stock # 0
  /\ ~Attributable(g) \/ CidUsed(NextCid(g))
  /\ book' = Quarantined(g)
  /\ UNCHANGED <<file, orders, world, snap, faults, lost>>

Submitted(r, i, cid, delivered) ==
  [r EXCEPT !.quarantined = TRUE, !.order = i, !.cid = cid, !.qty = delivered, !.attempt = @ + 1,
            !.original = IF @ = NoQty THEN delivered ELSE @, !.remaining = NoQty]

SubmitResidual(g) ==
  LET delivered == Observed(book[g])
  IN /\ Visit(g, "expired") /\ ~NotThisCycle(g) /\ snap.stock # 0
     /\ Attributable(g) /\ ~CidUsed(NextCid(g))
     /\ orders' = Append(orders, NewOrder(NextCid(g), delivered, snap.price))
     /\ \/ /\ book' = [book EXCEPT ![g] = Submitted(@, Len(orders) + 1, NextCid(g), delivered)]
           /\ UNCHANGED <<faults, lost>>
        \/ /\ Fault("reply") /\ lost' = TRUE
           /\ book' = Quarantined(g)
     /\ UNCHANGED <<file, world, snap>>

Save == /\ pc = "expired" /\ todo = {}
        /\ file' = book /\ pc' = "idle"
        /\ UNCHANGED <<book, orders, world, snap, faults, todo, lost>>

\* What was learned since Begin is gone; an order sent since then is lost.
Crash == /\ pc # "idle" /\ Fault("crash")
         /\ pc' = "idle" /\ todo' = {} /\ book' = file
         /\ lost' = (lost \/ \E g \in Groups : book[g].order \notin {0, file[g].order})
         /\ UNCHANGED <<file, orders, world, snap>>

-----------------------------------------------------------------------------
Market == \/ \E d \in 0..MaxDay, spot \in Spots : Settle(d, spot)
          \/ NextDay \/ Move
          \/ \E g \in Groups : OrdinaryClose(g)

CycleStep == \/ \E timely \in BOOLEAN : Begin(timely)
             \/ \E i \in DOMAIN orders : CancelStray(i)
             \/ Cleaned
             \/ \E g \in Groups : NothingPending(g) \/ StatusUnavailable(g) \/ StillWorking(g)
                                  \/ Reprice(g) \/ RepriceFailed(g) \/ ResidualFilled(g) \/ ResidualEnded(g)
             \/ ResidualsDone
             \/ \E g \in Groups : PassedOver(g) \/ ExpiredAbsent(g) \/ Unattributed(g) \/ SubmitResidual(g)
             \/ Save

Next == \/ Market \/ CycleStep \/ Crash
        \/ \E i \in DOMAIN orders : Fill(i)

Spec == Init /\ [][Next]_vars

\* The schedule runs a cycle again and again, a marketable order is filled,
\* and days come to an end.
FairSpec == /\ Spec
            /\ WF_vars(CycleStep) /\ SF_vars(NextDay)
            /\ WF_vars(\E i \in DOMAIN orders : Fill(i))

-----------------------------------------------------------------------------
(* Invariants the proofs rest on.                                          *)

Record == [closed : BOOLEAN, quarantined : BOOLEAN, baseline : Int \cup {NoQty},
           order : Nat, cid : Seq(Nat \ {0}), qty : Int, attempt : Nat, reprice : Nat,
           original : Int \cup {NoQty}, remaining : Int \cup {NoQty}, waits : BOOLEAN]
Order  == [cid : Seq(Nat \ {0}), qty : Int, limit : Int, filled : Nat,
           status : {"NEW", "PARTIALLY_FILLED", "REPLACED", "FILLED", "CANCELED", "EXPIRED"}]

TypeOK == /\ file \in [Groups -> Record] /\ book \in [Groups -> Record]
          /\ orders \in Seq(Order)
          /\ stock \in Int /\ base \in Int /\ settled \subseteq Groups
          /\ snap \in [stock : Int, gone : SUBSET Groups, price : Int, day : Int]
          /\ price \in Int /\ day \in Int

Latest   == orders[Len(orders)]
Attempts == IF orders = <<>> THEN 0 ELSE Latest.cid[1]

\* Only the latest order can be working, it is for a lot at most, and no
\* attempt was skipped.
OrdersInv ==
  /\ \A i \in DOMAIN orders :
       LET o == orders[i]
       IN /\ o.cid # <<>> /\ Size(o.qty) \in 1 .. Lot
          /\ o.filled <= Size(o.qty) /\ (o.status = "NEW" => o.filled = 0)
          /\ Live(o) => i = Len(orders) /\ o.filled < Size(o.qty)
  /\ \A n \in 1 .. Attempts : CidUsed(<<n>>)

\* The latest order brings the account to a baseline, and nothing is left
\* that could settle.
ChainInv == orders # <<>> =>
  /\ \E g \in Groups : file[g].baseline # NoQty /\ stock - Rest(Latest) = file[g].baseline
  /\ \A g \in Groups : g \in settled \/ file[g].closed
  /\ Latest.filled = 0 => stock # 0

\* What a record says of the orders, however old it is.
RecordSound(g, r) ==
  /\ r.attempt <= Attempts
  /\ r.attempt > 0 => file[g].baseline # NoQty /\ stock - Rest(Latest) = file[g].baseline
  /\ r.order # 0 => /\ r.order \in DOMAIN orders /\ r.attempt > 0
                    /\ orders[r.order].cid = r.cid /\ r.cid[1] = r.attempt
                    /\ r.attempt = Attempts =>
                         r.order = Len(orders) \/ orders[r.order].status = "REPLACED"
  /\ (r.order = 0 /\ r.attempt > 0 /\ r.attempt = Attempts) => ~Live(Latest)
  /\ r.remaining # NoQty => Size(r.remaining) \in 1 .. Lot

\* What the working copy of a cycle knows, and the account it has seen.
CopyInv(g) ==
  /\ RecordSound(g, book[g])
  /\ file[g].baseline # NoQty \/ Expiry[g] < snap.day => book[g].baseline = file[g].baseline
  /\ file[g].closed => book[g].closed
  /\ book[g].closed => file[g].closed \/ (g \in settled /\ (orders = <<>> => g \in snap.gone))
  /\ (book[g].order = 0 /\ book[g].attempt > 0 /\ book[g].attempt = Attempts
       /\ ~book[g].waits /\ ~book[g].closed) => stock = snap.stock

SeenInv == /\ snap.gone \subseteq settled
           /\ (orders = <<>> /\ \A g \in settled : g \in snap.gone \/ file[g].closed)
                => stock = snap.stock

ResidualInv == /\ TypeOK /\ OrdersInv /\ ChainInv
               /\ \A g \in Groups : RecordSound(g, file[g])
               /\ pc # "idle" => SeenInv /\ \A g \in Groups : CopyInv(g)

\* Every structure was seen by a cycle before anything was delivered; so it is
\* when all of them expire on one date.
SeenWhole == \A g \in Groups : file[g].baseline \in {NoQty, base}
SameDate  == \A g, h \in Groups : Expiry[g] = Expiry[h]

AllClosed(records) == settled # {} /\ \A g \in settled : records[g].closed

FlatInv == SeenWhole =>
  /\ AllClosed(file) => stock \in {0, base}
  /\ (pc # "idle" /\ AllClosed(book)) => stock \in {0, base}
  /\ (pc # "idle" /\ orders # <<>> /\ snap.stock \in {0, base}) => stock \in {snap.stock, base}

\* Until the first settlement nothing moves the account.
WholeInv == /\ settled # {} => \E g \in Groups : day > Expiry[g]
            /\ settled = {} => stock = base /\ orders = <<>>
            /\ day <= MaxDay
            /\ SeenWhole
            /\ pc # "idle" => /\ snap.gone \subseteq settled
                              /\ \A g \in Groups : book[g].baseline \in {NoQty, base}

-----------------------------------------------------------------------------
(* Properties.                                                             *)

Between(a, x, b) == (a <= x /\ x <= b) \/ (b <= x /\ x <= a)

\* Whatever happens to the answers, the cancels and the process, the working
\* residual orders together never close more than the stock that was
\* delivered: if all of them fill, the account ends between what it holds now
\* and what it held before (agent/executor.py 211-213, "not a general equity
\* trading API ... risk-reducing").
Working == {i \in DOMAIN orders : Live(orders[i])}
WhenFilled == stock - SumFunctionOnSet([i \in DOMAIN orders |-> Rest(orders[i])], Working)
NeverOversold == Between(base, WhenFilled, stock)

\* They close what was delivered since a structure that expired was last seen
\* whole (agent/position_lifecycle.py 311-344, its baseline), and nothing of
\* what was there before.
ClosesToBaseline == Working # {} => \E g \in Groups : file[g].baseline = WhenFilled

\* A structure that expired is marked closed only when the account holds no
\* stock of it: none at all, or what it held before (agent/position_lifecycle.py
\* 349-356, "only when their resulting exposure is zero").
ExpiredClosedIsFlat ==
  (settled # {} /\ \A g \in Groups : file[g].closed) => stock \in {0, base}

\* Delivered stock that one structure can answer for is flattened in the end,
\* unless an answer was lost (agent/position_lifecycle.py 562-623).
Answerable(g) == /\ g \in settled /\ ~file[g].closed /\ file[g].baseline = base
                 /\ \A h \in Groups \ {g} : file[h].closed
StockIsFlattened ==
  \A g \in Groups : (Answerable(g) /\ stock # base) ~> (stock \in {0, base} \/ lost)
=============================================================================
