--------------------------- MODULE PositionLifecycle ---------------------------
(***************************************************************************)
(* Structures from a filled entry to a filled close: the exit half of      *)
(* scripts/run_cycle.py, reconcile_pending_entries of agent/ledger.py and  *)
(* PositionLifecycle.manage of agent/position_lifecycle.py.  A cycle looks *)
(* at the account once, when it starts; orders go on filling while it      *)
(* works; what it learns is saved when manage is done.                     *)
(*                                                                         *)
(* Expiry, assignment and residual stock are not in this module: the       *)
(* structures here have not expired.  All legs of a structure have the     *)
(* same quantity (_expected_order_quantity refuses any other).             *)
(***************************************************************************)
EXTENDS Integers, Sequences, FiniteSetsExt, Functions

CONSTANTS Groups,      \* structures
          Symbols,     \* option contracts
          Legs,        \* the side held of each contract of a structure
          Size,        \* entered quantity of a structure
          Held,        \* structures that are open when the run starts
          Due,         \* structures with a standing reason to close
          Orphan,      \* owner of an order no structure owns
          Faults,      \* what may go wrong, see below
          MaxOrders    \* bound: close orders sent

\* lookup: reading an entry order, or cancelling, may fail; status: reading a
\* close order may fail; reply: the answer to a submitted close may be lost;
\* crash: the process may die; split: an entry may fill in part; unpriced: a
\* leg may have no price.
FaultKinds == {"lookup", "status", "reply", "crash", "split", "unpriced"}

\* The side of each contract of some structure or order.
LegSets == UNION {[S -> {"buy", "sell"}] : S \in (SUBSET Symbols) \ {{}}}

ASSUME LifecycleAssumption ==
  /\ IsFiniteSet(Groups) /\ IsFiniteSet(Symbols)
  /\ Legs \in [Groups -> LegSets]
  /\ Size \in [Groups -> Nat \ {0}]
  /\ Held \subseteq Groups /\ Due \subseteq Groups
  /\ Orphan \notin Groups
  /\ Groups \cap Symbols = {}
  /\ Faults \subseteq FaultKinds
  /\ MaxOrders \in Nat

VARIABLES ledger,      \* positions_meta.json: one record per structure
          book,        \* the copy of it manage works on
          entry,       \* the broker's entry orders
          orders,      \* the broker's close orders, in the order they were sent
          position,    \* net signed quantity of each contract
          snap,        \* the positions this cycle saw when it started
          pc,
          todo         \* structures, or contracts, this phase has yet to visit

broker == <<entry, orders, position>>
vars   == <<ledger, book, broker, snap, pc, todo>>

Phases == {"idle", "cleanup", "entries", "closes", "claims", "exits", "orphans",
           "gates", "entering"}
Stages == {"none", "pending", "dropped", "open", "closed"}

\* close: the order in close_order_id while close_pending, or 0.
\* quarantined: reconciliation_required.  remainder: a proved part of a close
\* is still to be sent (verified_close_remainder_required).
Entered(g) == [stage |-> "open", qty |-> Size[g], close |-> 0,
               quarantined |-> FALSE, remainder |-> FALSE]
NoRecord   == [stage |-> "none", qty |-> 0, close |-> 0,
               quarantined |-> FALSE, remainder |-> FALSE]

Sign(side) == IF side = "buy" THEN 1 ELSE -1
AbsOf(n)   == IF n < 0 THEN -n ELSE n
HasLeg(g, x) == x \in DOMAIN Legs[g]
LotsIn(S, x) == LET lots == [g \in Groups |-> Sign(Legs[g][x]) * Size[g]]
                IN  SumFunctionOnSet(lots, {g \in S : HasLeg(g, x)})

Init == /\ ledger = [g \in Groups |-> IF g \in Held THEN Entered(g) ELSE NoRecord]
        /\ book = ledger
        /\ entry = [g \in Groups |-> [filled |-> IF g \in Held THEN Size[g] ELSE 0, over |-> g \in Held]]
        /\ orders = <<>>
        /\ position = [x \in Symbols |-> LotsIn(Held, x)]
        /\ snap = position
        /\ pc = "idle" /\ todo = {}

Open(b) == {g \in Groups : b[g].stage = "open"}

-----------------------------------------------------------------------------
(* run_cycle, up to manage: snapshot, cleanup, pending entries.            *)

Begin == /\ pc = "idle"
         /\ pc' = "cleanup"
         /\ snap' = position
         /\ UNCHANGED <<ledger, book, broker, todo>>

\* protected_open_order_ids; a pending entry is protected as well.
Protected == {ledger[g].close : g \in Groups}
Stray == {i \in DOMAIN orders : orders[i].working /\ i \notin Protected}

Cleanup ==
  /\ pc = "cleanup"
  /\ \E cancelled \in SUBSET Stray :
       /\ "lookup" \in Faults \/ cancelled = Stray
       /\ orders' = [i \in DOMAIN orders |->
                       IF i \in cancelled THEN [orders[i] EXCEPT !.working = FALSE]
                       ELSE orders[i]]
  /\ pc' = "entries"
  /\ UNCHANGED <<ledger, book, entry, position, snap, todo>>

\* reconcile_pending_entries, saved at once; manage then loads the file.
SettleEntries(silent) ==
  LET answered == {g \in Groups : ledger[g].stage = "pending"} \ silent
      full     == {g \in answered : entry[g].filled = Size[g]}
      void     == {g \in answered : entry[g].filled = 0 /\ entry[g].over}
  IN  /\ pc = "entries"
      /\ silent = {} \/ "lookup" \in Faults
      /\ ledger' = [g \in Groups |->
                      CASE g \in full -> Entered(g)
                        [] g \in void -> [ledger[g] EXCEPT !.stage = "dropped"]
                        [] OTHER      -> ledger[g]]
      /\ book' = ledger'
      /\ pc' = "closes"
      /\ todo' = {g \in Open(book') : book'[g].close # 0}
      /\ UNCHANGED <<broker, snap>>

-----------------------------------------------------------------------------
(* manage: the closes sent earlier.                                        *)

Quarantine(r) == [r EXCEPT !.quarantined = TRUE]
Closed(r)     == [r EXCEPT !.stage = "closed", !.close = 0, !.quarantined = FALSE]

\* Slip: close_pending stays set after a cancelled close.
ReleaseNothing(r) == r
Release(r)        == [r EXCEPT !.close = 0]

\* Slip: the operands of the subtraction are swapped.
ReduceBackwards(r, n) == [r EXCEPT !.qty = n - @, !.close = 0, !.remainder = TRUE]
\* Slip: the quantity of the legs is left as it was.
ReduceNothing(r, n) == [r EXCEPT !.close = 0, !.remainder = TRUE]
Reduce(r, n)        == [r EXCEPT !.qty = @ - n, !.close = 0, !.remainder = TRUE]

\* Slip: the sign of a short leg is forgotten.
ConfirmedUnsigned(g, filled) ==
  /\ 0 < filled /\ filled < book[g].qty
  /\ \A x \in DOMAIN Legs[g] : snap[x] = book[g].qty - filled

\* _record_confirmed_partial_fill: every leg shows exactly the remainder.
Confirmed(g, filled) ==
  /\ 0 < filled /\ filled < book[g].qty
  /\ \A x \in DOMAIN Legs[g] : snap[x] = Sign(Legs[g][x]) * (book[g].qty - filled)

\* Slip: an order that is over counts as done if any of it filled.
DonePartly(r, o) == ~o.working /\ o.filled > 0
Done(r, o)       == o.filled = r.qty

\* Slip: an order nobody has filled yet counts as over.
OverOrNew(o) == ~o.working \/ o.filled = 0
Over(o)      == ~o.working

\* _reconcile_close on what the broker says of the order.  FILLED with less
\* than the recorded quantity needs an order of another size: none is sent.
Resolution(g) ==
  LET r == book[g]
      o == orders[r.close]
  IN  CASE Done(r, o)                   -> Closed(r)
        [] Over(o) /\ o.filled = 0      -> Release(r)
        [] ~Over(o) /\ o.filled = 0     -> r
        [] ~Done(r, o) /\ o.filled > 0  ->
             IF Over(o) /\ Confirmed(g, o.filled) THEN Reduce(r, o.filled) ELSE Quarantine(r)

ReconcileClose(g) ==
  /\ pc = "closes" /\ g \in todo
  /\ book' = [book EXCEPT ![g] = Resolution(g)]
  /\ todo' = todo \ {g}
  /\ UNCHANGED <<ledger, broker, snap, pc>>

StatusUnavailable(g) ==
  /\ pc = "closes" /\ g \in todo
  /\ "status" \in Faults
  /\ book' = [book EXCEPT ![g] = Quarantine(@)]
  /\ todo' = todo \ {g}
  /\ UNCHANGED <<ledger, broker, snap, pc>>

ClosesDone == /\ pc = "closes" /\ todo = {}
              /\ pc' = "claims"
              /\ UNCHANGED <<ledger, book, broker, snap, todo>>

-----------------------------------------------------------------------------
(* manage: ownership, then exits.                                          *)

Claimants(x) == {g \in Open(book) : HasLeg(g, x)}
Disputed(x) ==
  LET sides == {Legs[g][x] : g \in Claimants(x)}
      claim == MapThenSumSet(LAMBDA g : book[g].qty, Claimants(x))
  IN  \/ Cardinality(sides) > 1
      \/ \E side \in sides : Sign(side) * snap[x] < claim
Conflicts == UNION {Claimants(x) : x \in {y \in Symbols : Disputed(y)}}

\* _ownership_conflicts quarantines every claimant of a disputed contract.
ClaimOwnership ==
  /\ pc = "claims"
  /\ book' = [g \in Groups |-> IF g \in Conflicts THEN Quarantine(book[g]) ELSE book[g]]
  /\ pc' = "exits"
  /\ todo' = {g \in Open(book') : book'[g].close = 0 /\ ~book'[g].quarantined}
  /\ UNCHANGED <<ledger, broker, snap>>

CloseOrder(owner, legs, size) ==
  [for |-> owner, legs |-> legs, size |-> size, filled |-> 0, working |-> TRUE]

\* build_close_proposal leaves out a leg without a price; the broker accepts.
SubmitExit(g, priced) ==
  /\ pc = "exits" /\ g \in todo
  /\ priced # {} /\ priced \subseteq DOMAIN Legs[g]
  /\ priced = DOMAIN Legs[g] \/ "unpriced" \in Faults
  /\ Len(orders) < MaxOrders
  /\ orders' = Append(orders, CloseOrder(g, [x \in priced |-> Legs[g][x]], book[g].qty))
  /\ book' = [book EXCEPT ![g].close = Len(orders'), ![g].remainder = FALSE]
  /\ todo' = todo \ {g}
  /\ UNCHANGED <<ledger, entry, position, snap, pc>>

\* The broker took the order and the answer was lost: submit raised, and the
\* order has no record.
ExitUnanswered(g) ==
  /\ pc = "exits" /\ g \in todo
  /\ "reply" \in Faults
  /\ Len(orders) < MaxOrders
  /\ orders' = Append(orders, CloseOrder(g, Legs[g], book[g].qty))
  /\ todo' = todo \ {g}
  /\ UNCHANGED <<ledger, book, entry, position, snap, pc>>

\* No reason to close, no price at all, or the submission failed.
NoExit(g) ==
  /\ pc = "exits" /\ g \in todo
  /\ todo' = todo \ {g}
  /\ UNCHANGED <<ledger, book, broker, snap, pc>>

\* Slip: managed_symbols is taken after the closes are reconciled.
ManagedAfter == UNION {DOMAIN Legs[g] : g \in Open(book)}
\* managed_symbols is taken before the closes are reconciled.
Managed      == UNION {DOMAIN Legs[g] : g \in Open(ledger)}
ExitsDone == /\ pc = "exits" /\ todo = {}
             /\ pc' = "orphans"
             /\ todo' = {x \in Symbols \ Managed : snap[x] # 0}
             /\ UNCHANGED <<ledger, book, broker, snap>>

\* _close_orphans: one single-leg order per contract no structure manages.
CloseOrphan(x) ==
  /\ pc = "orphans" /\ x \in todo
  /\ Len(orders) < MaxOrders
  /\ LET side == IF snap[x] > 0 THEN "buy" ELSE "sell"
     IN  orders' = Append(orders, CloseOrder(Orphan, [y \in {x} |-> side], AbsOf(snap[x])))
  /\ todo' = todo \ {x}
  /\ UNCHANGED <<ledger, book, entry, position, snap, pc>>

\* No contract or quote for it, or the submission raised.
LeaveOrphan(x) == /\ pc = "orphans" /\ x \in todo
                  /\ todo' = todo \ {x}
                  /\ UNCHANGED <<ledger, book, broker, snap, pc>>

\* structures.save, the last thing manage does.
Save == /\ pc = "orphans" /\ todo = {}
        /\ ledger' = book
        /\ pc' = "gates"
        /\ UNCHANGED <<book, broker, snap, todo>>

-----------------------------------------------------------------------------
(* New entries, as far as exits can see (EntryDispatch has the rest).      *)

\* unresolved_structure_closes and unresolved_entry_reconciliations.
EntryAuthority == /\ \A g \in Open(ledger) : ~ledger[g].quarantined
                  /\ \A g \in Groups : ledger[g].stage # "pending"

PermitEntries == /\ pc = "gates"
                 /\ EntryAuthority
                 /\ pc' = "entering"
                 /\ UNCHANGED <<ledger, book, broker, snap, todo>>

Enter(g) == /\ pc = "entering"
            /\ ledger[g].stage = "none"
            /\ ledger' = [ledger EXCEPT ![g].stage = "pending"]
            /\ book' = ledger'
            /\ UNCHANGED <<broker, snap, pc, todo>>

EndCycle == /\ pc \in {"gates", "entering"}
            /\ pc' = "idle"
            /\ UNCHANGED <<ledger, book, broker, snap, todo>>

-----------------------------------------------------------------------------
(* The world.  The broker executes what it is sent.                        *)

Crash == /\ "crash" \in Faults
         /\ pc # "idle"
         /\ pc' = "idle" /\ todo' = {} /\ book' = ledger
         /\ UNCHANGED <<ledger, broker, snap>>

EntryFills(g) ==
  /\ ledger[g].stage = "pending" /\ ~entry[g].over
  /\ \E n \in (entry[g].filled + 1)..Size[g] :
       /\ n = Size[g] \/ "split" \in Faults
       /\ entry' = [entry EXCEPT ![g] = [filled |-> n, over |-> n = Size[g]]]
       /\ position' = [x \in Symbols |->
                         IF HasLeg(g, x)
                         THEN position[x] + Sign(Legs[g][x]) * (n - entry[g].filled)
                         ELSE position[x]]
  /\ UNCHANGED <<ledger, book, orders, snap, pc, todo>>

EntryEnds(g) == /\ ledger[g].stage = "pending" /\ ~entry[g].over
                /\ entry' = [entry EXCEPT ![g].over = TRUE]
                /\ UNCHANGED <<ledger, book, orders, position, snap, pc, todo>>

\* One more unit of every leg of a close, the last of which completes it.
CloseFills(i) ==
  /\ orders[i].working
  /\ LET filled == orders[i].filled + 1
     IN  orders' = [orders EXCEPT ![i].filled = filled, ![i].working = filled < orders[i].size]
  /\ position' = [x \in Symbols |-> IF x \in DOMAIN orders[i].legs
                                    THEN position[x] - Sign(orders[i].legs[x])
                                    ELSE position[x]]
  /\ UNCHANGED <<ledger, book, entry, snap, pc, todo>>

\* Refused, cancelled, or over with the day, as long as the bound leaves every
\* structure an order to retry with.
CutShort == {i \in DOMAIN orders : ~orders[i].working /\ orders[i].filled < orders[i].size}
CloseEnds(i) == /\ orders[i].working
                /\ Cardinality(CutShort) + Cardinality(Groups) < MaxOrders
                /\ orders' = [orders EXCEPT ![i].working = FALSE]
                /\ UNCHANGED <<ledger, book, entry, position, snap, pc, todo>>

-----------------------------------------------------------------------------
(* What the exit half of a cycle is for.                                   *)

OrdersOf(owner) == {i \in DOMAIN orders : orders[i].for = owner}
WithLeg(S, x)   == {i \in S : x \in DOMAIN orders[i].legs}
Working         == {i \in DOMAIN orders : orders[i].working}
FilledBy(S)     == SumFunctionOnSet([i \in DOMAIN orders |-> orders[i].filled], S)

Record == [stage : Stages, qty : Nat, close : 0..MaxOrders,
           quarantined : BOOLEAN, remainder : BOOLEAN]
Order  == [for : Groups \cup {Orphan}, legs : LegSets, size : Nat, filled : Nat,
           working : BOOLEAN]

\* The ledger and its copy, the orders and the positions have their shapes.
TypeOK ==
  /\ ledger \in [Groups -> Record] /\ book \in [Groups -> Record]
  /\ entry \in [Groups -> [filled : Nat, over : BOOLEAN]]
  /\ \A g \in Groups : entry[g].filled <= Size[g]
  /\ orders \in Seq(Order) /\ Len(orders) <= MaxOrders
  /\ \A i \in DOMAIN orders :
       /\ orders[i].filled <= orders[i].size
       /\ orders[i].working => orders[i].filled < orders[i].size
  /\ position \in [Symbols -> Int] /\ snap \in [Symbols -> Int]
  /\ pc \in Phases
  /\ todo \subseteq Groups \/ todo \subseteq Symbols

\* What a structure records is what its own close orders have left of it: the
\* fills of every earlier order are subtracted, those of the order it waits
\* for are not yet.  Net positions are never taken for its lots.
LotsAreKnown ==
  \A g \in Open(book) :
    book[g].qty + FilledBy(OrdersOf(g) \ {book[g].close}) = Size[g]

\* _ownership_conflicts: "a close cannot exceed the account's exposure".  What
\* the working closes of a contract have yet to fill is within its position.
CloseWithin(x) ==
  LET toFill == [i \in DOMAIN orders |-> Sign(orders[i].legs[x]) * (orders[i].size - orders[i].filled)]
      left   == SumFunctionOnSet(toFill, WithLeg(Working, x))
  IN  IF position[x] >= 0 THEN left \in 0..position[x] ELSE left \in position[x]..0
CloseWithinExposure == \A x \in Symbols : CloseWithin(x)

\* strategy/exits.py, scripts/run_cycle.py: a structure is closed as one unit,
\* so an exit never leaves a short contract without the long one beside it.
Cover(x) == {y \in Symbols : \E g \in Groups : HasLeg(g, x) /\ HasLeg(g, y) /\ Legs[g][y] = "buy"}
Long     == [y \in Symbols |-> IF position[y] > 0 THEN position[y] ELSE 0]
NoNakedShort ==
  \A x \in Symbols :
    position[x] < 0 => -position[x] <= SumFunctionOnSet(Long, Cover(x))

\* At most one close order works for a structure, or for a stray contract,
\* over crashes that lose the record of an order and retries of ended ones.
OneLiveClose ==
  \A owner \in Groups \cup {Orphan} : \A x \in Symbols :
    Cardinality(WithLeg(OrdersOf(owner) \cap Working, x)) <= 1

\* A structure marked closed has had all of every leg closed.
ClosedIsFlat ==
  \A g \in Groups : book[g].stage = "closed" =>
    \A x \in DOMAIN Legs[g] : FilledBy(WithLeg(OrdersOf(g), x)) >= Size[g]

-----------------------------------------------------------------------------
(* What makes three of them inductive.                                     *)

\* A record is borne out by the orders: it waits for an order of its own and
\* its own size, or for none, and the fills of its other orders and what it
\* still records make up the entry.  A lost order can only add fills.
Accounted(b) ==
  \A g \in Groups :
    /\ b[g].close # 0 => /\ b[g].stage = "open" /\ b[g].close \in OrdersOf(g)
                         /\ orders[b[g].close].size = b[g].qty
    /\ b[g].stage \in {"none", "pending", "dropped"} => OrdersOf(g) = {}
    /\ b[g].stage = "open" => /\ b[g].qty > 0
                              /\ b[g].qty + FilledBy(OrdersOf(g) \ {b[g].close}) >= Size[g]
    /\ b[g].stage = "closed" => FilledBy(OrdersOf(g)) >= Size[g]

\* Where manage is tells what it has loaded and what it has yet to visit.
InManage == {"closes", "claims", "exits", "orphans"}
PhaseInv ==
  /\ pc \notin InManage => book = ledger
  /\ \A g \in Groups : \/ book[g].stage = ledger[g].stage
                       \/ book[g].stage = "closed" /\ ledger[g].stage = "open"
  /\ CASE pc = "closes"  -> todo \subseteq {g \in Open(book) : book[g].close # 0}
       [] pc = "exits"   -> todo \subseteq {g \in Open(book) : book[g].close = 0}
       [] pc = "orphans" -> todo \subseteq {x \in Symbols : snap[x] # 0}
       [] OTHER          -> todo = {}

\* While no order is lost, only the order a structure waits for works for it.
Recorded == \A g \in Groups : OrdersOf(g) \cap Working \subseteq {book[g].close}
LotsInv  == Faults \cap {"crash", "reply"} = {} => Recorded /\ LotsAreKnown

\* While every leg has a price, a close has every leg of its structure.
WholeInv == "unpriced" \notin Faults =>
              \A g \in Groups : \A i \in OrdersOf(g) : DOMAIN orders[i].legs = DOMAIN Legs[g]

\* While cancels go through, no close outlives the cleanup unless a record
\* waits for it; and a structure that is about to send one has none at work.
SingleInv == "lookup" \notin Faults =>
  /\ \A g \in Groups : \A i, j \in OrdersOf(g) \cap Working : i = j
  /\ \A x \in Symbols : \A i, j \in WithLeg(OrdersOf(Orphan) \cap Working, x) : i = j
  /\ pc \in {"entries", "closes", "claims"} => Recorded
  /\ pc = "exits" => \A g \in todo : OrdersOf(g) \cap Working = {}
  /\ pc \in {"entries", "closes", "claims", "exits"} => OrdersOf(Orphan) \cap Working = {}
  /\ pc = "orphans" => \A x \in todo : WithLeg(OrdersOf(Orphan) \cap Working, x) = {}

LifecycleInv == /\ TypeOK /\ Accounted(ledger) /\ Accounted(book) /\ PhaseInv
                /\ LotsInv /\ WholeInv /\ SingleInv

-----------------------------------------------------------------------------
(* What keeps the closes within what the account holds.                    *)

\* No order is ever lost to the record of its structure.
Lossless == Faults \cap {"crash", "reply"} = {}
\* Every builder of strategy/structures.py that sells a contract buys another.
Hedged == \A g \in Groups : \A x \in DOMAIN Legs[g] :
            Legs[g][x] = "sell" => \E y \in DOMAIN Legs[g] : Legs[g][y] = "buy"

\* What the account holds of a contract for a structure: its entry less its closes.
Lots(g, x) == entry[g].filled - FilledBy(WithLeg(OrdersOf(g), x))
Holders(x) == {g \in Groups : HasLeg(g, x)}
Stakes(x)  == [g \in Groups |-> Sign(Legs[g][x]) * Lots(g, x)]

\* What a cycle believes of the orders is so: each one that works is on record,
\* open structures know their lots, the closes of closed ones filled their size.
RecordsRight == /\ Recorded /\ LotsAreKnown
                /\ \A g \in Groups : book[g].stage = "closed" => FilledBy(OrdersOf(g)) = Size[g]
\* The orphan path has sent no order for the contract.
Owned(x) == WithLeg(OrdersOf(Orphan), x) = {}
\* The structures with lots of the contract have them on one side.
OnOneSide(x) == \A g, h \in Holders(x) :
                  Lots(g, x) # 0 /\ Lots(h, x) # 0 => Legs[g][x] = Legs[h][x]
WholeCloses  == \A g \in Groups : \A i \in OrdersOf(g) : DOMAIN orders[i].legs = DOMAIN Legs[g]

\* No structure's closes have more of a contract to fill than it has lots of it:
\* a retry after a partial fill never closes what was closed before.
CloseWithinLots ==
  \A g \in Groups : \A x \in DOMAIN Legs[g] :
    SumFunctionOnSet([i \in DOMAIN orders |-> orders[i].size - orders[i].filled],
                     WithLeg(OrdersOf(g) \cap Working, x)) <= Lots(g, x)

\* The stage of a record and the fills of its entry agree.
Bought(g) == CASE ledger[g].stage \in {"none", "dropped"} -> entry[g].filled = 0
               [] ledger[g].stage = "pending"             -> entry[g].filled \in 0..Size[g]
               [] ledger[g].stage \in {"open", "closed"}  -> entry[g].filled = Size[g]

\* Whatever fails: a close has legs of its structure; the position of a contract
\* the orphan path left alone is the lots of the structures and nothing else; and
\* the records are right, while no order is lost.
StakeInv ==
  /\ \A g \in Groups : \A i \in OrdersOf(g) : \A x \in DOMAIN orders[i].legs :
       HasLeg(g, x) /\ orders[i].legs[x] = Legs[g][x]
  /\ \A g \in Groups : Bought(g)
  /\ \A x \in Symbols : Owned(x) => position[x] = SumFunctionOnSet(Stakes(x), Holders(x))
  /\ Lossless => RecordsRight

\* When statuses are all that fails, a structure whose lots the account shows is
\* one this cycle's managed_symbols will include, so the orphan path has nothing
\* to close.
Undisturbed == Faults \subseteq {"status"}
WillManage(g) == \/ ledger[g].stage = "open"
                 \/ pc \in {"cleanup", "entries"} /\ ledger[g].stage = "pending" /\ entry[g].filled > 0
OwnedInv ==
  /\ \A x \in Symbols : Owned(x)
  /\ \A g \in Groups : ledger[g].stage = "pending" => entry[g].filled \in {0, Size[g]}
  /\ pc \in {"cleanup", "entries"} \cup InManage =>
       \A x \in Symbols : snap[x] # 0 => \E g \in Holders(x) : WillManage(g)
  /\ pc = "orphans" => todo = {}

-----------------------------------------------------------------------------
Start   == Begin \/ Cleanup \/ (\E silent \in SUBSET Groups : SettleEntries(silent))
Closes  == (\E g \in Groups : ReconcileClose(g) \/ StatusUnavailable(g)) \/ ClosesDone
Exits   == \/ ClaimOwnership
           \/ (\E g \in Groups : \/ \E priced \in SUBSET Symbols : SubmitExit(g, priced)
                                 \/ ExitUnanswered(g) \/ NoExit(g))
           \/ ExitsDone
Orphans == (\E x \in Symbols : CloseOrphan(x) \/ LeaveOrphan(x)) \/ Save
Entries == PermitEntries \/ (\E g \in Groups : Enter(g)) \/ EndCycle
World   == \/ Crash
           \/ \E g \in Groups : EntryFills(g) \/ EntryEnds(g)
           \/ \E i \in DOMAIN orders : CloseFills(i) \/ CloseEnds(i)

Next == Start \/ Closes \/ Exits \/ Orphans \/ Entries \/ World
Spec == Init /\ [][Next]_vars

(* The schedule starts a cycle every half hour and a cycle ends; a broker   *)
(* that is asked again and again takes a close in the end, and fills one    *)
(* it keeps.                                                                *)
Scheduled == \/ Begin \/ Cleanup \/ SettleEntries({}) \/ ClosesDone \/ ClaimOwnership
             \/ ExitsDone \/ Save \/ EndCycle
             \/ \E g \in Groups : ReconcileClose(g) \/ NoExit(g)
             \/ \E x \in Symbols : LeaveOrphan(x)
Fairness == /\ WF_vars(Scheduled)
            /\ \A g \in Groups : SF_vars((g \in Due \/ book[g].remainder) /\ SubmitExit(g, DOMAIN Legs[g]))
            /\ \A i \in 1..MaxOrders : WF_vars(i \in DOMAIN orders /\ CloseFills(i))
FairSpec == Spec /\ Fairness
=============================================================================
