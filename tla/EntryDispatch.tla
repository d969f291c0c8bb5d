----------------------------- MODULE EntryDispatch -----------------------------
(***************************************************************************)
(* One new entry from admission to the structure ledger, over cycles that  *)
(* crash: run_cycle's order of work, the admission loop of                 *)
(* agent/entry_submission.py, dispatch_entry and reconcile_unresolved of   *)
(* agent/submission_wal.py, and the pending entries of agent/ledger.py.    *)
(* Only one cycle runs at a time (agent/cycle_lock.py); a new one may      *)
(* start as soon as the last has died.                                     *)
(***************************************************************************)
EXTENDS JournalView, Integers, FiniteSetsExt

CONSTANTS Cost,          \* max_loss_dollars of an attempt
          Nobody,        \* no attempt is being admitted
          FireKeys, NoKey,
          FireKey,       \* the once-a-day key of an attempt, or NoKey
          Gap,           \* attempts that are event_macro single_long entries
          AtRiskCap, ExposureCap, GapMax,
          MaxDay,        \* bound: trading days
          SyncFaults     \* may fsync report failure for a line that is on disk?

ASSUME ParameterAssumption ==
  /\ Cost \in [Submissions -> Nat]
  /\ FireKey \in [Submissions -> FireKeys \cup {NoKey}]
  /\ NoKey \notin FireKeys /\ Nobody \notin Submissions
  /\ Gap \subseteq Submissions
  /\ AtRiskCap \in Nat /\ ExposureCap \in Nat /\ GapMax \in Nat
  /\ MaxDay \in Nat
  /\ SyncFaults \in BOOLEAN
  /\ Facts # {} /\ NoFact \notin Facts

VARIABLES view,      \* the journal, as replayed
          pending,   \* positions_meta.json: pending_entries
          groups,    \* positions_meta.json: groups not closed
          closed,    \* positions_meta.json: closed groups
          order,     \* the broker's order for each client order id
          today,
          dayOf,     \* trading_date_et of each reservation
          pc,        \* where the running cycle is; "idle" between cycles
          cur,       \* the attempt being admitted
          todo,      \* unresolved dispatches this cycle has yet to look up
          atRisk,    \* portfolio.max_loss_total
          seen       \* reservations in the journal projection last read

durable == <<view, pending, groups, closed, dayOf>>
local   == <<pc, cur, todo, atRisk, seen>>
vars    == <<durable, order, today, local>>

Phases == {"idle", "reconcile", "cleanup", "ledger", "manage", "gates", "loop",
           "hold", "mark", "record", "submit", "answer", "commit"}

\* "none": not there and never will be; "transit": sent, not yet arrived;
\* "unfilled", "cutshort": over, with nothing or only a part filled.
OrderStates == {"none", "transit", "open", "partial", "filled", "unfilled", "cutshort"}
AtBroker    == OrderStates \ {"none", "transit"}
Working     == {"open", "partial"}

Total(S)     == MapThenSumSet(LAMBDA s : Cost[s], S)
CountedOn(d) == {s \in Counted(view) : dayOf[s] = d}

Init == /\ view = EmptyView
        /\ pending = {} /\ groups = {} /\ closed = {}
        /\ order = [s \in Submissions |-> "none"]
        /\ today = 0
        /\ dayOf = [s \in Submissions |-> 0]
        /\ pc = "idle" /\ cur = Nobody /\ todo = {} /\ atRisk = 0 /\ seen = {}

\* A process forgets everything but its files.
Over == /\ pc' = "idle" /\ cur' = Nobody
        /\ todo' = {} /\ atRisk' = 0 /\ seen' = {}

-----------------------------------------------------------------------------
(* The start of a cycle: reconcile_unresolved.                             *)

Begin == /\ pc = "idle"
         /\ pc' = "reconcile"
         /\ todo' = Unresolved(view)
         /\ UNCHANGED <<durable, order, today, cur, atRisk, seen>>

\* A transition the journal refuses is swallowed: the dispatch stays open.
Resolved(s, target, f) ==
  IF Permits(view, s, target) THEN Apply(view, LineOf(target, s, f)) ELSE view

LookupFound(s, f) ==
  /\ pc = "reconcile" /\ s \in todo
  /\ order[s] \in AtBroker
  /\ view' = Resolved(s, "COMMITTED", f)
  /\ todo' = todo \ {s}
  /\ UNCHANGED <<pending, groups, closed, dayOf, order, today, pc, cur, atRisk, seen>>

\* Slip: a lookup that fails counts as absence.
LookupFailed(s, f) ==
  /\ pc = "reconcile" /\ s \in todo
  /\ view' = Resolved(s, "RELEASED", f)
  /\ todo' = todo \ {s}
  /\ UNCHANGED <<pending, groups, closed, dayOf, order, today, pc, cur, atRisk, seen>>

\* is_explicit_client_order_absence: the broker's 404 for this very id.
LookupAbsent(s, f) ==
  /\ pc = "reconcile" /\ s \in todo
  /\ order[s] = "none"
  /\ view' = Resolved(s, "RELEASED", f)
  /\ todo' = todo \ {s}
  /\ UNCHANGED <<pending, groups, closed, dayOf, order, today, pc, cur, atRisk, seen>>

\* No answer, an empty answer or one without an order id proves nothing.
LookupInconclusive(s) ==
  /\ pc = "reconcile" /\ s \in todo
  /\ todo' = todo \ {s}
  /\ UNCHANGED <<durable, order, today, pc, cur, atRisk, seen>>

Reconciled ==
  /\ pc = "reconcile" /\ todo = {}
  /\ pc' = "cleanup"
  /\ UNCHANGED <<durable, order, today, cur, todo, atRisk, seen>>

-----------------------------------------------------------------------------
(* Exits first: stale orders, pending entries, open structures.            *)

\* retry_open_orders_cleanup; a listing or a cancel that fails is passed over.
Cleanup ==
  /\ pc = "cleanup"
  /\ \E cancelled \in SUBSET {s \in Submissions \ pending : order[s] \in Working} :
       order' = [s \in Submissions |->
                   IF s \notin cancelled THEN order[s]
                   ELSE IF order[s] = "open" THEN "unfilled" ELSE "cutshort"]
  /\ pc' = "ledger"
  /\ UNCHANGED <<durable, today, cur, todo, atRisk, seen>>

\* Slips: a partial fill promoted; an order that ended unfilled kept waiting.
SettleAny(silent) ==
  LET promoted == {s \in pending \ silent : order[s] \in {"partial", "filled"}}
      dropped  == {s \in pending \ silent : order[s] \in {"none", "unfilled"}}
  IN  /\ pc = "ledger"
      /\ pending' = pending \ (promoted \cup dropped)
      /\ groups' = groups \cup promoted
      /\ pc' = "manage"
      /\ UNCHANGED <<view, closed, dayOf, order, today, cur, todo, atRisk, seen>>
SettleFillsOnly(silent) ==
  LET promoted == {s \in pending \ silent : order[s] = "filled"}
  IN  /\ pc = "ledger"
      /\ pending' = pending \ promoted
      /\ groups' = groups \cup promoted
      /\ pc' = "manage"
      /\ UNCHANGED <<view, closed, dayOf, order, today, cur, todo, atRisk, seen>>

\* reconcile_pending_entries: only a full fill becomes a structure, only
\* proof of no fill discards an entry; the rest, and the silent ones, stay.
SettlePending(silent) ==
  LET answered == pending \ silent
      promoted == {s \in answered : order[s] = "filled"}
      dropped  == {s \in answered : order[s] \in {"none", "unfilled"}}
  IN  /\ pc = "ledger"
      /\ pending' = pending \ (promoted \cup dropped)
      /\ groups' = groups \cup promoted
      /\ pc' = "manage"
      /\ UNCHANGED <<view, closed, dayOf, order, today, cur, todo, atRisk, seen>>

\* PositionLifecycle.manage, as far as entries can see: structures close.
ManageExits ==
  /\ pc = "manage"
  /\ \E done \in SUBSET groups : /\ groups' = groups \ done
                                 /\ closed' = closed \cup done
  /\ pc' = "gates"
  /\ UNCHANGED <<view, pending, dayOf, order, today, cur, todo, atRisk, seen>>

-----------------------------------------------------------------------------
(* Preflight and the admission loop of submit_entries.                     *)

\* Slip: one of the two gates missing.
PendingGateOnly == pending = {}

\* unresolved_dispatches (which also covers a damaged journal) and
\* unresolved_entry_reconciliations; any other gate may refuse as well.
EntryAuthority == EntriesAllowed(view) /\ pending = {}

\* Slip: the day's projection is not taken from the journal when a cycle starts.
PermitUnprojected ==
  /\ pc = "gates"
  /\ EntryAuthority
  /\ pc' = "loop"
  /\ atRisk' = Total(groups)
  /\ seen' = {}
  /\ UNCHANGED <<durable, order, today, cur, todo>>

PermitEntries ==
  /\ pc = "gates"
  /\ EntryAuthority
  /\ pc' = "loop"
  /\ atRisk' = Total(groups)
  /\ seen' = CountedOn(today)
  /\ UNCHANGED <<durable, order, today, cur, todo>>

\* A red gate, the kill switch, no candidate, or the last one considered.
EndCycle == /\ pc \in {"gates", "loop"}
            /\ Over
            /\ UNCHANGED <<durable, order, today>>

\* Fire-once and the gap limit are checked on the projection last read; the
\* two budgets on a fresh one.
FiredAlready(s) == FireKey[s] # NoKey /\ \E t \in seen : FireKey[t] = FireKey[s]
GapSpent(s)     == s \in Gap /\ Cardinality(seen \cap Gap) >= GapMax
FitsAlready(s) == /\ atRisk <= AtRiskCap  \* a slip: without the candidate's own cost
                  /\ Total(CountedOn(today)) <= ExposureCap
Fits(s) == /\ atRisk + Cost[s] <= AtRiskCap
           /\ Total(CountedOn(today)) + Cost[s] <= ExposureCap

Candidate(s) == /\ pc = "loop"
                /\ view.state[s] = "ABSENT"
                /\ ~FiredAlready(s)
                /\ ~GapSpent(s)

Admit(s) ==
  /\ Candidate(s)
  /\ Fits(s)
  /\ pc' = "hold" /\ cur' = s
  /\ dayOf' = [dayOf EXCEPT ![s] = today]
  /\ seen' = CountedOn(today)
  /\ UNCHANGED <<view, pending, groups, closed, order, today, todo, atRisk>>

OverBudget(s) ==
  /\ Candidate(s)
  /\ ~Fits(s)
  /\ seen' = CountedOn(today)
  /\ UNCHANGED <<durable, order, today, pc, cur, todo, atRisk>>

-----------------------------------------------------------------------------
(* dispatch_entry: reserve, announce, own, call, record.                   *)

Hold ==
  /\ pc = "hold"
  /\ Permits(view, cur, "HELD")
  /\ view' = Apply(view, LineOf("HELD", cur, NoFact))
  /\ pc' = "mark"
  /\ UNCHANGED <<pending, groups, closed, dayOf, order, today, cur, todo, atRisk, seen>>

MarkDispatching ==
  /\ pc = "mark"
  /\ Permits(view, cur, "DISPATCHING")
  /\ view' = Apply(view, LineOf("DISPATCHING", cur, NoFact))
  /\ pc' = "record"
  /\ UNCHANGED <<pending, groups, closed, dayOf, order, today, cur, todo, atRisk, seen>>

\* Slip: the broker is called before the ledger owns the order.
RecordNothing ==
  /\ pc = "record"
  /\ pc' = "submit"
  /\ UNCHANGED <<durable, order, today, cur, todo, atRisk, seen>>

\* before_broker: record_pending_entry, saved atomically.
RecordPending ==
  /\ pc = "record"
  /\ pending' = pending \cup {cur}
  /\ pc' = "submit"
  /\ UNCHANGED <<view, groups, closed, dayOf, order, today, cur, todo, atRisk, seen>>

Submit ==
  /\ pc = "submit"
  /\ order' = [order EXCEPT ![cur] = "transit"]
  /\ pc' = "answer"
  /\ UNCHANGED <<durable, today, cur, todo, atRisk, seen>>

Answered ==
  /\ pc = "answer"
  /\ order[cur] \in AtBroker
  /\ pc' = "commit"
  /\ UNCHANGED <<durable, order, today, cur, todo, atRisk, seen>>

Commit(f) ==
  /\ pc = "commit"
  /\ Permits(view, cur, "COMMITTED")
  /\ view' = Apply(view, LineOf("COMMITTED", cur, f))
  /\ atRisk' = atRisk + Cost[cur]
  /\ seen' = {s \in Counted(view') : dayOf[s] = today}
  /\ pc' = "loop" /\ cur' = Nobody
  /\ UNCHANGED <<pending, groups, closed, dayOf, order, today, todo>>

\* The save fails, the executor refuses, the broker refuses, or no answer
\* comes: the record is DISPATCHING, so the cycle stops opening exposure.
Uncertain == /\ pc \in {"record", "submit", "answer"}
             /\ Over
             /\ UNCHANGED <<durable, order, today>>

\* What an append that did not complete leaves: nothing, a line that still
\* shows its keys, or one that does not.
Incomplete(s) == {view, ApplyTorn(view, s), Spoil(view)}

EventAt == CASE pc = "hold" -> "HELD" [] pc = "mark" -> "DISPATCHING"
             [] OTHER -> "COMMITTED"

\* Who may have a line on its way to the file: an observation needs nobody's
\* leave, a transition that of _require.
Appending == IF pc = "reconcile" THEN todo
             ELSE {s \in {cur} \cap Submissions : /\ pc \in {"hold", "mark", "commit"}
                                                 /\ Permits(view, s, EventAt)}
Damaged == {view} \cup UNION {Incomplete(s) : s \in Appending}

\* The line reached the disk and fsync failed all the same.
FactAt   == IF pc = "commit" THEN CHOOSE f \in Facts : TRUE ELSE NoFact
Unsynced == {Apply(view, LineOf(EventAt, s, FactAt)) : s \in IF SyncFaults THEN Appending ELSE {}}

\* _require refuses, or an append of this process raises.  admit() replays:
\* DISPATCHING stops the loop, anything else counts as a failed set-up and the
\* loop goes on.
AppendFails ==
  /\ pc \in {"hold", "mark", "commit"}
  /\ view' \in Damaged \cup Unsynced
  /\ IF view'.state[cur] = "DISPATCHING"
     THEN Over
     ELSE /\ pc' = "loop" /\ cur' = Nobody
          /\ UNCHANGED <<todo, atRisk, seen>>
  /\ UNCHANGED <<pending, groups, closed, dayOf, order, today>>

-----------------------------------------------------------------------------
(* The world.                                                              *)

\* The process dies, perhaps while it appends.
Crash == /\ pc # "idle"
         /\ view' \in Damaged
         /\ Over
         /\ UNCHANGED <<pending, groups, closed, dayOf, order, today>>

Moves == [o \in OrderStates |->
            CASE o = "transit" -> {"none", "open"}
              [] o = "open"    -> {"partial", "filled", "unfilled"}
              [] o = "partial" -> {"filled", "cutshort"}
              [] OTHER         -> {}]

Broker(s) == /\ \E o \in Moves[order[s]] : order' = [order EXCEPT ![s] = o]
             /\ UNCHANGED <<durable, today, local>>

\* Entries are DAY orders: none is working, or on its way, on the next day.
NextDay == /\ pc = "idle" /\ today < MaxDay
           /\ \A s \in Submissions : order[s] \notin Working \cup {"transit"}
           /\ today' = today + 1
           /\ UNCHANGED <<durable, order, local>>

-----------------------------------------------------------------------------
(* What the dispatch protocol is for.                                      *)

TypeOK == /\ view \in View
          /\ pending \subseteq Submissions
          /\ groups \subseteq Submissions
          /\ closed \subseteq Submissions
          /\ dayOf \in [Submissions -> 0..MaxDay]
          /\ order \in [Submissions -> OrderStates]
          /\ today \in 0..MaxDay
          /\ pc \in Phases
          /\ cur \in Submissions \cup {Nobody}
          /\ todo \subseteq Submissions
          /\ seen \subseteq Submissions

\* An order the broker has, or that is on its way there, is always announced
\* in the journal and never released: risk still carried is never given back.
OrderIsReserved ==
  \A s \in Submissions :
    order[s] # "none" => /\ view.state[s] \in {"DISPATCHING", "COMMITTED"}
                         /\ s \in view.reserved

\* Any order that may have filled belongs to exactly one structure record: a
\* pending entry, an open group or a closed one.
OrderIsOwned ==
  /\ \A s \in Submissions :
       order[s] \notin {"none", "unfilled"} => s \in pending \cup groups \cup closed
  /\ pending \cap groups = {} /\ pending \cap closed = {} /\ groups \cap closed = {}

\* A structure is managed as a position only when its entry filled in full.
GroupIsFilled == \A s \in groups \cup closed : order[s] = "filled"

\* Two dispatches are never in doubt at once, whatever crashes, tears or
\* stays unanswered.
OneUnresolved == \A s, t \in Unresolved(view) : s = t

\* Hence the journal never refuses the reconciler's proof, unless a torn line
\* lost its keys or the reservation itself was torn.
ResolutionNotRefused ==
  \A s \in Unresolved(view) \cap view.reserved :
    ~view.fatal => \A target \in Terminal : Permits(view, s, target)

\* What makes them inductive: where the process is tells what the journal
\* and the ledger hold for the attempt it is admitting.
Position ==
  /\ pc \in {"loop", "hold", "mark"} => Unresolved(view) = {}
  /\ pc \in {"hold", "mark", "record", "submit", "answer", "commit"} => cur \in Submissions
  /\ pc = "mark" => view.state[cur] = "HELD" /\ cur \in view.reserved
  /\ pc \in {"record", "submit", "answer", "commit"} =>
       Unresolved(view) = {cur} /\ cur \in view.reserved
  /\ pc \in {"hold", "mark", "record"} => cur \notin pending \cup groups \cup closed
  /\ pc \in {"submit", "answer", "commit"} => cur \in pending
  /\ todo \subseteq Unresolved(view)
  /\ pc # "reconcile" => todo = {}

TornIsUnresolved == ActiveTorn(view) \subseteq Unresolved(view)
OwnedIsKnown == \A s \in pending \cup groups \cup closed : view.state[s] # "ABSENT"

DispatchInv == /\ TypeOK /\ Position /\ TornIsUnresolved /\ OwnedIsKnown
               /\ OrderIsReserved /\ OrderIsOwned /\ GroupIsFilled /\ OneUnresolved

-----------------------------------------------------------------------------
(* What the admission loop is for.                                         *)

\* Orders that add exposure, or may: everything sent and not known dead.
MayCarryRisk == {s \in Submissions : order[s] \notin {"none", "unfilled"}}

\* The orders and structures that can lose money together stay within the
\* at-risk cap, over crashes, unanswered orders and several cycles.
OpenRiskWithinCap == Total(MayCarryRisk \ closed) <= AtRiskCap

OrdersOn(d) == {s \in Submissions : order[s] # "none" /\ dayOf[s] = d}

\* The orders sent on one trading date stay within the daily exposure cap,
\* though each cycle is a new process that remembers nothing.
DailyExposureWithinCap ==
  \A d \in 0..MaxDay : Total(OrdersOn(d)) <= ExposureCap

\* At most one order per once-a-day key and trading date reaches the broker.
FireOncePerDay ==
  \A s, t \in Submissions :
    (/\ order[s] # "none" /\ order[t] # "none" /\ dayOf[s] = dayOf[t]
     /\ FireKey[s] # NoKey /\ FireKey[s] = FireKey[t]) => s = t

\* The gap continuation is limited on each trading date.
GapLimitPerDay ==
  \A d \in 0..MaxDay : Cardinality(OrdersOn(d) \cap Gap) <= GapMax

\* Both budgets of the admission loop hold at every moment.
BudgetsHold == OpenRiskWithinCap /\ DailyExposureWithinCap

\* Both daily limits hold at every moment.
DailyLimitsHold == FireOncePerDay /\ GapLimitPerDay

\* What makes them inductive.  The reservations are finitely many, and only
\* of submissions the journal has heard of.
Admitting == {"hold", "mark", "record", "submit", "answer", "commit"}
FinitelyMany == /\ IsFiniteSet(view.reserved) /\ IsFiniteSet(pending)
                /\ IsFiniteSet(groups) /\ IsFiniteSet(seen)
ReservedIsKnown == \A s \in view.reserved : view.state[s] # "ABSENT"
AdmittedToday == /\ pc \in Admitting => dayOf[cur] = today
                 /\ pc = "hold" => view.state[cur] = "ABSENT"

\* The day's reservations fit its cap, and room for the attempt being
\* admitted is there from the check until its reservation counts.
ExposureInv ==
  /\ \A d \in 0..MaxDay : Total(CountedOn(d)) <= ExposureCap
  /\ pc = "hold" => Total(CountedOn(today)) + Cost[cur] <= ExposureCap

\* atRisk is the cost of what the ledger owns, less an attempt it has just
\* been given; room for that one was there before.
AtRiskInv ==
  /\ Total(pending \cup groups) <= AtRiskCap
  /\ pc \in {"loop", "hold", "mark", "record"} => atRisk = Total(pending \cup groups)
  /\ pc \in {"hold", "mark", "record"} => atRisk + Cost[cur] <= AtRiskCap
  /\ pc \in {"submit", "answer", "commit"} => Total(pending \cup groups) = atRisk + Cost[cur]

\* The projection a candidate is judged by knows every order of the day, so
\* until it is sent the attempt has no rival and no gap order too many.
LimitInv ==
  /\ DailyLimitsHold
  /\ pc \in {"loop", "hold", "mark"} => OrdersOn(today) \subseteq seen
  /\ pc \in {"hold", "mark", "record", "submit"} =>
       /\ FireKey[cur] # NoKey =>
            \A t \in OrdersOn(today) : t # cur => FireKey[t] # FireKey[cur]
       /\ cur \in Gap => Cardinality(OrdersOn(today) \cap Gap) < GapMax

BudgetInv == /\ FinitelyMany /\ ReservedIsKnown /\ AdmittedToday /\ ExposureInv
             /\ ~SyncFaults => AtRiskInv /\ LimitInv

-----------------------------------------------------------------------------
Reconcile == \/ \E s \in Submissions, f \in Facts : LookupFound(s, f) \/ LookupAbsent(s, f)
             \/ \E s \in Submissions : LookupInconclusive(s)
             \/ Reconciled
Exits     == Cleanup \/ (\E silent \in SUBSET pending : SettlePending(silent)) \/ ManageExits
Admission == PermitEntries \/ EndCycle \/ (\E s \in Submissions : Admit(s) \/ OverBudget(s))
Dispatch  == \/ Hold \/ MarkDispatching \/ RecordPending \/ Submit \/ Answered
             \/ (\E f \in Facts : Commit(f)) \/ Uncertain \/ AppendFails
World     == Crash \/ (\E s \in Submissions : Broker(s)) \/ NextDay

Next == Begin \/ Reconcile \/ Exits \/ Admission \/ Dispatch \/ World

Spec == Init /\ [][Next]_vars

(* cron starts a cycle again and again; no step of it fails every time it  *)
(* is tried; the broker answers some lookup of each order and lets no      *)
(* order travel or work for ever.                                          *)
Settle == SettlePending({})
Fairness ==
  /\ WF_vars(Begin)
  /\ \A s \in Submissions :
       /\ SF_vars(\E f \in Facts : LookupFound(s, f))
       /\ SF_vars(\E f \in Facts : LookupAbsent(s, f))
       /\ WF_vars(Broker(s))
  /\ WF_vars(Dispatch)
  /\ SF_vars(Reconciled) /\ SF_vars(Cleanup) /\ SF_vars(Settle)
  /\ SF_vars(ManageExits) /\ SF_vars(EndCycle)

FairSpec == Spec /\ Fairness
=============================================================================
