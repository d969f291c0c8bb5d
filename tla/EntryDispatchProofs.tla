-------------------------- MODULE EntryDispatchProofs --------------------------
(***************************************************************************)
(* DispatchInv, and BudgetInv beside it, are inductive for every set of    *)
(* attempts, every cost, key and cap, with and without faults of fsync:    *)
(* what the journal and the ledger say of an order, and the two budgets    *)
(* and the two daily limits of the admission loop, hold over crashes, torn *)
(* lines and lost answers.                                                 *)
(***************************************************************************)
EXTENDS EntryDispatch, JournalViewProofs, FiniteSums

\* No file, no order, no cycle: the invariant holds to begin with.
LEMMA InitDispatchInv == Init => DispatchInv
<1> SUFFICES ASSUME Init PROVE DispatchInv
  OBVIOUS
<1> USE ParameterAssumption
<1>1. TypeOK
  BY EmptyIsView DEF Init, TypeOK, Phases, OrderStates
<1>2. Position /\ TornIsUnresolved /\ OwnedIsKnown /\ OneUnresolved
  BY EmptyIsView DEF Init, Position, TornIsUnresolved, OwnedIsKnown, OneUnresolved
<1>3. OrderIsReserved /\ OrderIsOwned /\ GroupIsFilled
  BY DEF Init, OrderIsReserved, OrderIsOwned, GroupIsFilled
<1> QED BY <1>1, <1>2, <1>3 DEF DispatchInv

-----------------------------------------------------------------------------
(* What the two ways of writing to the journal keep: a line the journal    *)
(* permits, and one that stops part way.                                   *)

\* The journal after v, when the process stops or reconciles.
Sound(v) == /\ v \in View
            /\ ActiveTorn(v) \subseteq Unresolved(v)
            /\ \A s \in Submissions : view.state[s] # "ABSENT" => v.state[s] # "ABSENT"
            /\ \A s \in Submissions :
                 (view.state[s] \in {"DISPATCHING", "COMMITTED"} /\ order[s] # "none")
                    => v.state[s] \in {"DISPATCHING", "COMMITTED"}
            /\ view.reserved \subseteq v.reserved

\* A line that stopped part way takes nothing back: it can only put its own
\* submission in doubt.
LEMMA IncompleteSound ==
  ASSUME TypeOK, TornIsUnresolved, NEW s \in Submissions, NEW v \in Incomplete(s)
  PROVE  /\ Sound(v)
         /\ Unresolved(v) \subseteq Unresolved(view) \cup {s}
         /\ \A t \in Submissions \ {s} : v.state[t] = view.state[t]
         /\ v.state[s] \in {view.state[s], "DISPATCHING"}
<1>1. view \in View
  BY DEF TypeOK
<1>2. CASE v = view
  BY <1>1, <1>2 DEF Sound, TornIsUnresolved
<1>3. CASE v = ApplyTorn(view, s)
  <2>1. /\ v \in View
        /\ v.reserved = view.reserved
        /\ \A t \in Submissions \ {s} : v.state[t] = view.state[t]
        /\ v.state[s] = IF view.state[s] \in Terminal THEN view.state[s] ELSE "DISPATCHING"
        /\ ActiveTorn(v) = ActiveTorn(view) \cup (IF view.state[s] \in Terminal THEN {} ELSE {s})
    BY <1>1, <1>3, TornLine
  <2>2. ActiveTorn(v) \subseteq Unresolved(v)
    BY <2>1 DEF TornIsUnresolved, Unresolved, Terminal
  <2>3. Unresolved(v) \subseteq Unresolved(view) \cup {s}
    BY <2>1 DEF Unresolved
  <2> QED BY <2>1, <2>2, <2>3 DEF Sound, Terminal
<1>4. CASE v = Spoil(view)
  <2>1. v \in View /\ v.state = view.state /\ v.reserved = view.reserved /\ v.torn = view.torn
    BY <1>1, <1>4, SpoiledView
  <2>2. ActiveTorn(v) = ActiveTorn(view) /\ Unresolved(v) = Unresolved(view)
    BY <2>1 DEF ActiveTorn, Unresolved
  <2> QED BY <2>1, <2>2 DEF Sound, TornIsUnresolved
<1> QED BY <1>2, <1>3, <1>4 DEF Incomplete

\* A whole line the journal permits moves its own submission alone, and never
\* releases one whose order is not known to be absent.
LEMMA PermittedSound ==
  ASSUME TypeOK, TornIsUnresolved, NEW s \in Submissions, NEW f \in Facts \cup {NoFact},
         NEW target \in States, Permits(view, s, target),
         order[s] # "none" => target \in {"DISPATCHING", "COMMITTED"},
         NEW v, v = Apply(view, LineOf(target, s, f))
  PROVE  /\ Sound(v)
         /\ v.state[s] = target
         /\ \A t \in Submissions \ {s} : v.state[t] = view.state[t]
         /\ target = "HELD" => s \in v.reserved /\ v.reserved = view.reserved \cup {s}
         /\ target # "HELD" => v.reserved = view.reserved
         /\ target \in TRANSITIONS[view.state[s]]
<1>1. view \in View /\ view.state \in [Submissions -> States] /\ view.torn \subseteq Submissions
  BY DEF TypeOK, View
<1>2. target \in TRANSITIONS[view.state[s]]
  BY DEF Permits
<1>3. /\ v \in View
      /\ v.state[s] = target
      /\ \A t \in Submissions \ {s} : v.state[t] = view.state[t]
      /\ view.reserved \subseteq v.reserved
      /\ target = "HELD" => v.reserved = view.reserved \cup {s}
      /\ target # "HELD" => v.reserved = view.reserved
      /\ v.torn = view.torn
  BY <1>1, <1>2, WholeLine
<1>4. target # "ABSENT"
  BY <1>1, <1>2 DEF TRANSITIONS, States
<1>5. ActiveTorn(v) \subseteq Unresolved(v)
  <2>1. CASE target \in Terminal
    BY <1>1, <1>3, <2>1 DEF ActiveTorn, Unresolved, TornIsUnresolved
  <2>2. CASE target \notin Terminal
    <3>1. ActiveTorn(view) = {}
      BY <2>2 DEF Permits, IntegrityOk
    <3>2. view.state[s] \notin Terminal
      BY <1>1, <1>2 DEF TRANSITIONS, States, Terminal
    <3> QED BY <1>1, <1>3, <3>1, <3>2 DEF ActiveTorn
  <2> QED BY <2>1, <2>2
<1>6. Sound(v)
  BY <1>1, <1>3, <1>4, <1>5 DEF Sound
<1> QED BY <1>2, <1>3, <1>6

-----------------------------------------------------------------------------
(* Shared pieces of the steps.                                             *)

\* A sound write disturbs nothing that is said of orders and structures.
LEMMA SoundWrite ==
  ASSUME DispatchInv, Sound(view'), UNCHANGED <<pending, groups, closed, order>>
  PROVE  /\ TornIsUnresolved' /\ OwnedIsKnown' /\ OrderIsReserved'
         /\ OrderIsOwned' /\ GroupIsFilled'
<1>1. TornIsUnresolved'
  BY DEF Sound, TornIsUnresolved
<1>2. OwnedIsKnown'
  BY DEF Sound, OwnedIsKnown, DispatchInv, TypeOK
<1>3. OrderIsReserved'
  BY DEF Sound, OrderIsReserved, DispatchInv
<1>4. OrderIsOwned' /\ GroupIsFilled'
  BY DEF OrderIsOwned, GroupIsFilled, DispatchInv
<1> QED BY <1>1, <1>2, <1>3, <1>4

\* A step that leaves journal, ledger and orders alone.
LEMMA LocalStep ==
  ASSUME DispatchInv, UNCHANGED <<view, pending, groups, closed, order>>
  PROVE  /\ TornIsUnresolved' /\ OwnedIsKnown' /\ OrderIsReserved'
         /\ OrderIsOwned' /\ GroupIsFilled' /\ OneUnresolved'
BY DEF DispatchInv, TornIsUnresolved, OwnedIsKnown, OrderIsReserved, OrderIsOwned,
       GroupIsFilled, OneUnresolved

\* A process that ends or dies leaves no position to keep.
LEMMA OverPosition == Over => Position'
BY DEF Over, Position

-----------------------------------------------------------------------------
(* The steps.                                                              *)

\* A cycle starts with the list of unresolved dispatches.
LEMMA BeginStep == DispatchInv /\ Begin => DispatchInv'
<1> SUFFICES ASSUME DispatchInv, Begin PROVE DispatchInv'
  OBVIOUS
<1>1. UNCHANGED <<view, pending, groups, closed, order>>
  BY DEF Begin, durable
<1>2. TypeOK'
  BY DEF Begin, durable, DispatchInv, TypeOK, Phases, Unresolved
<1>3. Position'
  BY DEF Begin, durable, Position, Unresolved
<1> QED BY <1>1, <1>2, <1>3, LocalStep DEF DispatchInv

\* Both definite answers: the resolving transition, or its refusal.
LEMMA ResolvedSound ==
  ASSUME DispatchInv, NEW s \in todo, NEW f \in Facts, NEW target \in Terminal,
         order[s] # "none" => target = "COMMITTED"
  PROVE  /\ Sound(Resolved(s, target, f))
         /\ Unresolved(Resolved(s, target, f)) \subseteq Unresolved(view)
         /\ todo \ {s} \subseteq Unresolved(Resolved(s, target, f))
<1>1. s \in Submissions /\ s \in Unresolved(view) /\ todo \subseteq Unresolved(view)
  BY DEF DispatchInv, TypeOK, Position
<1>2. TypeOK /\ TornIsUnresolved /\ view \in View
  BY DEF DispatchInv, TypeOK
<1>3. CASE ~Permits(view, s, target)
  <2>1. Resolved(s, target, f) = view
    BY <1>3 DEF Resolved
  <2> QED BY <1>1, <1>2, <2>1 DEF Sound, TornIsUnresolved
<1>4. CASE Permits(view, s, target)
  <2> DEFINE v == Resolved(s, target, f)
  <2>1. v = Apply(view, LineOf(target, s, f))
    BY <1>4 DEF Resolved
  <2>2. target \in States /\ (order[s] # "none" => target \in {"DISPATCHING", "COMMITTED"})
    BY DEF Terminal, States
  <2> HIDE DEF v
  <2>3. /\ Sound(v)
        /\ v.state[s] = target
        /\ \A t \in Submissions \ {s} : v.state[t] = view.state[t]
    BY <1>1, <1>2, <1>4, <2>1, <2>2, PermittedSound
  <2>4. Unresolved(v) \subseteq Unresolved(view) /\ todo \ {s} \subseteq Unresolved(v)
    BY <1>1, <2>3 DEF Unresolved, Terminal
  <2> QED BY <2>3, <2>4 DEF v
<1> QED BY <1>3, <1>4

\* A definite answer of the broker resolves a dispatch, or changes nothing.
LEMMA LookupStep ==
  ASSUME DispatchInv, NEW s \in Submissions, NEW f \in Facts,
         LookupFound(s, f) \/ LookupAbsent(s, f)
  PROVE  DispatchInv'
<1>1. PICK target \in Terminal : /\ view' = Resolved(s, target, f)
                                 /\ order[s] # "none" => target = "COMMITTED"
  BY DEF LookupFound, LookupAbsent, Terminal
<1>2. /\ pc = "reconcile" /\ pc' = pc /\ s \in todo /\ todo' = todo \ {s} /\ cur' = cur
      /\ UNCHANGED <<pending, groups, closed, dayOf, order, today, seen>>
  BY DEF LookupFound, LookupAbsent
<1>3. /\ Sound(view')
      /\ Unresolved(view') \subseteq Unresolved(view)
      /\ todo \ {s} \subseteq Unresolved(view')
  BY <1>1, <1>2, ResolvedSound
<1>4. TypeOK'
  BY <1>2, <1>3 DEF Sound, DispatchInv, TypeOK
<1>5. Position'
  BY <1>2, <1>3 DEF Position
<1>6. OneUnresolved'
  BY <1>3 DEF OneUnresolved, DispatchInv
<1> QED BY <1>2, <1>3, <1>4, <1>5, <1>6, SoundWrite DEF DispatchInv

\* An answer that proves nothing changes nothing.
LEMMA InconclusiveStep ==
  ASSUME DispatchInv, NEW s \in Submissions, LookupInconclusive(s)
  PROVE  DispatchInv'
<1>1. UNCHANGED <<view, pending, groups, closed, order>>
  BY DEF LookupInconclusive, durable
<1>2. TypeOK'
  BY DEF LookupInconclusive, durable, DispatchInv, TypeOK
<1>3. Position'
  BY DEF LookupInconclusive, durable, DispatchInv, Position
<1> QED BY <1>1, <1>2, <1>3, LocalStep DEF DispatchInv

\* The reconciler is done when its list is.
LEMMA ReconciledStep == DispatchInv /\ Reconciled => DispatchInv'
<1> SUFFICES ASSUME DispatchInv, Reconciled PROVE DispatchInv'
  OBVIOUS
<1>1. UNCHANGED <<view, pending, groups, closed, order>>
  BY DEF Reconciled, durable
<1>2. TypeOK'
  BY DEF Reconciled, durable, DispatchInv, TypeOK, Phases
<1>3. Position'
  BY DEF Reconciled, durable, DispatchInv, Position
<1> QED BY <1>1, <1>2, <1>3, LocalStep DEF DispatchInv

\* Cleanup touches only orders no pending entry owns: with OrderIsOwned there
\* is none that works.
LEMMA CleanupStep == DispatchInv /\ Cleanup => DispatchInv'
<1> SUFFICES ASSUME DispatchInv, Cleanup PROVE DispatchInv'
  OBVIOUS
<1>1. PICK cancelled \in SUBSET {s \in Submissions \ pending : order[s] \in Working} :
        order' = [s \in Submissions |->
                    IF s \notin cancelled THEN order[s]
                    ELSE IF order[s] = "open" THEN "unfilled" ELSE "cutshort"]
  BY DEF Cleanup
<1>2. cancelled = {}
  BY DEF DispatchInv, OrderIsOwned, GroupIsFilled, Working
<1>3. order' = order
  BY <1>1, <1>2 DEF DispatchInv, TypeOK
<1>4. UNCHANGED <<view, pending, groups, closed, order>>
  BY <1>3 DEF Cleanup, durable
<1>5. TypeOK'
  BY <1>3 DEF Cleanup, durable, DispatchInv, TypeOK, Phases
<1>6. Position'
  BY DEF Cleanup, durable, DispatchInv, Position
<1> QED BY <1>4, <1>5, <1>6, LocalStep DEF DispatchInv

\* A pending entry is promoted on a full fill, dropped on proof of none.
LEMMA SettleStep ==
  ASSUME DispatchInv, NEW silent \in SUBSET pending, SettlePending(silent)
  PROVE  DispatchInv'
<1> DEFINE answered == pending \ silent
           promoted == {s \in answered : order[s] = "filled"}
           dropped  == {s \in answered : order[s] \in {"none", "unfilled"}}
<1>1. /\ pc = "ledger" /\ pc' = "manage"
      /\ pending' = pending \ (promoted \cup dropped)
      /\ groups' = groups \cup promoted
      /\ UNCHANGED <<view, closed, dayOf, order, today, cur, todo, atRisk, seen>>
  BY DEF SettlePending
<1>2. TypeOK'
  BY <1>1 DEF DispatchInv, TypeOK, Phases
<1>3. Position'
  BY <1>1 DEF DispatchInv, Position
<1>4. TornIsUnresolved' /\ OrderIsReserved' /\ OneUnresolved'
  BY <1>1 DEF DispatchInv, TornIsUnresolved, OrderIsReserved, OneUnresolved
<1>5. OwnedIsKnown'
  BY <1>1 DEF DispatchInv, OwnedIsKnown
<1>6. OrderIsOwned' /\ GroupIsFilled'
  BY <1>1 DEF DispatchInv, OrderIsOwned, GroupIsFilled
<1> QED BY <1>2, <1>3, <1>4, <1>5, <1>6 DEF DispatchInv

\* Structures that close stay owned.
LEMMA ManageStep == DispatchInv /\ ManageExits => DispatchInv'
<1> SUFFICES ASSUME DispatchInv, ManageExits PROVE DispatchInv'
  OBVIOUS
<1>1. PICK done \in SUBSET groups : groups' = groups \ done /\ closed' = closed \cup done
  BY DEF ManageExits
<1>2. /\ pc = "manage" /\ pc' = "gates"
      /\ UNCHANGED <<view, pending, dayOf, order, today, cur, todo, atRisk, seen>>
  BY DEF ManageExits
<1>3. TypeOK'
  BY <1>1, <1>2 DEF DispatchInv, TypeOK, Phases
<1>4. Position'
  BY <1>1, <1>2 DEF DispatchInv, Position
<1>5. TornIsUnresolved' /\ OrderIsReserved' /\ OneUnresolved' /\ OwnedIsKnown'
  BY <1>1, <1>2 DEF DispatchInv, TornIsUnresolved, OrderIsReserved, OneUnresolved, OwnedIsKnown
<1>6. OrderIsOwned' /\ GroupIsFilled'
  BY <1>1, <1>2 DEF DispatchInv, OrderIsOwned, GroupIsFilled
<1> QED BY <1>3, <1>4, <1>5, <1>6 DEF DispatchInv

\* The entry gates are what makes the loop start with nothing unresolved.
LEMMA PermitStep == DispatchInv /\ PermitEntries => DispatchInv'
<1> SUFFICES ASSUME DispatchInv, PermitEntries PROVE DispatchInv'
  OBVIOUS
<1>1. UNCHANGED <<view, pending, groups, closed, order>>
  BY DEF PermitEntries, durable
<1>2. CountedOn(today) \subseteq Submissions
  BY DEF CountedOn, Counted, DispatchInv, TypeOK, View
<1>3. TypeOK'
  BY <1>2 DEF PermitEntries, durable, DispatchInv, TypeOK, Phases
<1>4. Position'
  BY DEF PermitEntries, EntryAuthority, EntriesAllowed, durable, DispatchInv, Position
<1> QED BY <1>1, <1>3, <1>4, LocalStep DEF DispatchInv

\* A process that stops leaves its files as they are.
LEMMA OverStep ==
  ASSUME DispatchInv, Over, UNCHANGED <<durable, order, today>>
  PROVE  DispatchInv'
<1>1. UNCHANGED <<view, pending, groups, closed, order>>
  BY DEF durable
<1>2. TypeOK'
  BY DEF Over, durable, DispatchInv, TypeOK, Phases
<1> QED BY <1>1, <1>2, OverPosition, LocalStep DEF DispatchInv

\* An attempt that is admitted is not in the journal yet.
LEMMA AdmitStep ==
  ASSUME DispatchInv, NEW s \in Submissions, Admit(s)
  PROVE  DispatchInv'
<1>1. UNCHANGED <<view, pending, groups, closed, order>>
  BY DEF Admit
<1>2. CountedOn(today) \subseteq Submissions
  BY DEF CountedOn, Counted, DispatchInv, TypeOK, View
<1>3. TypeOK'
  BY <1>2 DEF Admit, DispatchInv, TypeOK, Phases
<1>4. Position'
  BY DEF Admit, Candidate, DispatchInv, Position, OwnedIsKnown
<1> QED BY <1>1, <1>3, <1>4, LocalStep DEF DispatchInv

\* An attempt over budget only refreshes the projection.
LEMMA OverBudgetStep ==
  ASSUME DispatchInv, NEW s \in Submissions, OverBudget(s)
  PROVE  DispatchInv'
<1>1. UNCHANGED <<view, pending, groups, closed, order>>
  BY DEF OverBudget, durable
<1>2. CountedOn(today) \subseteq Submissions
  BY DEF CountedOn, Counted, DispatchInv, TypeOK, View
<1>3. TypeOK'
  BY <1>2 DEF OverBudget, durable, DispatchInv, TypeOK
<1>4. Position'
  BY DEF OverBudget, durable, DispatchInv, Position
<1> QED BY <1>1, <1>3, <1>4, LocalStep DEF DispatchInv

\* The three appends of dispatch_entry, when the journal permits them.
LEMMA AppendPermitted ==
  ASSUME DispatchInv, NEW f \in Facts \cup {NoFact},
         pc \in {"hold", "mark", "commit"}, Permits(view, cur, EventAt),
         NEW v, v = Apply(view, LineOf(EventAt, cur, f))
  PROVE  /\ Sound(v)
         /\ v.state[cur] = EventAt
         /\ \A t \in Submissions \ {cur} : v.state[t] = view.state[t]
         /\ EventAt = "HELD" => cur \in v.reserved /\ v.reserved = view.reserved \cup {cur}
         /\ EventAt # "HELD" => v.reserved = view.reserved
         /\ EventAt \in TRANSITIONS[view.state[cur]]
<1>1. cur \in Submissions /\ TypeOK /\ TornIsUnresolved
  BY DEF DispatchInv, Position
<1>2. EventAt \in States
  BY DEF EventAt, States
<1>3. order[cur] # "none" => EventAt \in {"DISPATCHING", "COMMITTED"}
  <2>1. CASE pc = "commit"
    BY <2>1 DEF EventAt
  <2>2. CASE pc = "mark"
    BY <2>2 DEF EventAt
  <2>3. CASE pc = "hold"
    <3>1. "HELD" \in TRANSITIONS[view.state[cur]]
      BY <2>3 DEF Permits, EventAt
    <3>2. view.state[cur] = "ABSENT"
      BY <1>1, <3>1 DEF TRANSITIONS, TypeOK, View, States
    <3> QED BY <1>1, <3>2 DEF DispatchInv, OrderIsReserved
  <2> QED BY <2>1, <2>2, <2>3
<1> QED BY <1>1, <1>2, <1>3, PermittedSound

\* hold: the attempt is reserved.
LEMMA HoldStep == DispatchInv /\ Hold => DispatchInv'
<1> SUFFICES ASSUME DispatchInv, Hold PROVE DispatchInv'
  OBVIOUS
<1>1. /\ pc = "hold" /\ pc' = "mark" /\ EventAt = "HELD"
      /\ UNCHANGED <<pending, groups, closed, dayOf, order, today, cur, todo, atRisk, seen>>
  BY DEF Hold, EventAt
<1>2. /\ Sound(view')
      /\ view'.state[cur] = "HELD"
      /\ \A t \in Submissions \ {cur} : view'.state[t] = view.state[t]
      /\ cur \in view'.reserved
  BY <1>1, AppendPermitted DEF Hold
<1>3. cur \in Submissions /\ cur \notin pending \cup groups \cup closed /\ Unresolved(view) = {} /\ todo = {}
  BY <1>1 DEF DispatchInv, Position
<1>4. Unresolved(view') = {}
  BY <1>2, <1>3 DEF Unresolved
<1>5. TypeOK'
  BY <1>1, <1>2 DEF Sound, DispatchInv, TypeOK, Phases
<1>6. Position' /\ OneUnresolved'
  BY <1>1, <1>2, <1>3, <1>4 DEF Position, OneUnresolved
<1> QED BY <1>1, <1>2, <1>5, <1>6, SoundWrite DEF DispatchInv

\* mark_dispatching: the attempt becomes the one unresolved dispatch.
LEMMA MarkStep == DispatchInv /\ MarkDispatching => DispatchInv'
<1> SUFFICES ASSUME DispatchInv, MarkDispatching PROVE DispatchInv'
  OBVIOUS
<1>1. /\ pc = "mark" /\ pc' = "record" /\ EventAt = "DISPATCHING"
      /\ UNCHANGED <<pending, groups, closed, dayOf, order, today, cur, todo, atRisk, seen>>
  BY DEF MarkDispatching, EventAt
<1>2. /\ Sound(view')
      /\ view'.state[cur] = "DISPATCHING"
      /\ \A t \in Submissions \ {cur} : view'.state[t] = view.state[t]
  BY <1>1, AppendPermitted DEF MarkDispatching
<1>3. /\ cur \in Submissions /\ cur \notin pending \cup groups \cup closed
      /\ Unresolved(view) = {} /\ todo = {} /\ cur \in view.reserved
  BY <1>1 DEF DispatchInv, Position
<1>4. Unresolved(view') = {cur}
  BY <1>2, <1>3 DEF Unresolved
<1>5. TypeOK'
  BY <1>1, <1>2 DEF Sound, DispatchInv, TypeOK, Phases
<1>6. Position' /\ OneUnresolved'
  BY <1>1, <1>2, <1>3, <1>4 DEF Position, OneUnresolved, Sound
<1> QED BY <1>1, <1>2, <1>5, <1>6, SoundWrite DEF DispatchInv

\* The structure ledger owns the attempt before the broker hears of it.
LEMMA RecordStep == DispatchInv /\ RecordPending => DispatchInv'
<1> SUFFICES ASSUME DispatchInv, RecordPending PROVE DispatchInv'
  OBVIOUS
<1>1. /\ pc = "record" /\ pc' = "submit" /\ pending' = pending \cup {cur}
      /\ UNCHANGED <<view, groups, closed, dayOf, order, today, cur, todo, atRisk, seen>>
  BY DEF RecordPending
<1>2. /\ cur \in Submissions /\ cur \notin pending \cup groups \cup closed
      /\ Unresolved(view) = {cur}
  BY <1>1 DEF DispatchInv, Position
<1>3. TypeOK' /\ Position'
  BY <1>1, <1>2 DEF DispatchInv, TypeOK, Phases, Position
<1>4. TornIsUnresolved' /\ OrderIsReserved' /\ OneUnresolved'
  BY <1>1 DEF DispatchInv, TornIsUnresolved, OrderIsReserved, OneUnresolved
<1>5. OwnedIsKnown'
  BY <1>1, <1>2 DEF DispatchInv, OwnedIsKnown, Unresolved
<1>6. OrderIsOwned' /\ GroupIsFilled'
  BY <1>1, <1>2 DEF DispatchInv, OrderIsOwned, GroupIsFilled
<1> QED BY <1>3, <1>4, <1>5, <1>6 DEF DispatchInv

\* The order leaves: it is announced and owned already.
LEMMA SubmitStep == DispatchInv /\ Submit => DispatchInv'
<1> SUFFICES ASSUME DispatchInv, Submit PROVE DispatchInv'
  OBVIOUS
<1>1. /\ pc = "submit" /\ pc' = "answer" /\ order' = [order EXCEPT ![cur] = "transit"]
      /\ UNCHANGED <<view, pending, groups, closed, dayOf, today, cur, todo, atRisk, seen>>
  BY DEF Submit, durable
<1>2. cur \in Submissions /\ cur \in pending /\ Unresolved(view) = {cur} /\ cur \in view.reserved
  BY <1>1 DEF DispatchInv, Position
<1>3. order \in [Submissions -> OrderStates]
  BY DEF DispatchInv, TypeOK
<1>4. TypeOK'
  BY <1>1, <1>2 DEF DispatchInv, TypeOK, Phases, OrderStates
<1>5. Position' /\ TornIsUnresolved' /\ OneUnresolved' /\ OwnedIsKnown'
  BY <1>1 DEF DispatchInv, Position, TornIsUnresolved, OneUnresolved, OwnedIsKnown
<1>6. OrderIsReserved'
  BY <1>1, <1>2, <1>3 DEF DispatchInv, OrderIsReserved, Unresolved
<1>7. OrderIsOwned' /\ GroupIsFilled'
  BY <1>1, <1>2, <1>3 DEF DispatchInv, OrderIsOwned, GroupIsFilled
<1> QED BY <1>4, <1>5, <1>6, <1>7 DEF DispatchInv

\* The broker has the order.
LEMMA AnsweredStep == DispatchInv /\ Answered => DispatchInv'
<1> SUFFICES ASSUME DispatchInv, Answered PROVE DispatchInv'
  OBVIOUS
<1>1. UNCHANGED <<view, pending, groups, closed, order>>
  BY DEF Answered, durable
<1>2. TypeOK'
  BY DEF Answered, durable, DispatchInv, TypeOK, Phases
<1>3. Position'
  BY DEF Answered, durable, DispatchInv, Position
<1> QED BY <1>1, <1>2, <1>3, LocalStep DEF DispatchInv

\* commit: nothing is unresolved any more.
LEMMA CommitStep ==
  ASSUME DispatchInv, NEW f \in Facts, Commit(f)
  PROVE  DispatchInv'
<1>1. /\ pc = "commit" /\ pc' = "loop" /\ cur' = Nobody /\ EventAt = "COMMITTED"
      /\ seen' = {s \in Counted(view') : dayOf[s] = today}
      /\ UNCHANGED <<pending, groups, closed, dayOf, order, today, todo>>
  BY DEF Commit, EventAt
<1>2. /\ Sound(view')
      /\ view'.state[cur] = "COMMITTED"
      /\ \A t \in Submissions \ {cur} : view'.state[t] = view.state[t]
  BY <1>1, AppendPermitted DEF Commit
<1>3. Unresolved(view) = {cur} /\ todo = {}
  BY <1>1 DEF DispatchInv, Position
<1>4. Unresolved(view') = {}
  BY <1>2, <1>3 DEF Unresolved
<1>5. seen' \subseteq Submissions
  BY <1>1, <1>2 DEF Sound, View, Counted
<1>6. TypeOK'
  BY <1>1, <1>2, <1>5 DEF Sound, DispatchInv, TypeOK, Phases
<1>7. Position' /\ OneUnresolved'
  BY <1>1, <1>3, <1>4 DEF Position, OneUnresolved
<1> QED BY <1>1, <1>2, <1>6, <1>7, SoundWrite DEF DispatchInv

\* An append that raised, or one the process died in, about an attempt that
\* is the only one unresolved, if any is.
LEMMA StoppedWrite ==
  ASSUME DispatchInv, NEW s \in Submissions, view' \in Incomplete(s),
         Unresolved(view) \subseteq {s} \/ s \in Unresolved(view)
  PROVE  /\ Sound(view')
         /\ OneUnresolved'
         /\ \A t \in Submissions \ {s} : view'.state[t] = view.state[t]
         /\ view'.state[s] \in {view.state[s], "DISPATCHING"}
<1>1. TypeOK /\ TornIsUnresolved /\ OneUnresolved
  BY DEF DispatchInv
<1>2. /\ Sound(view')
      /\ Unresolved(view') \subseteq Unresolved(view) \cup {s}
      /\ \A t \in Submissions \ {s} : view'.state[t] = view.state[t]
      /\ view'.state[s] \in {view.state[s], "DISPATCHING"}
  BY <1>1, IncompleteSound
<1>3. OneUnresolved'
  BY <1>1, <1>2 DEF OneUnresolved
<1> QED BY <1>2, <1>3

\* What a stopped append leaves behind, wherever the process is.
LEMMA DamageSound ==
  ASSUME DispatchInv, view' \in Damaged
  PROVE  /\ Sound(view')
         /\ OneUnresolved'
         /\ \A t \in Submissions \ Appending : view'.state[t] = view.state[t]
<1>1. CASE view' = view
  BY <1>1 DEF Sound, DispatchInv, TypeOK, TornIsUnresolved, OneUnresolved
<1>2. CASE \E s \in Appending : view' \in Incomplete(s)
  <2>1. PICK s \in Appending : view' \in Incomplete(s)
    BY <1>2
  <2>2. s \in Submissions /\ (Unresolved(view) \subseteq {s} \/ s \in Unresolved(view))
    BY <2>1 DEF Appending, DispatchInv, TypeOK, Position
  <2> QED BY <2>1, <2>2, StoppedWrite
<1> QED BY <1>1, <1>2 DEF Damaged

\* A failed append leaves the loop, or stops the cycle in doubt.
LEMMA AppendFailsStep == DispatchInv /\ AppendFails => DispatchInv'
<1> SUFFICES ASSUME DispatchInv, AppendFails PROVE DispatchInv'
  OBVIOUS
<1>1. /\ pc \in {"hold", "mark", "commit"}
      /\ view' \in Damaged \cup Unsynced
      /\ UNCHANGED <<pending, groups, closed, dayOf, order, today>>
      /\ IF view'.state[cur] = "DISPATCHING" THEN Over
         ELSE pc' = "loop" /\ cur' = Nobody /\ UNCHANGED <<todo, atRisk, seen>>
  BY DEF AppendFails
<1>2. /\ cur \in Submissions /\ Unresolved(view) \subseteq {cur} /\ todo = {}
  BY <1>1 DEF DispatchInv, Position
<1>3. /\ Sound(view')
      /\ \A t \in Submissions \ {cur} : view'.state[t] = view.state[t]
  <2>1. CASE view' \in Damaged
    BY <1>1, <1>2, <2>1, DamageSound DEF Appending
  <2>2. CASE view' \in Unsynced
    <3>1. PICK s \in Appending : view' = Apply(view, LineOf(EventAt, s, FactAt))
      BY <2>2 DEF Unsynced
    <3>2. s = cur /\ Permits(view, cur, EventAt)
      BY <1>1, <3>1 DEF Appending
    <3>3. FactAt \in Facts \cup {NoFact}
      BY ParameterAssumption DEF FactAt
    <3> QED BY <1>1, <3>1, <3>2, <3>3, AppendPermitted
  <2> QED BY <1>1, <2>1, <2>2
<1>4. Unresolved(view') \subseteq {cur}
  BY <1>2, <1>3 DEF Unresolved
<1>5. OneUnresolved'
  BY <1>4 DEF OneUnresolved
<1>6. TypeOK'
  BY <1>1, <1>3 DEF Over, Sound, DispatchInv, TypeOK, Phases
<1>7. Position'
  <2>1. CASE view'.state[cur] = "DISPATCHING"
    BY <1>1, <2>1, OverPosition
  <2>2. CASE view'.state[cur] # "DISPATCHING"
    <3>1. Unresolved(view') = {}
      BY <1>4, <2>2 DEF Unresolved
    <3> QED BY <1>1, <1>2, <2>2, <3>1 DEF Position
  <2> QED BY <2>1, <2>2
<1> QED BY <1>1, <1>3, <1>5, <1>6, <1>7, SoundWrite DEF DispatchInv

\* A crash leaves at most one line behind it.
LEMMA CrashStep == DispatchInv /\ Crash => DispatchInv'
<1> SUFFICES ASSUME DispatchInv, Crash PROVE DispatchInv'
  OBVIOUS
<1>1. /\ Over
      /\ UNCHANGED <<pending, groups, closed, dayOf, order, today>>
      /\ view' \in Damaged
  BY DEF Crash
<1>2. Sound(view') /\ OneUnresolved'
  BY <1>1, DamageSound
<1>3. TypeOK'
  BY <1>1, <1>2 DEF Over, Sound, DispatchInv, TypeOK, Phases
<1> QED BY <1>1, <1>2, <1>3, OverPosition, SoundWrite DEF DispatchInv

\* What the broker does with an order it has.
LEMMA BrokerStep ==
  ASSUME DispatchInv, NEW s \in Submissions, Broker(s)
  PROVE  DispatchInv'
<1>1. PICK o \in Moves[order[s]] : order' = [order EXCEPT ![s] = o]
  BY DEF Broker
<1>2. UNCHANGED <<view, pending, groups, closed, dayOf, today, pc, cur, todo, atRisk, seen>>
  BY DEF Broker, durable, local
<1>3. /\ order \in [Submissions -> OrderStates]
      /\ order[s] \in {"transit", "open", "partial"} /\ o \in OrderStates
  BY <1>1 DEF DispatchInv, TypeOK, Moves, OrderStates
<1>4. TypeOK' /\ Position' /\ TornIsUnresolved' /\ OneUnresolved' /\ OwnedIsKnown'
  BY <1>1, <1>2, <1>3 DEF DispatchInv, TypeOK, Position, TornIsUnresolved, OneUnresolved, OwnedIsKnown
<1>5. OrderIsReserved' /\ OrderIsOwned' /\ GroupIsFilled'
  BY <1>1, <1>2, <1>3 DEF DispatchInv, OrderIsReserved, OrderIsOwned, GroupIsFilled
<1> QED BY <1>4, <1>5 DEF DispatchInv

\* A new trading date.
LEMMA NextDayStep == DispatchInv /\ NextDay => DispatchInv'
<1> SUFFICES ASSUME DispatchInv, NextDay PROVE DispatchInv'
  OBVIOUS
<1>1. UNCHANGED <<view, pending, groups, closed, order>>
  BY DEF NextDay, durable
<1>2. TypeOK'
  BY ParameterAssumption DEF NextDay, durable, local, DispatchInv, TypeOK
<1>3. Position'
  BY DEF NextDay, durable, local, DispatchInv, Position
<1> QED BY <1>1, <1>2, <1>3, LocalStep DEF DispatchInv

-----------------------------------------------------------------------------
\* Every step of the dispatch protocol keeps the invariant.
LEMMA StepDispatchInv == DispatchInv /\ [Next]_vars => DispatchInv'
<1> SUFFICES ASSUME DispatchInv, [Next]_vars PROVE DispatchInv'
  OBVIOUS
<1>1. CASE Begin
  BY <1>1, BeginStep
<1>2. CASE Reconcile
  BY <1>2, LookupStep, InconclusiveStep, ReconciledStep DEF Reconcile
<1>3. CASE Exits
  BY <1>3, CleanupStep, SettleStep, ManageStep DEF Exits
<1>4. CASE Admission
  BY <1>4, PermitStep, OverStep, AdmitStep, OverBudgetStep DEF Admission, EndCycle
<1>5. CASE Dispatch
  BY <1>5, HoldStep, MarkStep, RecordStep, SubmitStep, AnsweredStep, CommitStep,
     OverStep, AppendFailsStep DEF Dispatch, Uncertain
<1>6. CASE World
  BY <1>6, CrashStep, BrokerStep, NextDayStep DEF World
<1>7. CASE UNCHANGED vars
  <2>1. UNCHANGED <<view, pending, groups, closed, dayOf, order, today, pc, cur, todo, atRisk, seen>>
    BY <1>7 DEF vars, durable, local
  <2>2. TypeOK' /\ Position'
    BY <2>1 DEF DispatchInv, TypeOK, Position
  <2> QED BY <2>1, <2>2, LocalStep DEF DispatchInv
<1> QED BY <1>1, <1>2, <1>3, <1>4, <1>5, <1>6, <1>7 DEF Next

\* The invariant holds in every reachable state.
LEMMA DispatchInvariant == Spec => []DispatchInv
BY InitDispatchInv, StepDispatchInv, PTL DEF Spec

\* The variables keep their types.
THEOREM TypeCorrect == Spec => []TypeOK
<1>1. DispatchInv => TypeOK
  BY DEF DispatchInv
<1> QED BY <1>1, DispatchInvariant, PTL

\* No order that the broker has or may still receive is ever released or
\* missing from the journal (submission_wal.py: nothing releases a
\* reservation on an exception).
THEOREM OrderAlwaysReserved == Spec => []OrderIsReserved
<1>1. DispatchInv => OrderIsReserved
  BY DEF DispatchInv
<1> QED BY <1>1, DispatchInvariant, PTL

\* No order that may have filled is ever without one structure record that
\* owns it (dispatch_entry: no broker call happens until the ledger owns it).
THEOREM OrderAlwaysOwned == Spec => []OrderIsOwned
<1>1. DispatchInv => OrderIsOwned
  BY DEF DispatchInv
<1> QED BY <1>1, DispatchInvariant, PTL

\* reconcile_pending_entries never promotes a part of an order: what is
\* managed as a structure was filled in full, now and for good.
THEOREM GroupAlwaysFilled == Spec => []GroupIsFilled
<1>1. DispatchInv => GroupIsFilled
  BY DEF DispatchInv
<1> QED BY <1>1, DispatchInvariant, PTL

\* At most one dispatch is ever unresolved, which is what lets _require make
\* its exception for a single torn dispatch.
THEOREM AtMostOneUnresolved == Spec => []OneUnresolved
<1>1. DispatchInv => OneUnresolved
  BY DEF DispatchInv
<1> QED BY <1>1, DispatchInvariant, PTL

\* The journal never refuses the end of an unresolved dispatch whose
\* reservation it knows, unless a torn line lost its keys.
THEOREM ResolutionNeverRefused == Spec => []ResolutionNotRefused
<1>1. DispatchInv => ResolutionNotRefused
  <2> SUFFICES ASSUME DispatchInv, NEW s \in Unresolved(view) \cap view.reserved,
                      ~view.fatal, NEW target \in Terminal
               PROVE  Permits(view, s, target)
    BY DEF ResolutionNotRefused
  <2>1. /\ s \in Submissions /\ view.state[s] = "DISPATCHING"
        /\ Unresolved(view) = {s}
        /\ ActiveTorn(view) \subseteq {s}
    BY DEF DispatchInv, OneUnresolved, TornIsUnresolved, Unresolved
  <2>2. target \in TRANSITIONS[view.state[s]]
    BY <2>1 DEF TRANSITIONS, Terminal, States
  <2>3. IntegrityOk(view) \/ Recoverable(view) = {s}
    BY <2>1 DEF IntegrityOk, Recoverable
  <2> QED BY <2>2, <2>3 DEF Permits
<1> QED BY <1>1, DispatchInvariant, PTL

-----------------------------------------------------------------------------
(* The budgets and the daily limits.                                       *)

\* The cost of a finite set of attempts is a natural number, grows with the
\* set, and grows by its own cost for each attempt added.
LEMMA TotalFacts ==
  ASSUME NEW T \in SUBSET Submissions, IsFiniteSet(T)
  PROVE  /\ Total(T) \in Nat
         /\ \A S \in SUBSET T : Total(S) \in Nat /\ Total(S) <= Total(T)
         /\ \A x \in Submissions \ T : Total(T \cup {x}) = Total(T) + Cost[x]
<1>1. \A S : Total(S) = SumFunctionOnSet(Cost, S)
  BY DEF Total, MapThenSumSet, SumFunctionOnSet, FoldFunctionOnSet
<1>2. \A s \in Submissions : Cost[s] \in Nat
  BY ParameterAssumption
<1>3. \A S \in SUBSET T : /\ SumFunctionOnSet(Cost, S) \in Nat
                          /\ SumFunctionOnSet(Cost, T) \in Nat
                          /\ SumFunctionOnSet(Cost, S) <= SumFunctionOnSet(Cost, T)
  BY <1>2, SumGrows
<1>4. \A x \in Submissions \ T :
        SumFunctionOnSet(Cost, T \cup {x}) = SumFunctionOnSet(Cost, T) + Cost[x]
  <2> SUFFICES ASSUME NEW x \in Submissions \ T
               PROVE  SumFunctionOnSet(Cost, T \cup {x}) = SumFunctionOnSet(Cost, T) + Cost[x]
    OBVIOUS
  <2>1. \A y \in T \cup {x} : Cost[y] \in Int
    BY <1>2
  <2> QED BY <2>1, SumAdd
<1> QED BY <1>1, <1>3, <1>4

\* What almost every step leaves as it was: the reservations that count, the
\* orders and their dates, and what the ledger owns.
CountedKept == /\ view'.reserved = view.reserved
               /\ Counted(view') \subseteq Counted(view)
               /\ \A s \in Counted(view') : dayOf'[s] = dayOf[s]
KnownKept   == \A s \in Submissions : view.state[s] # "ABSENT" => view'.state[s] # "ABSENT"
OrderKept   == \A s \in Submissions : order'[s] # "none" => order[s] # "none" /\ dayOf'[s] = dayOf[s]
OwnedKept   == pending' \cup groups' \subseteq pending \cup groups
SeenKept    == seen' = seen \/ seen' \subseteq view'.reserved

LEMMA KeptFinite ==
  ASSUME BudgetInv, DispatchInv, view'.reserved = view.reserved, KnownKept, OwnedKept, SeenKept
  PROVE  FinitelyMany' /\ ReservedIsKnown'
<1>1. view.reserved \subseteq Submissions
  BY DEF DispatchInv, TypeOK, View
<1>2. IsFiniteSet(view'.reserved) /\ IsFiniteSet(seen')
  BY FS_Subset DEF SeenKept, BudgetInv, FinitelyMany
<1>3. IsFiniteSet(pending') /\ IsFiniteSet(groups')
  <2>1. IsFiniteSet(pending \cup groups)
    BY FS_Union DEF BudgetInv, FinitelyMany
  <2>2. pending' \in SUBSET (pending \cup groups) /\ groups' \in SUBSET (pending \cup groups)
    BY DEF OwnedKept
  <2> QED BY <2>1, <2>2, FS_Subset
<1>4. ReservedIsKnown'
  BY <1>1 DEF KnownKept, ReservedIsKnown, BudgetInv
<1> QED BY <1>2, <1>3, <1>4 DEF FinitelyMany

\* The day's reservations still fit.
LEMMA KeptExposure ==
  ASSUME BudgetInv, DispatchInv, CountedKept
  PROVE  \A d \in 0..MaxDay : /\ Total(CountedOn(d)') <= ExposureCap
                              /\ Total(CountedOn(d)') <= Total(CountedOn(d))
                              /\ Total(CountedOn(d)') \in Nat /\ Total(CountedOn(d)) \in Nat
<1> TAKE d \in 0..MaxDay
<1>1. CountedOn(d)' \subseteq CountedOn(d)
  BY DEF CountedOn, CountedKept
<1>2. CountedOn(d) \in SUBSET Submissions /\ CountedOn(d) \in SUBSET view.reserved
  BY DEF CountedOn, Counted, DispatchInv, TypeOK, View
<1>3. IsFiniteSet(CountedOn(d))
  BY <1>2, FS_Subset DEF BudgetInv, FinitelyMany
<1>4. /\ Total(CountedOn(d)') \in Nat /\ Total(CountedOn(d)) \in Nat
      /\ Total(CountedOn(d)') <= Total(CountedOn(d))
  BY <1>1, <1>2, <1>3, TotalFacts
<1>5. Total(CountedOn(d)) <= ExposureCap
  BY DEF BudgetInv, ExposureInv
<1> QED BY <1>4, <1>5, ParameterAssumption

\* What the ledger owns still fits.
LEMMA KeptAtRisk ==
  ASSUME BudgetInv, DispatchInv, AtRiskInv, OwnedKept
  PROVE  Total((pending \cup groups)') <= AtRiskCap
<1>1. /\ IsFiniteSet(pending \cup groups)
      /\ pending \cup groups \in SUBSET Submissions
      /\ (pending \cup groups)' \in SUBSET (pending \cup groups)
  BY FS_Union DEF BudgetInv, FinitelyMany, DispatchInv, TypeOK, OwnedKept
<1>2. /\ Total(pending \cup groups) \in Nat /\ Total((pending \cup groups)') \in Nat
      /\ Total((pending \cup groups)') <= Total(pending \cup groups)
  BY <1>1, TotalFacts
<1> QED BY <1>2, ParameterAssumption DEF AtRiskInv

\* Every order of a day is a reservation of that day.
LEMMA OrdersCounted ==
  ASSUME DispatchInv, BudgetInv, NEW d
  PROVE  /\ OrdersOn(d) \subseteq CountedOn(d)
         /\ OrdersOn(d) \subseteq view.reserved
         /\ IsFiniteSet(OrdersOn(d)) /\ IsFiniteSet(OrdersOn(d) \cap Gap)
         /\ Cardinality(OrdersOn(d) \cap Gap) \in Nat
<1>1. OrdersOn(d) \subseteq CountedOn(d) /\ OrdersOn(d) \subseteq view.reserved
  BY DEF OrdersOn, CountedOn, Counted, DispatchInv, OrderIsReserved
<1>2. IsFiniteSet(OrdersOn(d)) /\ IsFiniteSet(OrdersOn(d) \cap Gap)
  BY <1>1, FS_Subset DEF BudgetInv, FinitelyMany
<1> QED BY <1>1, <1>2, FS_CardinalityType

\* With no order sent, the daily limits still hold.
LEMMA KeptLimits ==
  ASSUME BudgetInv, DispatchInv, DailyLimitsHold, OrderKept
  PROVE  /\ DailyLimitsHold'
         /\ \A d : /\ OrdersOn(d)' \subseteq OrdersOn(d)
                   /\ Cardinality(OrdersOn(d)' \cap Gap) \in Nat
                   /\ Cardinality(OrdersOn(d)' \cap Gap) <= Cardinality(OrdersOn(d) \cap Gap)
<1>1. \A d : OrdersOn(d)' \subseteq OrdersOn(d)
  BY DEF OrdersOn, OrderKept
<1>2. \A d : /\ Cardinality(OrdersOn(d)' \cap Gap) \in Nat
             /\ Cardinality(OrdersOn(d) \cap Gap) \in Nat
             /\ Cardinality(OrdersOn(d)' \cap Gap) <= Cardinality(OrdersOn(d) \cap Gap)
  <2> TAKE d
  <2>1. OrdersOn(d)' \cap Gap \in SUBSET (OrdersOn(d) \cap Gap)
    BY <1>1
  <2>2. IsFiniteSet(OrdersOn(d) \cap Gap)
    BY OrdersCounted
  <2> QED BY <2>1, <2>2, FS_Subset, FS_CardinalityType
<1>3. FireOncePerDay'
  BY DEF OrderKept, DailyLimitsHold, FireOncePerDay
<1>4. GapLimitPerDay'
  <2>1. \A d \in 0..MaxDay : Cardinality(OrdersOn(d)' \cap Gap) <= GapMax
    <3> TAKE d \in 0..MaxDay
    <3>1. Cardinality(OrdersOn(d) \cap Gap) <= GapMax
      BY DEF DailyLimitsHold, GapLimitPerDay
    <3> QED BY <1>2, <3>1, ParameterAssumption
  <2> QED BY <2>1 DEF GapLimitPerDay
<1> QED BY <1>1, <1>2, <1>3, <1>4 DEF DailyLimitsHold

\* A write that keeps every reservation and every end.
Harmless(v) == /\ v \in View /\ v.reserved = view.reserved
               /\ \A t \in Submissions : view.state[t] \in Terminal => v.state[t] = view.state[t]
               /\ \A t \in Submissions : view.state[t] # "ABSENT" => v.state[t] # "ABSENT"

LEMMA HarmlessKept ==
  ASSUME DispatchInv, Harmless(view'), UNCHANGED dayOf
  PROVE  CountedKept /\ KnownKept
<1>1. view.reserved \subseteq Submissions
  BY DEF DispatchInv, TypeOK, View
<1> QED BY <1>1 DEF Harmless, CountedKept, KnownKept, Counted, Terminal

LEMMA DamageKept ==
  ASSUME DispatchInv, view' \in Damaged
  PROVE  Harmless(view')
<1>1. view \in View
  BY DEF DispatchInv, TypeOK
<1>2. CASE view' = view
  BY <1>1, <1>2 DEF Harmless
<1>3. CASE \E s \in Appending : view' \in Incomplete(s)
  <2>1. PICK s \in Appending : view' \in Incomplete(s)
    BY <1>3
  <2>2. s \in Submissions
    BY <2>1 DEF Appending, DispatchInv, TypeOK
  <2>3. CASE view' = ApplyTorn(view, s)
    <3>1. /\ view' \in View /\ view'.reserved = view.reserved
          /\ \A t \in Submissions \ {s} : view'.state[t] = view.state[t]
          /\ view'.state[s] = IF view.state[s] \in Terminal THEN view.state[s] ELSE "DISPATCHING"
      BY <1>1, <2>2, <2>3, TornLine
    <3> QED BY <3>1 DEF Harmless, Terminal
  <2>4. CASE view' = Spoil(view)
    BY <1>1, <2>4, SpoiledView DEF Harmless
  <2> QED BY <1>2, <2>1, <2>3, <2>4 DEF Incomplete
<1> QED BY <1>2, <1>3 DEF Damaged

LEMMA WholeKept ==
  ASSUME DispatchInv, NEW s \in Submissions, NEW f \in Facts \cup {NoFact},
         NEW target \in States \ {"HELD"}, target \in TRANSITIONS[view.state[s]],
         view' = Apply(view, LineOf(target, s, f))
  PROVE  Harmless(view')
<1>1. view \in View /\ view.state \in [Submissions -> States]
  BY DEF DispatchInv, TypeOK, View
<1>2. /\ view' \in View /\ view'.reserved = view.reserved /\ view'.state[s] = target
      /\ \A t \in Submissions \ {s} : view'.state[t] = view.state[t]
  BY <1>1, WholeLine
<1>3. view.state[s] \notin Terminal /\ target # "ABSENT"
  BY <1>1 DEF TRANSITIONS, States, Terminal
<1> QED BY <1>2, <1>3 DEF Harmless

\* A lookup's answer ends its own dispatch or is refused.
LEMMA ResolvedKept ==
  ASSUME DispatchInv, NEW s \in Submissions, NEW f \in Facts, NEW target \in Terminal,
         view' = Resolved(s, target, f)
  PROVE  Harmless(view')
<1>1. CASE ~Permits(view, s, target)
  BY <1>1 DEF Resolved, Harmless, DispatchInv, TypeOK
<1>2. CASE Permits(view, s, target)
  <2>1. view' = Apply(view, LineOf(target, s, f))
    BY <1>2 DEF Resolved
  <2>2. target \in TRANSITIONS[view.state[s]] /\ target \in States \ {"HELD"}
    BY <1>2 DEF Permits, Terminal, States
  <2> QED BY <2>1, <2>2, WholeKept
<1> QED BY <1>1, <1>2

-----------------------------------------------------------------------------
\* A step outside the admission loop, which sends nothing and owns nothing
\* new, keeps every part of the invariant.
LEMMA QuietBudget ==
  ASSUME DispatchInv, BudgetInv, CountedKept, KnownKept, OrderKept, OwnedKept, SeenKept,
         pc' \notin Admitting \cup {"loop"}
  PROVE  BudgetInv'
<1>1. FinitelyMany' /\ ReservedIsKnown'
  BY KeptFinite DEF CountedKept
<1>2. AdmittedToday'
  BY DEF AdmittedToday, Admitting
<1>3. ExposureInv'
  <2>1. \A d \in 0..MaxDay : Total(CountedOn(d)') <= ExposureCap
    BY KeptExposure
  <2> QED BY <2>1 DEF ExposureInv, Admitting
<1>4. ASSUME ~SyncFaults PROVE AtRiskInv'
  <2>1. Total((pending \cup groups)') <= AtRiskCap
    BY <1>4, KeptAtRisk DEF BudgetInv
  <2> QED BY <2>1 DEF AtRiskInv, Admitting
<1>5. ASSUME ~SyncFaults PROVE LimitInv'
  <2>1. DailyLimitsHold'
    BY <1>5, KeptLimits DEF BudgetInv, LimitInv
  <2> QED BY <2>1 DEF LimitInv, Admitting
<1> QED BY <1>1, <1>2, <1>3, <1>4, <1>5 DEF BudgetInv

LEMMA QuietSteps ==
  ASSUME DispatchInv, BudgetInv,
         \/ Begin \/ (\E s \in Submissions : LookupInconclusive(s)) \/ Reconciled
         \/ Cleanup \/ (\E silent \in SUBSET pending : SettlePending(silent))
         \/ ManageExits \/ EndCycle \/ Uncertain
  PROVE  BudgetInv'
<1>1. /\ UNCHANGED <<view, dayOf>> /\ pc' \notin Admitting \cup {"loop"}
      /\ seen' = seen \/ seen' = {}
      /\ pending' \cup groups' \subseteq pending \cup groups
      /\ order' = order \/ Cleanup
  BY DEF Begin, LookupInconclusive, Reconciled, Cleanup, SettlePending, ManageExits, EndCycle,
         Uncertain, Over, durable, Admitting
<1>2. OrderKept
  BY <1>1 DEF OrderKept, Cleanup, Working
<1>3. Harmless(view')
  BY <1>1 DEF Harmless, DispatchInv, TypeOK
<1> QED BY <1>1, <1>2, <1>3, HarmlessKept, QuietBudget DEF OwnedKept, SeenKept

LEMMA LookupBudget ==
  ASSUME DispatchInv, BudgetInv, NEW s \in Submissions, NEW f \in Facts,
         LookupFound(s, f) \/ LookupAbsent(s, f)
  PROVE  BudgetInv'
<1>1. /\ pc' \notin Admitting \cup {"loop"}
      /\ UNCHANGED <<pending, groups, dayOf, order, seen>>
      /\ \E target \in Terminal : view' = Resolved(s, target, f)
  BY DEF LookupFound, LookupAbsent, Admitting, Terminal
<1>2. CountedKept /\ KnownKept
  BY <1>1, ResolvedKept, HarmlessKept
<1> QED BY <1>1, <1>2, QuietBudget DEF OrderKept, OwnedKept, SeenKept

LEMMA CrashBudget ==
  ASSUME DispatchInv, BudgetInv, view' \in Damaged, Over,
         UNCHANGED <<pending, groups, dayOf, order>>
  PROVE  BudgetInv'
<1>1. CountedKept /\ KnownKept
  BY DamageKept, HarmlessKept
<1>2. pc' \notin Admitting \cup {"loop"} /\ seen' = {}
  BY DEF Over, Admitting
<1> QED BY <1>1, <1>2, QuietBudget DEF OrderKept, OwnedKept, SeenKept

LEMMA NextDayBudget ==
  ASSUME DispatchInv, BudgetInv, NextDay
  PROVE  BudgetInv'
<1>1. /\ pc' \notin Admitting \cup {"loop"}
      /\ UNCHANGED <<view, pending, groups, dayOf, order, seen>>
  BY DEF NextDay, durable, local, Admitting
<1>2. Harmless(view')
  BY <1>1 DEF Harmless, DispatchInv, TypeOK
<1> QED BY <1>1, <1>2, HarmlessKept, QuietBudget DEF OrderKept, OwnedKept, SeenKept

-----------------------------------------------------------------------------
(* The admission loop.                                                     *)

\* Whatever the broker does with an order, none is added.
LEMMA BrokerBudget ==
  ASSUME DispatchInv, BudgetInv, NEW s \in Submissions, Broker(s)
  PROVE  BudgetInv'
<1>1. UNCHANGED <<view, pending, groups, dayOf, today, pc, cur, todo, atRisk, seen>>
  BY DEF Broker, durable, local
<1>2. OrderKept
  <2>1. PICK o \in Moves[order[s]] : order' = [order EXCEPT ![s] = o]
    BY DEF Broker
  <2>2. order \in [Submissions -> OrderStates] /\ Moves["none"] = {}
    BY DEF DispatchInv, TypeOK, Moves, OrderStates
  <2> QED BY <1>1, <2>1, <2>2 DEF OrderKept
<1>3. FinitelyMany' /\ ReservedIsKnown' /\ AdmittedToday' /\ ExposureInv'
  BY <1>1 DEF BudgetInv, FinitelyMany, ReservedIsKnown, AdmittedToday, ExposureInv, CountedOn
<1>4. ASSUME ~SyncFaults PROVE AtRiskInv'
  BY <1>1, <1>4 DEF BudgetInv, AtRiskInv
<1>5. ASSUME ~SyncFaults PROVE LimitInv'
  <2>1. LimitInv
    BY <1>5 DEF BudgetInv
  <2>2. /\ DailyLimitsHold'
        /\ OrdersOn(today)' \subseteq OrdersOn(today)
        /\ Cardinality(OrdersOn(today)' \cap Gap) \in Nat
        /\ Cardinality(OrdersOn(today)' \cap Gap) <= Cardinality(OrdersOn(today) \cap Gap)
    <3>1. DailyLimitsHold' /\ \A d : /\ OrdersOn(d)' \subseteq OrdersOn(d)
             /\ Cardinality(OrdersOn(d)' \cap Gap) \in Nat
             /\ Cardinality(OrdersOn(d)' \cap Gap) <= Cardinality(OrdersOn(d) \cap Gap)
      BY <1>2, <2>1, KeptLimits DEF LimitInv
    <3> QED BY <1>1, <3>1
  <2>3. Cardinality(OrdersOn(today) \cap Gap) \in Nat
    BY OrdersCounted
  <2>4. pc' \in {"loop", "hold", "mark"} => OrdersOn(today)' \subseteq seen'
    BY <1>1, <2>1, <2>2 DEF LimitInv
  <2>5. ASSUME pc' \in {"hold", "mark", "record", "submit"}
        PROVE  /\ FireKey[cur'] # NoKey =>
                    \A t \in OrdersOn(today)' : t # cur' => FireKey[t] # FireKey[cur']
               /\ cur' \in Gap => Cardinality(OrdersOn(today)' \cap Gap) < GapMax
    <3>1. /\ FireKey[cur] # NoKey =>
               \A t \in OrdersOn(today) : t # cur => FireKey[t] # FireKey[cur]
          /\ cur \in Gap => Cardinality(OrdersOn(today) \cap Gap) < GapMax
      BY <1>1, <2>1, <2>5 DEF LimitInv
    <3>2. FireKey[cur'] # NoKey =>
               \A t \in OrdersOn(today)' : t # cur' => FireKey[t] # FireKey[cur']
      BY <1>1, <2>2, <3>1
    <3>3. cur' \in Gap => Cardinality(OrdersOn(today)' \cap Gap) < GapMax
      BY <1>1, <2>2, <2>3, <3>1, ParameterAssumption
    <3> QED BY <3>2, <3>3
  <2> QED BY <2>2, <2>4, <2>5 DEF LimitInv
<1> QED BY <1>3, <1>4, <1>5 DEF BudgetInv

\* The loop starts from the ledger's own risk and the day's own projection.
LEMMA PermitBudget ==
  ASSUME DispatchInv, BudgetInv, PermitEntries
  PROVE  BudgetInv'
<1>1. /\ pc' = "loop" /\ pending = {} /\ atRisk' = Total(groups) /\ seen' = CountedOn(today)
      /\ UNCHANGED <<view, pending, groups, dayOf, order, today>>
  BY DEF PermitEntries, EntryAuthority, durable
<1>2. CountedOn(today) \subseteq view.reserved
  BY DEF CountedOn, Counted
<1>3. FinitelyMany' /\ ReservedIsKnown'
  <2>1. KnownKept /\ OwnedKept /\ SeenKept
    BY <1>1, <1>2 DEF KnownKept, OwnedKept, SeenKept
  <2> QED BY <1>1, <2>1, KeptFinite
<1>4. AdmittedToday' /\ ExposureInv'
  BY <1>1 DEF AdmittedToday, Admitting, ExposureInv, BudgetInv, CountedOn
<1>5. ASSUME ~SyncFaults PROVE AtRiskInv'
  <2>1. pending \cup groups = groups
    BY <1>1
  <2> QED BY <1>1, <1>5, <2>1 DEF AtRiskInv, BudgetInv
<1>6. ASSUME ~SyncFaults PROVE LimitInv'
  <2>1. OrdersOn(today)' = OrdersOn(today) /\ OrdersOn(today) \subseteq CountedOn(today)
    BY <1>1, OrdersCounted DEF OrdersOn
  <2>2. DailyLimitsHold'
    BY <1>1, <1>6 DEF BudgetInv, LimitInv, DailyLimitsHold, FireOncePerDay, GapLimitPerDay, OrdersOn
  <2> QED BY <1>1, <2>1, <2>2 DEF LimitInv
<1> QED BY <1>3, <1>4, <1>5, <1>6 DEF BudgetInv

\* Refreshing the projection loses no order of the day.
LEMMA OverBudgetBudget ==
  ASSUME DispatchInv, BudgetInv, NEW s \in Submissions, OverBudget(s)
  PROVE  BudgetInv'
<1>1. /\ pc = "loop" /\ seen' = CountedOn(today)
      /\ UNCHANGED <<view, pending, groups, dayOf, order, today, pc, cur, atRisk>>
  BY DEF OverBudget, Candidate, durable
<1>2. CountedOn(today) \subseteq view.reserved
  BY DEF CountedOn, Counted
<1>3. FinitelyMany' /\ ReservedIsKnown'
  <2>1. KnownKept /\ OwnedKept /\ SeenKept
    BY <1>1, <1>2 DEF KnownKept, OwnedKept, SeenKept
  <2> QED BY <1>1, <2>1, KeptFinite
<1>4. AdmittedToday' /\ ExposureInv'
  BY <1>1 DEF AdmittedToday, Admitting, ExposureInv, BudgetInv, CountedOn
<1>5. ASSUME ~SyncFaults PROVE AtRiskInv'
  BY <1>1, <1>5 DEF AtRiskInv, BudgetInv
<1>6. ASSUME ~SyncFaults PROVE LimitInv'
  <2>1. OrdersOn(today)' = OrdersOn(today) /\ OrdersOn(today) \subseteq CountedOn(today)
    BY <1>1, OrdersCounted DEF OrdersOn
  <2>2. DailyLimitsHold'
    BY <1>1, <1>6 DEF BudgetInv, LimitInv, DailyLimitsHold, FireOncePerDay, GapLimitPerDay, OrdersOn
  <2> QED BY <1>1, <2>1, <2>2 DEF LimitInv
<1> QED BY <1>3, <1>4, <1>5, <1>6 DEF BudgetInv

\* What is admitted fits both budgets and has no rival of the day: none of
\* them counts it yet, for the journal has never heard of it.
LEMMA AdmitBudget ==
  ASSUME DispatchInv, BudgetInv, NEW s \in Submissions, Admit(s)
  PROVE  BudgetInv'
<1>1. /\ pc = "loop" /\ pc' = "hold" /\ cur' = s /\ view.state[s] = "ABSENT"
      /\ dayOf' = [dayOf EXCEPT ![s] = today] /\ seen' = CountedOn(today)
      /\ UNCHANGED <<view, pending, groups, order, today, atRisk>>
  BY DEF Admit, Candidate
<1>2. /\ atRisk + Cost[s] <= AtRiskCap
      /\ Total(CountedOn(today)) + Cost[s] <= ExposureCap
  BY DEF Admit, Fits
<1>3. /\ dayOf \in [Submissions -> 0..MaxDay] /\ today \in 0..MaxDay
      /\ dayOf'[s] = today /\ \A t \in Submissions \ {s} : dayOf'[t] = dayOf[t]
      /\ view.reserved \subseteq Submissions /\ Cost[s] \in Nat
  BY <1>1, ParameterAssumption DEF DispatchInv, TypeOK, View
<1>4. s \notin view.reserved /\ order[s] = "none"
  BY <1>1 DEF BudgetInv, ReservedIsKnown, DispatchInv, OrderIsReserved
<1>5. CountedKept /\ OrderKept
  BY <1>1, <1>3, <1>4 DEF CountedKept, OrderKept, Counted
<1>6. FinitelyMany' /\ ReservedIsKnown'
  <2>1. KnownKept /\ OwnedKept /\ SeenKept
    BY <1>1 DEF KnownKept, OwnedKept, SeenKept, CountedOn, Counted
  <2> QED BY <1>1, <2>1, KeptFinite
<1>7. AdmittedToday'
  BY <1>1, <1>3 DEF AdmittedToday
<1>8. ExposureInv'
  <2>1. \A d \in 0..MaxDay : /\ Total(CountedOn(d)') <= ExposureCap
                             /\ Total(CountedOn(d)') <= Total(CountedOn(d))
                             /\ Total(CountedOn(d)') \in Nat /\ Total(CountedOn(d)) \in Nat
    BY <1>5, KeptExposure
  <2>2. CountedOn(today)' = {t \in Counted(view') : dayOf'[t] = today'}
    BY DEF CountedOn
  <2>3. Total(CountedOn(today)') <= Total(CountedOn(today)) /\ Total(CountedOn(today)') \in Nat
        /\ Total(CountedOn(today)) \in Nat
    <3>1. \A d \in 0..MaxDay : {t \in Counted(view') : dayOf'[t] = d} = CountedOn(d)'
      BY DEF CountedOn
    <3> QED BY <1>1, <1>3, <2>1, <2>2, <3>1
  <2>4. Total(CountedOn(today)') + Cost[cur'] <= ExposureCap
    BY <1>1, <1>2, <1>3, <2>3, ParameterAssumption
  <2> QED BY <2>1, <2>4 DEF ExposureInv
<1>9. ASSUME ~SyncFaults PROVE AtRiskInv'
  BY <1>1, <1>2, <1>9 DEF BudgetInv, AtRiskInv
<1>10. ASSUME ~SyncFaults PROVE LimitInv'
  <2>1. LimitInv
    BY <1>10 DEF BudgetInv
  <2>2. DailyLimitsHold' /\ OrdersOn(today)' \subseteq OrdersOn(today)
        /\ Cardinality(OrdersOn(today)' \cap Gap) \in Nat
        /\ Cardinality(OrdersOn(today)' \cap Gap) <= Cardinality(OrdersOn(today) \cap Gap)
    <3>1. DailyLimitsHold' /\ \A d : /\ OrdersOn(d)' \subseteq OrdersOn(d)
             /\ Cardinality(OrdersOn(d)' \cap Gap) \in Nat
             /\ Cardinality(OrdersOn(d)' \cap Gap) <= Cardinality(OrdersOn(d) \cap Gap)
      BY <1>5, <2>1, KeptLimits DEF LimitInv
    <3> QED BY <1>1, <3>1
  <2>3. OrdersOn(today) \subseteq seen /\ OrdersOn(today) \subseteq CountedOn(today)
    BY <1>1, <2>1, OrdersCounted DEF LimitInv
  <2>4. FireKey[s] # NoKey => \A t \in OrdersOn(today)' : t # s => FireKey[t] # FireKey[s]
    <3>1. ~FiredAlready(s)
      BY DEF Admit, Candidate
    <3> QED BY <2>2, <2>3, <3>1 DEF FiredAlready
  <2>5. s \in Gap => Cardinality(OrdersOn(today)' \cap Gap) < GapMax
    <3> SUFFICES ASSUME s \in Gap PROVE Cardinality(OrdersOn(today)' \cap Gap) < GapMax
      OBVIOUS
    <3>1. ~(Cardinality(seen \cap Gap) >= GapMax)
      BY DEF Admit, Candidate, GapSpent
    <3>2. /\ Cardinality(OrdersOn(today) \cap Gap) \in Nat /\ Cardinality(seen \cap Gap) \in Nat
          /\ Cardinality(OrdersOn(today) \cap Gap) <= Cardinality(seen \cap Gap)
      <4>1. IsFiniteSet(seen \cap Gap)
        BY FS_Subset DEF BudgetInv, FinitelyMany
      <4>2. OrdersOn(today) \cap Gap \in SUBSET (seen \cap Gap)
        BY <2>3
      <4> QED BY <4>1, <4>2, FS_Subset, FS_CardinalityType
    <3> QED BY <2>2, <3>1, <3>2, ParameterAssumption
  <2> QED BY <1>1, <2>2, <2>3, <2>4, <2>5 DEF LimitInv
<1> QED BY <1>6, <1>7, <1>8, <1>9, <1>10 DEF BudgetInv
\* Nothing is reserved, sent or owned to begin with.
LEMMA InitBudget == Init => BudgetInv
<1> SUFFICES ASSUME Init PROVE BudgetInv
  OBVIOUS
<1>1. Total({}) = 0
  <2>1. \A S : Total(S) = SumFunctionOnSet(Cost, S)
    BY DEF Total, MapThenSumSet, SumFunctionOnSet, FoldFunctionOnSet
  <2> QED BY <2>1, SumEmpty
<1>2. view.reserved = {} /\ pending = {} /\ groups = {} /\ seen = {} /\ pc = "idle"
      /\ \A s \in Submissions : order[s] = "none"
  BY DEF Init, EmptyView
<1>3. FinitelyMany /\ ReservedIsKnown /\ AdmittedToday
  BY <1>2, FS_EmptySet DEF FinitelyMany, ReservedIsKnown, AdmittedToday, Admitting
<1>4. ExposureInv
  <2>1. \A d \in 0..MaxDay : CountedOn(d) = {}
    BY <1>2 DEF CountedOn, Counted
  <2> QED BY <1>1, <1>2, <2>1, ParameterAssumption DEF ExposureInv
<1>5. AtRiskInv
  <2>1. pending \cup groups = {}
    BY <1>2
  <2> QED BY <1>1, <1>2, <2>1, ParameterAssumption DEF AtRiskInv
<1>6. LimitInv
  <2>1. \A d : OrdersOn(d) = {}
    BY <1>2 DEF OrdersOn
  <2>2. GapLimitPerDay
    <3>1. Cardinality({}) = 0
      BY FS_EmptySet
    <3>2. \A d : OrdersOn(d) \cap Gap = {}
      BY <2>1
    <3> QED BY <3>1, <3>2, ParameterAssumption DEF GapLimitPerDay
  <2>3. FireOncePerDay
    BY <1>2 DEF FireOncePerDay
  <2> QED BY <1>2, <2>2, <2>3 DEF LimitInv, DailyLimitsHold
<1> QED BY <1>3, <1>4, <1>5, <1>6 DEF BudgetInv

-----------------------------------------------------------------------------
(* dispatch_entry.                                                         *)

\* The at-risk budget while the attempt moves on and nothing is owned anew.
LEMMA AtRiskMoves ==
  ASSUME AtRiskInv, UNCHANGED <<pending, groups, atRisk>>,
         \/ pc' = "loop" /\ pc \in {"hold", "mark"}
         \/ cur' = cur /\ \/ pc = "hold" /\ pc' = "mark"
                          \/ pc = "mark" /\ pc' = "record"
                          \/ pc = "submit" /\ pc' = "answer"
                          \/ pc = "answer" /\ pc' = "commit"
  PROVE  AtRiskInv'
BY DEF AtRiskInv

\* The daily limits while the attempt moves on and no order is sent.
LEMMA LimitMoves ==
  ASSUME LimitInv, UNCHANGED <<order, dayOf, today, seen>>,
         \/ pc' = "loop" /\ pc \in {"hold", "mark"}
         \/ cur' = cur /\ \/ pc = "hold" /\ pc' = "mark"
                          \/ pc = "mark" /\ pc' = "record"
                          \/ pc = "record" /\ pc' = "submit"
                          \/ pc = "answer" /\ pc' = "commit"
  PROVE  LimitInv'
<1>1. DailyLimitsHold'
  BY DEF LimitInv, DailyLimitsHold, FireOncePerDay, GapLimitPerDay, OrdersOn
<1>2. OrdersOn(today)' = OrdersOn(today)
  BY DEF OrdersOn
<1> QED BY <1>1, <1>2 DEF LimitInv

\* A HELD line counts the attempt: the room kept for it is used up.
LEMMA HeldBudget ==
  ASSUME DispatchInv, BudgetInv, pc = "hold",
         view'.reserved = view.reserved \cup {cur},
         view'.state[cur] = "HELD",
         \A t \in Submissions \ {cur} : view'.state[t] = view.state[t],
         UNCHANGED <<pending, groups, dayOf, today, seen>>
  PROVE  /\ FinitelyMany' /\ ReservedIsKnown'
         /\ \A d \in 0..MaxDay : Total(CountedOn(d)') <= ExposureCap
<1>1. /\ cur \in Submissions /\ view.state[cur] = "ABSENT" /\ dayOf[cur] = today
      /\ view.reserved \subseteq Submissions /\ today \in 0..MaxDay
  BY DEF DispatchInv, Position, TypeOK, View, BudgetInv, AdmittedToday, Admitting
<1>2. cur \notin view.reserved /\ IsFiniteSet(view.reserved)
  BY <1>1 DEF BudgetInv, ReservedIsKnown, FinitelyMany
<1>3. FinitelyMany'
  <2>1. IsFiniteSet(view'.reserved)
    BY <1>2, FS_AddElement
  <2> QED BY <2>1 DEF FinitelyMany, BudgetInv
<1>4. ReservedIsKnown'
  BY <1>1 DEF ReservedIsKnown, BudgetInv
<1>5. ASSUME NEW d \in 0..MaxDay PROVE Total(CountedOn(d)') <= ExposureCap
  <2>1. /\ CountedOn(d) \in SUBSET Submissions /\ IsFiniteSet(CountedOn(d))
        /\ cur \notin CountedOn(d)
    <3>1. CountedOn(d) \in SUBSET view.reserved
      BY DEF CountedOn, Counted
    <3> QED BY <1>1, <1>2, <3>1, FS_Subset
  <2>2. CASE d = today
    <3>1. CountedOn(d)' = CountedOn(d) \cup {cur}
      <4>1. Counted(view') = Counted(view) \cup {cur}
        BY <1>1, <1>2 DEF Counted
      <4> QED BY <1>1, <2>2, <4>1 DEF CountedOn
    <3>2. Total(CountedOn(d)') = Total(CountedOn(d)) + Cost[cur]
      BY <1>1, <2>1, <3>1, TotalFacts
    <3>3. Total(CountedOn(today)) + Cost[cur] <= ExposureCap
      BY DEF BudgetInv, ExposureInv
    <3> QED BY <2>2, <3>2, <3>3
  <2>3. CASE d # today
    <3>1. CountedOn(d)' = CountedOn(d)
      <4>1. Counted(view') = Counted(view) \cup {cur}
        BY <1>1, <1>2 DEF Counted
      <4> QED BY <1>1, <2>3, <4>1 DEF CountedOn
    <3> QED BY <3>1 DEF BudgetInv, ExposureInv
  <2> QED BY <2>2, <2>3
<1> QED BY <1>3, <1>4, <1>5

\* hold: the room kept becomes a reservation.
LEMMA HoldBudget == DispatchInv /\ BudgetInv /\ Hold => BudgetInv'
<1> SUFFICES ASSUME DispatchInv, BudgetInv, Hold PROVE BudgetInv'
  OBVIOUS
<1>1. /\ pc = "hold" /\ pc' = "mark" /\ EventAt = "HELD"
      /\ UNCHANGED <<pending, groups, closed, dayOf, order, today, cur, todo, atRisk, seen>>
  BY DEF Hold, EventAt
<1>2. /\ view'.state[cur] = "HELD" /\ view'.reserved = view.reserved \cup {cur}
      /\ \A t \in Submissions \ {cur} : view'.state[t] = view.state[t]
  BY <1>1, AppendPermitted DEF Hold
<1>3. /\ FinitelyMany' /\ ReservedIsKnown'
      /\ \A d \in 0..MaxDay : Total(CountedOn(d)') <= ExposureCap
  BY <1>1, <1>2, HeldBudget
<1>4. AdmittedToday' /\ ExposureInv'
  BY <1>1, <1>3 DEF BudgetInv, AdmittedToday, Admitting, ExposureInv
<1>5. ASSUME ~SyncFaults PROVE AtRiskInv' /\ LimitInv'
  BY <1>1, <1>5, AtRiskMoves, LimitMoves DEF BudgetInv
<1> QED BY <1>3, <1>4, <1>5 DEF BudgetInv

\* What a harmless write that sends nothing keeps, with an attempt in hand.
LEMMA HarmlessBudget ==
  ASSUME DispatchInv, BudgetInv, Harmless(view'), UNCHANGED <<dayOf, today>>,
         pc' # "hold", pc' \in Admitting => cur' = cur /\ pc \in Admitting,
         OwnedKept, SeenKept
  PROVE  FinitelyMany' /\ ReservedIsKnown' /\ AdmittedToday' /\ ExposureInv'
<1>1. CountedKept /\ KnownKept
  BY HarmlessKept
<1>2. FinitelyMany' /\ ReservedIsKnown'
  BY <1>1, KeptFinite DEF CountedKept
<1>3. AdmittedToday'
  BY DEF BudgetInv, AdmittedToday
<1>4. ExposureInv'
  BY <1>1, KeptExposure DEF ExposureInv
<1> QED BY <1>2, <1>3, <1>4

\* mark_dispatching counts the same reservations.
LEMMA MarkBudget == DispatchInv /\ BudgetInv /\ MarkDispatching => BudgetInv'
<1> SUFFICES ASSUME DispatchInv, BudgetInv, MarkDispatching PROVE BudgetInv'
  OBVIOUS
<1>1. /\ pc = "mark" /\ pc' = "record"
      /\ UNCHANGED <<pending, groups, closed, dayOf, order, today, cur, todo, atRisk, seen>>
  BY DEF MarkDispatching
<1>2. Harmless(view')
  <2>1. cur \in Submissions
    BY <1>1 DEF DispatchInv, Position
  <2>2. "DISPATCHING" \in States \ {"HELD"} /\ "DISPATCHING" \in TRANSITIONS[view.state[cur]]
    BY DEF MarkDispatching, Permits, States
  <2> QED BY <2>1, <2>2, WholeKept DEF MarkDispatching
<1>3. FinitelyMany' /\ ReservedIsKnown' /\ AdmittedToday' /\ ExposureInv'
  BY <1>1, <1>2, HarmlessBudget DEF OwnedKept, SeenKept, Admitting
<1>4. ASSUME ~SyncFaults PROVE AtRiskInv' /\ LimitInv'
  BY <1>1, <1>4, AtRiskMoves, LimitMoves DEF BudgetInv
<1> QED BY <1>3, <1>4 DEF BudgetInv

\* The answer changes nothing on this side.
LEMMA AnsweredBudget == DispatchInv /\ BudgetInv /\ Answered => BudgetInv'
<1> SUFFICES ASSUME DispatchInv, BudgetInv, Answered PROVE BudgetInv'
  OBVIOUS
<1>1. /\ pc = "answer" /\ pc' = "commit"
      /\ UNCHANGED <<view, pending, groups, closed, dayOf, order, today, cur, todo, atRisk, seen>>
  BY DEF Answered, durable
<1>2. Harmless(view')
  BY <1>1 DEF Harmless, DispatchInv, TypeOK
<1>3. FinitelyMany' /\ ReservedIsKnown' /\ AdmittedToday' /\ ExposureInv'
  BY <1>1, <1>2, HarmlessBudget DEF OwnedKept, SeenKept, Admitting
<1>4. ASSUME ~SyncFaults PROVE AtRiskInv' /\ LimitInv'
  BY <1>1, <1>4, AtRiskMoves, LimitMoves DEF BudgetInv
<1> QED BY <1>3, <1>4 DEF BudgetInv

\* record: the ledger owns the attempt, at the cost there was room for.
LEMMA RecordBudget == DispatchInv /\ BudgetInv /\ RecordPending => BudgetInv'
<1> SUFFICES ASSUME DispatchInv, BudgetInv, RecordPending PROVE BudgetInv'
  OBVIOUS
<1>1. /\ pc = "record" /\ pc' = "submit" /\ pending' = pending \cup {cur}
      /\ UNCHANGED <<view, groups, closed, dayOf, order, today, cur, todo, atRisk, seen>>
  BY DEF RecordPending
<1>2. /\ cur \in Submissions /\ cur \notin pending \cup groups
      /\ pending \cup groups \in SUBSET Submissions
  BY <1>1 DEF DispatchInv, Position, TypeOK
<1>3. FinitelyMany' /\ ReservedIsKnown'
  BY <1>1, FS_AddElement DEF BudgetInv, FinitelyMany, ReservedIsKnown
<1>4. AdmittedToday' /\ ExposureInv'
  BY <1>1 DEF BudgetInv, AdmittedToday, Admitting, ExposureInv, CountedOn
<1>5. ASSUME ~SyncFaults PROVE AtRiskInv'
  <2>1. atRisk = Total(pending \cup groups) /\ atRisk + Cost[cur] <= AtRiskCap
    BY <1>1, <1>5 DEF BudgetInv, AtRiskInv
  <2>2. IsFiniteSet(pending \cup groups)
    BY FS_Union DEF BudgetInv, FinitelyMany
  <2>3. Total((pending \cup groups) \cup {cur}) = Total(pending \cup groups) + Cost[cur]
    BY <1>2, <2>2, TotalFacts
  <2>4. pending' \cup groups' = (pending \cup groups) \cup {cur}
    BY <1>1
  <2>5. Total(pending' \cup groups') = atRisk + Cost[cur]
    BY <2>1, <2>3, <2>4
  <2> QED BY <1>1, <2>1, <2>5 DEF AtRiskInv
<1>6. ASSUME ~SyncFaults PROVE LimitInv'
  BY <1>1, <1>6, LimitMoves DEF BudgetInv
<1> QED BY <1>3, <1>4, <1>5, <1>6 DEF BudgetInv
\* The order is sent: it has no rival of its day, and leaves the gap limit
\* where it was or takes the place that was left.
LEMMA SubmitBudget == DispatchInv /\ BudgetInv /\ Submit => BudgetInv'
<1> SUFFICES ASSUME DispatchInv, BudgetInv, Submit PROVE BudgetInv'
  OBVIOUS
<1>1. /\ pc = "submit" /\ pc' = "answer" /\ order' = [order EXCEPT ![cur] = "transit"]
      /\ UNCHANGED <<view, pending, groups, closed, dayOf, today, cur, todo, atRisk, seen>>
  BY DEF Submit, durable
<1>2. /\ cur \in Submissions /\ order \in [Submissions -> OrderStates] /\ dayOf[cur] = today
  BY <1>1 DEF DispatchInv, Position, TypeOK, BudgetInv, AdmittedToday, Admitting
<1>3. FinitelyMany' /\ ReservedIsKnown' /\ AdmittedToday' /\ ExposureInv'
  BY <1>1 DEF BudgetInv, FinitelyMany, ReservedIsKnown, AdmittedToday, Admitting, ExposureInv, CountedOn
<1>4. ASSUME ~SyncFaults PROVE AtRiskInv'
  BY <1>1, <1>4, AtRiskMoves DEF BudgetInv
<1>5. ASSUME ~SyncFaults PROVE LimitInv'
  <2>1. LimitInv
    BY <1>5 DEF BudgetInv
  <2>2. \A t \in Submissions \ {cur} : order'[t] = order[t]
    BY <1>1, <1>2
  <2>3. FireOncePerDay'
    <3> SUFFICES ASSUME NEW s \in Submissions, NEW t \in Submissions,
                        order'[s] # "none", order'[t] # "none", dayOf[s] = dayOf[t],
                        FireKey[s] # NoKey, FireKey[s] = FireKey[t], s # t
                 PROVE  FALSE
      BY <1>1 DEF FireOncePerDay
    <3>1. CASE s # cur /\ t # cur
      BY <2>1, <2>2, <3>1 DEF LimitInv, DailyLimitsHold, FireOncePerDay
    <3>2. \A u \in Submissions : (u # cur /\ order'[u] # "none" /\ dayOf[u] = dayOf[cur])
             => u \in OrdersOn(today)
      BY <1>2, <2>2 DEF OrdersOn
    <3>3. FireKey[cur] # NoKey =>
               \A u \in OrdersOn(today) : u # cur => FireKey[u] # FireKey[cur]
      BY <1>1, <2>1 DEF LimitInv
    <3> QED BY <3>1, <3>2, <3>3
  <2>4. ASSUME NEW d \in 0..MaxDay PROVE Cardinality(OrdersOn(d)' \cap Gap) <= GapMax
    <3>1. Cardinality(OrdersOn(d) \cap Gap) <= GapMax
      BY <2>1 DEF LimitInv, DailyLimitsHold, GapLimitPerDay
    <3>2. CASE d = today /\ cur \in Gap
      <4>1. OrdersOn(d)' \cap Gap = (OrdersOn(d) \cap Gap) \cup {cur}
        BY <1>1, <1>2, <2>2, <3>2 DEF OrdersOn
      <4>2. IsFiniteSet(OrdersOn(d) \cap Gap) /\ Cardinality(OrdersOn(d) \cap Gap) \in Nat
        BY OrdersCounted
      <4>3. Cardinality(OrdersOn(d) \cap Gap) < GapMax
        BY <1>1, <2>1, <3>2 DEF LimitInv
      <4>4. Cardinality((OrdersOn(d) \cap Gap) \cup {cur}) <= Cardinality(OrdersOn(d) \cap Gap) + 1
        BY <4>2, FS_AddElement
      <4>5. Cardinality((OrdersOn(d) \cap Gap) \cup {cur}) \in Nat
        BY <4>2, FS_AddElement, FS_CardinalityType
      <4>6. Cardinality((OrdersOn(d) \cap Gap) \cup {cur}) <= GapMax
        <5>1. \A i, j \in Int : i <= j + 1 /\ j < GapMax => i <= GapMax
          BY ParameterAssumption
        <5> QED BY <4>2, <4>3, <4>4, <4>5, <5>1
      <4> QED BY <4>1, <4>6
    <3>3. CASE ~(d = today /\ cur \in Gap)
      <4>1. OrdersOn(d)' \cap Gap = OrdersOn(d) \cap Gap
        BY <1>1, <1>2, <2>2, <3>3 DEF OrdersOn
      <4> QED BY <3>1, <4>1
    <3> QED BY <3>2, <3>3
  <2>5. GapLimitPerDay'
    BY <2>4 DEF GapLimitPerDay
  <2> QED BY <1>1, <2>3, <2>5 DEF LimitInv, DailyLimitsHold
<1> QED BY <1>3, <1>4, <1>5 DEF BudgetInv

\* commit: the cycle's own count catches up with the ledger's, and the
\* projection it reads has every order of the day.
LEMMA CommitBudget ==
  ASSUME DispatchInv, BudgetInv, NEW f \in Facts, Commit(f)
  PROVE  BudgetInv'
<1>1. /\ pc = "commit" /\ pc' = "loop" /\ atRisk' = atRisk + Cost[cur]
      /\ seen' = {s \in Counted(view') : dayOf[s] = today}
      /\ UNCHANGED <<pending, groups, closed, dayOf, order, today, todo>>
  BY DEF Commit
<1>2. Harmless(view')
  <2>1. cur \in Submissions
    BY <1>1 DEF DispatchInv, Position
  <2>2. "COMMITTED" \in States \ {"HELD"} /\ "COMMITTED" \in TRANSITIONS[view.state[cur]]
    BY DEF Commit, Permits, States
  <2> QED BY <2>1, <2>2, WholeKept DEF Commit
<1>3. FinitelyMany' /\ ReservedIsKnown' /\ AdmittedToday' /\ ExposureInv'
  <2>1. seen' \subseteq view'.reserved
    BY <1>1 DEF Counted
  <2> QED BY <1>1, <1>2, <2>1, HarmlessBudget DEF OwnedKept, SeenKept, Admitting
<1>4. ASSUME ~SyncFaults PROVE AtRiskInv'
  <2>1. /\ Total(pending \cup groups) = atRisk + Cost[cur]
        /\ Total(pending \cup groups) <= AtRiskCap
    BY <1>1, <1>4 DEF BudgetInv, AtRiskInv
  <2> QED BY <1>1, <2>1 DEF AtRiskInv
<1>5. ASSUME ~SyncFaults PROVE LimitInv'
  <2>1. DailyLimitsHold'
    BY <1>1, <1>5 DEF BudgetInv, LimitInv, DailyLimitsHold, FireOncePerDay, GapLimitPerDay, OrdersOn
  <2>2. OrderIsReserved'
    BY CommitStep DEF DispatchInv
  <2>3. OrdersOn(today)' \subseteq seen'
    BY <1>1, <2>2 DEF OrdersOn, OrderIsReserved, Counted
  <2> QED BY <1>1, <2>1, <2>3 DEF LimitInv
<1> QED BY <1>3, <1>4, <1>5 DEF BudgetInv

\* An append that did not complete: back to the loop with nothing sent, unless
\* the attempt is in doubt, and then the cycle is over.
LEMMA DamagedAppend ==
  ASSUME DispatchInv, BudgetInv, AppendFails, view' \in Damaged
  PROVE  BudgetInv'
<1>1. /\ pc \in {"hold", "mark", "commit"}
      /\ UNCHANGED <<pending, groups, closed, dayOf, order, today>>
      /\ IF view'.state[cur] = "DISPATCHING" THEN Over
         ELSE pc' = "loop" /\ cur' = Nobody /\ UNCHANGED <<todo, atRisk, seen>>
  BY DEF AppendFails
<1>2. CASE view'.state[cur] = "DISPATCHING"
  BY <1>1, <1>2, CrashBudget
<1>3. CASE view'.state[cur] # "DISPATCHING"
  <2>1. pc' = "loop" /\ UNCHANGED <<atRisk, seen>> /\ Harmless(view')
    BY <1>1, <1>3, DamageKept
  <2>2. pc \in {"hold", "mark"}
    <3> SUFFICES ASSUME pc = "commit" PROVE FALSE
      BY <1>1
    <3>1. cur \in Submissions /\ view.state[cur] = "DISPATCHING"
      BY DEF DispatchInv, Position, Unresolved
    <3>2. PICK s \in Appending : view' \in Incomplete(s)
      BY <1>3, <3>1 DEF Damaged
    <3>3. s = cur /\ TypeOK /\ TornIsUnresolved
      BY <3>2 DEF Appending, DispatchInv
    <3>4. view'.state[cur] \in {view.state[cur], "DISPATCHING"}
      BY <3>1, <3>2, <3>3, IncompleteSound
    <3> QED BY <1>3, <3>1, <3>4
  <2>3. FinitelyMany' /\ ReservedIsKnown' /\ AdmittedToday' /\ ExposureInv'
    BY <1>1, <2>1, HarmlessBudget DEF OwnedKept, SeenKept, Admitting
  <2>4. ASSUME ~SyncFaults PROVE AtRiskInv' /\ LimitInv'
    BY <1>1, <2>1, <2>2, <2>4, AtRiskMoves, LimitMoves DEF BudgetInv
  <2> QED BY <2>3, <2>4 DEF BudgetInv
<1> QED BY <1>2, <1>3

\* A line that is on disk though its sync failed still counts: the daily
\* exposure is safe even then.
LEMMA UnsyncedAppend ==
  ASSUME DispatchInv, BudgetInv, AppendFails, view' \in Unsynced
  PROVE  BudgetInv'
<1>1. /\ pc \in {"hold", "mark", "commit"}
      /\ UNCHANGED <<pending, groups, closed, dayOf, order, today>>
      /\ IF view'.state[cur] = "DISPATCHING" THEN Over
         ELSE pc' = "loop" /\ cur' = Nobody /\ UNCHANGED <<todo, atRisk, seen>>
  BY DEF AppendFails
<1>2. SyncFaults /\ \E s \in Appending : view' = Apply(view, LineOf(EventAt, s, FactAt))
  BY DEF Unsynced
<1>3. /\ Permits(view, cur, EventAt) /\ view' = Apply(view, LineOf(EventAt, cur, FactAt))
      /\ cur \in Submissions /\ FactAt \in Facts \cup {NoFact}
  BY <1>1, <1>2, ParameterAssumption DEF Appending, DispatchInv, Position, FactAt
<1>4. /\ view'.state[cur] = EventAt
      /\ \A t \in Submissions \ {cur} : view'.state[t] = view.state[t]
      /\ EventAt = "HELD" => view'.reserved = view.reserved \cup {cur}
      /\ EventAt \in TRANSITIONS[view.state[cur]]
  BY <1>1, <1>3, AppendPermitted
<1>5. pc' \notin Admitting /\ (seen' = seen \/ seen' = {})
  BY <1>1 DEF Over, Admitting
<1>6. FinitelyMany' /\ ReservedIsKnown' /\ AdmittedToday' /\ ExposureInv'
  <2>1. CASE pc = "hold"
    <3>1. EventAt = "HELD" /\ seen' = seen
      BY <1>1, <1>4, <2>1 DEF EventAt
    <3>2. /\ FinitelyMany' /\ ReservedIsKnown'
          /\ \A d \in 0..MaxDay : Total(CountedOn(d)') <= ExposureCap
      BY <1>1, <1>4, <2>1, <3>1, HeldBudget
    <3> QED BY <1>5, <3>2 DEF AdmittedToday, ExposureInv, Admitting
  <2>2. CASE pc \in {"mark", "commit"}
    <3>1. EventAt \in States \ {"HELD"}
      BY <2>2 DEF EventAt, States
    <3>2. Harmless(view')
      BY <1>3, <1>4, <3>1, WholeKept
    <3> QED BY <1>1, <1>5, <3>2, HarmlessBudget DEF OwnedKept, SeenKept, Admitting
  <2> QED BY <1>1, <2>1, <2>2
<1> QED BY <1>2, <1>6 DEF BudgetInv

-----------------------------------------------------------------------------
\* Every step keeps the budgets.
LEMMA StepBudgetInv == DispatchInv /\ BudgetInv /\ [Next]_vars => BudgetInv'
<1> SUFFICES ASSUME DispatchInv, BudgetInv, [Next]_vars PROVE BudgetInv'
  OBVIOUS
<1>1. CASE Begin
  BY <1>1, QuietSteps
<1>2. CASE Reconcile
  BY <1>2, LookupBudget, QuietSteps DEF Reconcile
<1>3. CASE Exits
  BY <1>3, QuietSteps DEF Exits
<1>4. CASE Admission
  BY <1>4, PermitBudget, QuietSteps, AdmitBudget, OverBudgetBudget DEF Admission
<1>5. CASE Dispatch
  <2>1. CASE AppendFails
    BY <2>1, DamagedAppend, UnsyncedAppend DEF AppendFails
  <2> QED BY <1>5, <2>1, HoldBudget, MarkBudget, RecordBudget, SubmitBudget, AnsweredBudget,
             CommitBudget, QuietSteps DEF Dispatch
<1>6. CASE World
  BY <1>6, CrashBudget, BrokerBudget, NextDayBudget DEF World, Crash
<1>7. CASE UNCHANGED vars
  <2>1. UNCHANGED <<view, pending, groups, closed, dayOf, order, today, pc, cur, todo, atRisk, seen>>
    BY <1>7 DEF vars, durable, local
  <2>2. FinitelyMany' /\ ReservedIsKnown' /\ AdmittedToday' /\ ExposureInv'
    BY <2>1 DEF BudgetInv, FinitelyMany, ReservedIsKnown, AdmittedToday, Admitting, ExposureInv, CountedOn
  <2>3. ASSUME ~SyncFaults PROVE AtRiskInv' /\ LimitInv'
    BY <2>1, <2>3 DEF BudgetInv, AtRiskInv, LimitInv, DailyLimitsHold, FireOncePerDay,
       GapLimitPerDay, OrdersOn
  <2> QED BY <2>2, <2>3 DEF BudgetInv
<1> QED BY <1>1, <1>2, <1>3, <1>4, <1>5, <1>6, <1>7 DEF Next

\* The two invariants hold together in every reachable state.
LEMMA BudgetInvariant == Spec => [](DispatchInv /\ BudgetInv)
BY InitDispatchInv, StepDispatchInv, InitBudget, StepBudgetInv, PTL DEF Spec

\* The orders sent on any trading date cost no more than the daily exposure
\* cap, whatever crashes, tears or fails to sync: the reservation precedes the
\* order and is counted by every later cycle of the day (submission_wal.py,
\* risk_for).
THEOREM DailyExposure == Spec => []DailyExposureWithinCap
<1>1. DispatchInv /\ BudgetInv => DailyExposureWithinCap
  <2> SUFFICES ASSUME DispatchInv, BudgetInv, NEW d \in 0..MaxDay
               PROVE  Total(OrdersOn(d)) <= ExposureCap
    BY DEF DailyExposureWithinCap
  <2>1. OrdersOn(d) \in SUBSET CountedOn(d)
    BY OrdersCounted
  <2>2. CountedOn(d) \in SUBSET Submissions /\ IsFiniteSet(CountedOn(d))
    <3>1. CountedOn(d) \in SUBSET view.reserved /\ view.reserved \subseteq Submissions
      BY DEF CountedOn, Counted, DispatchInv, TypeOK, View
    <3> QED BY <3>1, FS_Subset DEF BudgetInv, FinitelyMany
  <2>3. /\ Total(OrdersOn(d)) \in Nat /\ Total(CountedOn(d)) \in Nat
        /\ Total(OrdersOn(d)) <= Total(CountedOn(d))
    BY <2>1, <2>2, TotalFacts
  <2>4. Total(CountedOn(d)) <= ExposureCap
    BY DEF BudgetInv, ExposureInv
  <2> QED BY <2>3, <2>4, ParameterAssumption
<1> QED BY <1>1, BudgetInvariant, PTL

\* What is open, and what may be, never risks more than the at-risk cap, nor
\* do the orders of a day more than theirs, as long as fsync reports failure
\* only for lines that are not on disk (entry_submission.py, the two budgets).
THEOREM BudgetsAlwaysHold == ~SyncFaults => (Spec => []BudgetsHold)
<1> SUFFICES ASSUME ~SyncFaults PROVE Spec => []BudgetsHold
  OBVIOUS
<1>1. DispatchInv /\ BudgetInv => OpenRiskWithinCap
  <2> SUFFICES ASSUME DispatchInv, BudgetInv PROVE Total(MayCarryRisk \ closed) <= AtRiskCap
    BY DEF OpenRiskWithinCap
  <2>1. MayCarryRisk \ closed \in SUBSET (pending \cup groups)
    BY DEF MayCarryRisk, DispatchInv, OrderIsOwned
  <2>2. pending \cup groups \in SUBSET Submissions /\ IsFiniteSet(pending \cup groups)
    BY FS_Union DEF DispatchInv, TypeOK, BudgetInv, FinitelyMany
  <2>3. /\ Total(MayCarryRisk \ closed) \in Nat /\ Total(pending \cup groups) \in Nat
        /\ Total(MayCarryRisk \ closed) <= Total(pending \cup groups)
    BY <2>1, <2>2, TotalFacts
  <2>4. Total(pending \cup groups) <= AtRiskCap
    BY DEF BudgetInv, AtRiskInv
  <2> QED BY <2>3, <2>4, ParameterAssumption
<1>2. OpenRiskWithinCap /\ DailyExposureWithinCap => BudgetsHold
  BY DEF BudgetsHold
<1> QED BY <1>1, <1>2, BudgetInvariant, DailyExposure, PTL

\* No two orders of one trading date share a once-a-day key and the gap
\* continuation stays within its limit, over every crash and restart and under
\* the same condition (entry_submission.py, fire-once and gap checks).
THEOREM DailyLimitsAlwaysHold == ~SyncFaults => (Spec => []DailyLimitsHold)
<1> SUFFICES ASSUME ~SyncFaults PROVE Spec => []DailyLimitsHold
  OBVIOUS
<1>1. BudgetInv => DailyLimitsHold
  BY DEF BudgetInv, LimitInv
<1> QED BY <1>1, BudgetInvariant, PTL
=============================================================================
