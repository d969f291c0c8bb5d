------------------------------- MODULE TradingDay ------------------------------
(***************************************************************************)
(* One cycle after another over several days (scripts/run_cycle.py): the   *)
(* day's record and its kill switch, the gates, the permit, the choice of  *)
(* candidates and the entries they lead to.  How an entry is journalled    *)
(* and sent is the subject of EntryDispatch, how a structure is closed     *)
(* that of PositionLifecycle: here the journal is the risk it counts for   *)
(* the date and the dispatch in doubt, an entry is a number of legs,       *)
(* pending until the next reconciliation, and a structure may be closed by *)
(* the exits of a cycle.                                                   *)
(***************************************************************************)
EXTENDS Gates, DayState

CONSTANTS Kinds,        \* kinds of structure
          LegCount,     \* legs of a structure of a kind
          LimitOf,      \* most open structures of the engine of a kind
          Proposals,    \* what the engines may propose, good and bad
          MaxProposals, \* max_proposals_per_cycle
          ExposureCap,  \* daily_new_exposure_cap
          Equities,     \* values the account's equity may take
          Good,         \* the facts when nothing is wrong
          Deviations,   \* one fact gone wrong: a field and its value
          FinalDate,    \* session.final_trading_date
          TicksPerDay, MaxTime,   \* bound: the clock, in intervals of 45 minutes
          MaxEdits,     \* bound: edits of the manifest
          MayCrash      \* a cycle may die

ASSUME TradingAssumption ==
  /\ IsFiniteSet(Kinds) /\ Kinds # {}
  /\ LegCount \in [Kinds -> Nat \ {0}] /\ LimitOf \in [Kinds -> Nat \ {0}]
  /\ \A p \in Proposals : p.kind \in Kinds /\ p.loss \in Nat
  /\ MaxProposals \in Nat \ {0} /\ Equities \subseteq Nat
  /\ {"broker", "equity", "ledger", "pendings", "dispatches"} \subseteq DOMAIN Good
  /\ TicksPerDay \in Nat \ {0} /\ {MaxTime, ExposureCap, MaxEdits, FinalDate} \subseteq Nat
  /\ MayCrash \in BOOLEAN

VARIABLES now, equity, manifest,      \* the clock, the account, the policy's version
          dayFile, permit,            \* state/day_state.json, state/entry_permit.json
          journal,                    \* state/submission_wal.jsonl, see below
          pending, filled, ended, open, \* structures of a kind, by what became of their entry
          day, facts, seen, loaded, todo, pc, \* the cycle at work
          owed, tripped, heir, earned \* history, see below

structures == <<pending, filled, ended, open>>
cycle == <<day, facts, seen, loaded, todo>>
files == <<dayFile, permit>>
admissions == <<journal, owed>>
vars  == <<now, equity, manifest, files, structures, cycle, pc, admissions, tripped, heir, earned>>

Today == now \div TicksPerDay
None  == [k \in Kinds |-> 0]
SumOf(f) == FoldFunction(+, 0, f)
Held  == SumOf([k \in Kinds |-> LegCount[k] * (filled[k] + open[k])])
OnBook == SumOf([k \in Kinds |-> LegCount[k] * (pending[k] + filled[k] + open[k])])

\* journal.risk: what the reservations of today count, committed and held.
\* journal.doubt: the dispatch without an outcome, and whether the broker took it.
NoDoubt == [loss |-> 0, date |-> -1, taken |-> FALSE]

\* owed: the losses of the orders of today that the broker took.  tripped:
\* dates on which check_kill answered yes.  heir: for today, whether the last
\* day that was saved before it was killed.  earned: when the gates last came
\* out green, and for which manifest, or -1 once they came out red.
Init == /\ now = 0 /\ equity \in Equities /\ manifest = 1
        /\ dayFile = NoDay /\ permit = NoPermit
        /\ pending = None /\ filled = None /\ ended = None /\ open = None
        /\ day = NoDay /\ facts = Good /\ seen = 0 /\ loaded = 1 /\ todo = <<>> /\ pc = "idle"
        /\ journal = [risk |-> 0, doubt |-> NoDoubt] /\ owed = 0 /\ tripped = {} /\ heir = FALSE /\ earned = [at |-> -1, sha |-> 0]

-----------------------------------------------------------------------------
(* The world around a cycle.                                               *)

\* Day orders that did not fill end with their day.
Tick == /\ pc = "idle" /\ now < MaxTime
        /\ now' = now + 1
        /\ IF (now + 1) \div TicksPerDay = Today
           THEN UNCHANGED <<structures, heir, admissions>>
           ELSE /\ ended' = [k \in Kinds |-> ended[k] + pending[k]] /\ pending' = None
                /\ heir' = dayFile.killed
                /\ journal' = [journal EXCEPT !.risk = 0] /\ owed' = 0
                /\ UNCHANGED <<filled, open>>
        /\ UNCHANGED <<equity, manifest, files, cycle, pc, tripped, earned>>

EquityMoves == /\ pc = "idle"
               /\ \E e \in Equities \ {equity} : equity' = e
               /\ UNCHANGED <<now, manifest, files, structures, cycle, pc, admissions, tripped, heir, earned>>

Edit == /\ manifest <= MaxEdits
        /\ manifest' = manifest + 1
        /\ UNCHANGED <<now, equity, files, structures, cycle, pc, admissions, tripped, heir, earned>>

Fill(k) == /\ pending[k] > 0
           /\ pending' = [pending EXCEPT ![k] = @ - 1]
           /\ filled' = [filled EXCEPT ![k] = @ + 1]
           /\ UNCHANGED <<now, equity, manifest, files, ended, open, cycle, pc, admissions, tripped, heir, earned>>

-----------------------------------------------------------------------------
(* The cycle.                                                              *)

\* The process ends: what it held in memory is gone.
Exit == /\ pc' = "idle"
        /\ day' = NoDay /\ facts' = Good /\ seen' = 0 /\ loaded' = 1 /\ todo' = <<>>

\* reconcile_unresolved: no answer, the order found and committed, or proved
\* absent and its risk released.
ReconcileUnresolved(j) ==
  {j} \cup IF j.doubt.taken THEN {[j EXCEPT !.doubt = NoDoubt]}
           ELSE {[risk |-> IF j.doubt.date = Today THEN j.risk - j.doubt.loss ELSE j.risk,
                  doubt |-> NoDoubt]}

\* The manifest, the account, the journal and the day's record are read first.
Begin == /\ pc = "idle" /\ pc' = "entries"
         /\ loaded' = manifest
         /\ journal' \in ReconcileUnresolved(journal)
         /\ day' = CheckKill(ProjectDayRisk(LoadOrReset(dayFile, Today, equity), journal'.risk), equity)
         /\ tripped' = IF day'.killed THEN tripped \cup {Today} ELSE tripped
         /\ UNCHANGED <<now, equity, manifest, files, structures, facts, seen, todo, owed, heir, earned>>

\* reconcile_pending_entries: a filled entry becomes a structure, an ended
\* one is discarded, one that works stays pending.
SettlePending == /\ pc = "entries" /\ pc' = "exits"
                 /\ open' = [k \in Kinds |-> open[k] + filled[k]]
                 /\ filled' = None /\ ended' = None
                 /\ UNCHANGED <<now, equity, manifest, files, pending, cycle, admissions, tripped, heir, earned>>

\* manage_exits; then the positions are read again.
ManageExits == /\ pc = "exits" /\ pc' = "gates"
               /\ \/ UNCHANGED open
                  \/ \E k \in Kinds : open[k] > 0 /\ open' = [open EXCEPT ![k] = @ - 1]
               /\ seen' = SumOf([k \in Kinds |-> LegCount[k] * (filled[k] + open'[k])])
               /\ UNCHANGED <<now, equity, manifest, files, pending, filled, ended, day, facts, loaded, todo,
                              admissions, tripped, heir, earned>>

\* run_preflight and write_permit.  At most one fact is wrong by itself; the
\* positions, the pending entries and the dispatch in doubt are what they are.
FactsNow(base) == [base EXCEPT !.broker = seen, !.equity = IF Known(@) THEN equity ELSE @,
                               !.ledger = IF Known(@) THEN @ + seen ELSE @,
                               !.pendings = IF Known(@) THEN SumOf(pending) + SumOf(filled) + SumOf(ended) ELSE @,
                               !.dispatches = IF Known(@) /\ journal.doubt # NoDoubt THEN 1 ELSE @]
SomeFacts == {Good} \cup {[Good EXCEPT ![d[1]] = d[2]] : d \in Deviations}

Preflown(f) ==
  /\ permit' = WritePermit(Preflight(f), f.head, loaded, now)
  /\ earned' = IF Blockers(Preflight(f)) = {} THEN [at |-> now, sha |-> loaded] ELSE [at |-> -1, sha |-> 0]

ExitsOnly == Today > FinalDate    \* scripts/cycle_window.py

\* Exits only, or refused: the cycle ends without saving the day.
GatesRefuse ==
  /\ pc = "gates"
  /\ \E base \in SomeFacts :
       /\ ExitsOnly \/ Blockers(Preflight(FactsNow(base))) # {}
       /\ Preflown(FactsNow(base))
  /\ Exit
  /\ UNCHANGED <<now, equity, manifest, dayFile, structures, admissions, tripped, heir>>

GatesPass ==
  /\ pc = "gates" /\ pc' = "choose" /\ ~ExitsOnly
  /\ \E base \in SomeFacts :
       /\ Blockers(Preflight(FactsNow(base))) = {}
       /\ Preflown(FactsNow(base))
       /\ facts' = FactsNow(base)
  /\ UNCHANGED <<now, equity, manifest, dayFile, structures, day, seen, loaded, todo, admissions, tripped, heir>>

\* The engines count the structures of the ledger, one candidate of a limited
\* engine at a time; the proposer selects at most MaxProposals.
\* Slip: the structures already open are not counted.
SlipSelectable(s) == \A k \in Kinds : \A i, j \in DOMAIN s :
                       LimitOf[k] = 1 /\ s[i].kind = k /\ s[j].kind = k => i = j

Selectable(s) == \A k \in Kinds : \A i \in DOMAIN s : s[i].kind = k =>
                   /\ open[k] < LimitOf[k]
                   /\ LimitOf[k] = 1 => \A j \in DOMAIN s : s[j].kind = k => i = j

Choose == /\ pc = "choose"
          /\ ~day.killed
          /\ \E s \in BoundedSeq(Proposals, MaxProposals) :
               s # <<>> /\ Selectable(s) /\ todo' = s
          /\ pc' = "entering"
          /\ UNCHANGED <<now, equity, manifest, files, structures, day, facts, seen, loaded, admissions, tripped,
                         heir, earned>>

\* killed, or nothing chosen: the day is saved
ChooseNothing == /\ pc = "choose" /\ Exit
                 /\ dayFile' = day
                 /\ UNCHANGED <<now, equity, manifest, permit, structures, admissions, tripped, heir, earned>>

Passes(p) == Blockers(Pretrade(facts, p)) = {}

\* submit_entries, one proposal: fired before, expired, or refused by a gate ...
Refuse == /\ pc = "entering" /\ todo # <<>>
          /\ todo' = Tail(todo)
          /\ UNCHANGED <<now, equity, manifest, files, structures, day, facts, seen, loaded, pc, admissions,
                         tripped, heir, earned>>

\* ... or past the gates, judged by the positions those saw, ...
Admitting == pc = "entering" /\ todo # <<>> /\ Passes(Head(todo))
Counting(loss) == [journal EXCEPT !.risk = @ + loss]
InBudget(loss) == journal.risk + loss <= ExposureCap

\* ... then out of a budget, or failed before it was announced: at most held ...
HeldOnly(p) == /\ InBudget(p.loss) /\ journal' = Counting(p.loss)
               /\ UNCHANGED <<structures, owed>>
NotAdmitted ==
  /\ Admitting
  /\ day' = ProjectDayRisk(day, journal.risk)
  /\ HeldOnly(Head(todo)) \/ UNCHANGED <<structures, admissions>>
  /\ todo' = Tail(todo)
  /\ UNCHANGED <<now, equity, manifest, files, facts, seen, loaded, pc, tripped, heir, earned>>

\* ... or sent ...
Taken(p) == /\ Authorized(facts) /\ owed' = owed + p.loss
            /\ pending' = [pending EXCEPT ![p.kind] = @ + 1]
            /\ UNCHANGED <<filled, ended, open>>
Enter == /\ Admitting /\ InBudget(Head(todo).loss)
         /\ journal' = Counting(Head(todo).loss)
         /\ Taken(Head(todo))
         /\ day' = ProjectDayRisk(day, journal'.risk)
         /\ todo' = Tail(todo)
         /\ UNCHANGED <<now, equity, manifest, files, facts, seen, loaded, pc, tripped, heir, earned>>

\* ... or in doubt: announced, and then not recorded as pending, recorded but
\* not taken (which ends at the next reconciliation), or taken unheard.
NotTaken(p) == /\ ended' = [ended EXCEPT ![p.kind] = @ + 1] \/ UNCHANGED ended
               /\ UNCHANGED <<pending, filled, open, owed>>
InDoubt(p) ==
  /\ InBudget(p.loss)
  /\ \E taken \in BOOLEAN :
       /\ journal' = [Counting(p.loss) EXCEPT !.doubt = [loss |-> p.loss, date |-> Today, taken |-> taken]]
       /\ IF taken THEN Taken(p) ELSE NotTaken(p)

\* A dispatch in doubt ends the loop.
Uncertain == /\ Admitting /\ InDoubt(Head(todo))
             /\ day' = ProjectDayRisk(day, journal'.risk)
             /\ todo' = <<>>
             /\ UNCHANGED <<now, equity, manifest, files, facts, seen, loaded, pc, tripped, heir, earned>>

SaveDay == /\ pc = "entering" /\ todo = <<>> /\ Exit
           /\ dayFile' = day
           /\ UNCHANGED <<now, equity, manifest, permit, structures, admissions, tripped, heir, earned>>

Crash == /\ MayCrash /\ pc # "idle" /\ Exit
         /\ UNCHANGED <<now, equity, manifest, files, structures, admissions, tripped, heir, earned>>

\* Between the reservation and the answer.
CrashAdmitting ==
  /\ MayCrash /\ Admitting /\ Exit
  /\ InDoubt(Head(todo)) \/ HeldOnly(Head(todo))
  /\ UNCHANGED <<now, equity, manifest, files, tripped, heir, earned>>

Next == \/ Tick \/ EquityMoves \/ Edit
        \/ \E k \in Kinds : Fill(k)
        \/ Begin \/ SettlePending \/ ManageExits \/ GatesRefuse \/ GatesPass
        \/ Choose \/ ChooseNothing \/ Refuse \/ NotAdmitted \/ Enter \/ Uncertain \/ SaveDay
        \/ Crash \/ CrashAdmitting

Spec == Init /\ [][Next]_vars

-----------------------------------------------------------------------------
(* Properties.                                                             *)

TypeOK == /\ {pending, filled, ended, open} \subseteq [Kinds -> Nat]
          /\ pc \in {"idle", "entries", "exits", "gates", "choose", "entering"}
          /\ dayFile.date \in -1..Today /\ dayFile.scale \in {HalfScale, FullScale}
          /\ day.date \in -1..Today /\ day.scale \in {HalfScale, FullScale} /\ tripped \subseteq 0..Today
          /\ todo \in Seq(Proposals) /\ Len(todo) <= MaxProposals
          /\ permit.at \in 0..now /\ earned.at \in -1..now
          /\ journal \in [risk : Nat, doubt : [loss : Nat, date : -1..Today, taken : BOOLEAN]] /\ owed \in Nat

\* The position cap is checked against positions read before the first entry
\* of a cycle, and entries of earlier cycles count only once they are settled:
\* the book may pass the cap, but never by more than one cycle's entries
\* (gates/checks.py 329-341).
MostLegs == CHOOSE n \in {LegCount[k] : k \in Kinds} : \A k \in Kinds : LegCount[k] <= n
PositionsBounded == OnBook <= (MaxPositions - 1) + MaxProposals * MostLegs

\* An engine limited to one structure never has two, pending, filled or open
\* (strategy/engine.py _one_single, trend_single.max_positions).
EngineLimitHolds == \A k \in Kinds : LimitOf[k] = 1 => pending[k] + filled[k] + open[k] <= 1

\* On the day after a killed day every entry is sized by half, on other days
\* by the whole, however many cycles of the day were refused or died before
\* (strategy/daystate.py 49-68; "halves sizing the next day", manifest).
KilledDayHalvesTheNext ==
  pc = "entering" => day.scale = IF heir THEN HalfScale ELSE FullScale

\* Once a day is on file its baseline and scale stay and a kill that reached
\* the file is not undone (daystate.py 90); and whatever is saved counts every
\* order of its date that the broker took, also of a cycle that died before it
\* saved or never heard the answer, and nothing the journal has released
\* (project_day_risk, entry_submission.py 76-80).
SavedDayIsKept ==
  [][/\ dayFile.date = dayFile'.date =>
          /\ dayFile'.start = dayFile.start /\ dayFile'.scale = dayFile.scale
          /\ dayFile.killed => dayFile'.killed
     /\ owed' <= dayFile'.risk /\ dayFile'.risk <= journal'.risk]_dayFile

\* While entries are sent, every fact a BLOCKING gate asks for is known and
\* good; only what the code is run from, and a block the broker does not
\* report, are let through (gates/checks.py).
LetThrough == {"head", "dirty", "blocked", "broker", "ledger", "equity"}
SomeOrderSent == \E k \in Kinds : pending'[k] > pending[k]
EntriesNeedTheFacts ==
  SomeOrderSent => /\ \A field \in DOMAIN Good \ LetThrough : facts[field] = Good[field]
                   /\ facts.blocked # "yes" /\ facts.ledger = facts.broker /\ facts.equity >= EquityFloor
EntriesAreInformed == [][EntriesNeedTheFacts]_vars

\* Whoever reads the permit and is allowed, can rely on it: the last gates to
\* be run came out green, no longer ago than two intervals, and under the
\* manifest that is now in force (gates/safety_gate.py 99-134).
PermitIsEarned ==
  PermitAllows(permit, Good.head, manifest, now) =>
    earned.at >= 0 /\ earned.sha = manifest /\ now - earned.at <= MaxAge

\* "Once tripped it stays tripped for the day" (strategy/daystate.py:90): on a
\* date whose kill switch was seen tripped nothing is sent any more.
KillStaysTripped == pc = "entering" => Today \notin tripped
=============================================================================
