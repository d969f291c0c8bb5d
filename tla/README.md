# Verification of the trading cycle

TLA+ models of jralpha-sentinel, an agent that trades options on a paper
account: every half hour a new process looks at the account, manages what is
open, and may open something new. What it must never do is lose track of risk:
send an order nobody accounts for, count a reservation twice or not at all, or
close more, or less, than it holds. Nothing survives a process but a few files
and the broker's own records, so most of the difficulty is in the steps between
two writes.

    tlc -workers 2 -config MCEntryDispatch.cfg MCEntryDispatch
    tlapm EntryDispatchProofs.tla

`tlapm` takes from some seconds to three minutes a module.

## The system

| component | state it keeps | operations | talks to |
|---|---|---|---|
| submission journal (`agent/submission_wal.py`) | an append-only file of lines | hold, mark_dispatching, commit, release, observe, replay | read and written by admission and by reconcile_unresolved |
| entry admission (`agent/entry_submission.py`) | the running totals of one cycle | submit_entries, admit, record_pending | journal, structure ledger, executor |
| structure ledger (`agent/ledger.py`) | `positions_meta.json`: pending entries, groups | record_pending_entry, reconcile_pending_entries, protected ids, unresolved counts | broker lookups; read by gates and lifecycle |
| position lifecycle (`agent/position_lifecycle.py`, `strategy/exits.py`) | works on a copy of the ledger, saved at the end | manage: reconcile closes, expiry and residual stock, ownership, exits, orphans | executor, the snapshot of the positions |
| executor (`agent/executor.py`) | none | submit, residual close, reprice, cleanup, the authority check | the broker |
| day state (`strategy/daystate.py`) | `day_state.json`: baseline, scale, kill switch, the day's risk | load_or_reset, check_kill, record and release risk | the cycle |
| gates and permit (`gates/`) | `entry_permit.json` | evaluate for a cycle, for a proposal; write and judge the permit | journal view, ledger counts, account, market |
| policy (`policy/loader.py`) | `manifest.json`, read-only | find_shape, entry windows, loss caps, final-day rules | all |
| engines (`strategy/engine.py`, `regime.py`, `signals.py`), structures, sizing | none | run: four vectors, build, size, rank | market snapshot, open structures |
| proposer (`agent/proposer.py`) | none | select | a language model, or the fallback |
| snapshot (`agent/snapshot.py`) | `docs/snapshot.json` | build, write | read back by its next run |
| cycle, lock, schedule (`scripts/run_cycle.py`, `agent/cycle_lock.py`, `scripts/cycle_window.py`) | a file lock | one pass through all of the above | all |
| indicators, market data, dashboard, operator tools | none that a cycle depends on | see `PROJECT.json` | |

A cycle: take the snapshot; replay the journal and look up the orders whose
answer is outstanding; load the day's record and look at the kill switch; cancel
working orders nobody owns; settle pending entries; manage the open structures;
read the positions again and run the gates; write the permit; run the engines
and the proposer; then, for each chosen candidate, check the limits on a fresh
replay, write HELD and DISPATCHING, record the pending entry, call the broker,
write COMMITTED; save the day, publish.

What is hard: a crash between any two of those steps; an append that stops part
way; an answer that never comes; a lookup that fails; fills that happen while
the cycle works on an older snapshot; the same contract held by two structures;
stock that appears overnight and belongs to one of several structures; facts
that a later return forgets to write down; arithmetic at a cap, at a strike, at
the hour of an exit. `PROJECT.json` lists each hazard at its line.

What makes the components correct:

- journal: what it acknowledged survives any later append; reserved risk is
  counted until released; a torn write can always be recovered from.
- admission: no order without a durable reservation and a durable owner; caps
  hold across processes; once a day means once a day.
- ledger and lifecycle: a structure is promoted only when filled, marked closed
  only when flat; closes never exceed what is held; legs stay together; what
  should be closed is closed in the end, delivered stock included.
- day, gates, permit: a killed day stays killed and halves the next one; no
  entry on an unknown fact; a permit says what was last found.
- day and journal: the risk a day is saved with is what the journal counts.
- engines, sizing, proposer: a declared loss is a real bound, a size fills its
  cap and no more, no bet against the regime, no answer of a model trades
  anything the engines did not propose.

## Modules

| module | models |
|---|---|
| `SubmissionRegistry` | abstract: what a journal promises, submission by submission |
| `JournalView` | operators: replay of one line, the transition check, projected risk |
| `SubmissionWal` | the journal file line by line, with torn appends |
| `EntryDispatch` | admission, dispatch and reconciliation with ledger, broker, crashes and days |
| `PositionLifecycle` | structures from pending entry to filled close, and orphans |
| `ResidualStock` | expiry, delivery, and the orders that close delivered stock |
| `DayState` | operators: the day's record, its kill switch, the paired budgets |
| `Gates` | operators: every gate, severities, the permit, the policy facts they need |
| `TradingDay` | cycle after cycle: `DayState` and `Gates` composed with the cycle's returns |
| `Structures`, `Sizing` | operators: the builders over a chain, and `fixed_quantity` |
| `Candidates` | regime, four vectors, ranking, selection and time exits over a schedule |
| `PublicRecord` | the decisions carried from snapshot to snapshot |
| `FiniteSums` | lemmas: induction over the numbers and over a finite set, and sums over one |
| `JournalViewProofs`, `SubmissionWalProofs` | theorems on the view, the journal file and its refinement |
| `EntryDispatchProofs` | theorems on dispatch: order by order, and the caps |
| `PositionLifecycleProofs`, `ResidualStockProofs`, `TradingDayProofs`, `CandidatesProofs` | theorems on these components; sizing is with the candidates |
| `MC...` | instances, and the properties that need them |

`SubmissionWal` and `EntryDispatch` both use `JournalView`: the first stores
lines and replays them, the second stores the replayed view and applies the same
operators to it. Line-level faults are settled once, in `SubmissionWal`;
`EntryDispatch` takes over their effects (nothing, a torn line with its keys, an
unreadable line) for exactly the appends `_require` allows. `TradingDay` is built
on `Gates` and `DayState`, `Candidates` on `Structures` and `Sizing`. A module of
theorems extends the module it is about; a property that is also a theorem is
defined with the component, and an `MC` module only has those that only a run checks.

A name that starts with *Slip*, or whose comment says so, is the code with a
plausible mistake in it. No specification uses one; each is there to show that a
property notices it.

### Journal

A line has a form: `whole`, `keyed` (torn, still showing the two keys `_line`
writes first) or `bare`. `_KEY_RE` finds the first pair of keys on a line, which
`Joined` models when two pieces share one. A submission id and its client order
id are one value, the second being a digest of the first. Checks of `_apply` on
schema and payload cannot fail on lines the program wrote and are left out.
`SubmissionRegistry` has no lines: a submission moves forward, or is in doubt
after an incomplete write, and a doubt bars everything but its own end. The
refinement maps the replayed view to it.

### Entry dispatch

`pc` is where the cycle is; one process runs at a time (`cycle_lock`), and one
that ends or dies keeps nothing but `durable`. A submission is one authorised
attempt, with a cost, perhaps a once-a-day key, perhaps membership in the gap
continuation. The broker's order goes none -> transit -> open -> partial ->
filled, or ends unfilled or cut short. `AppendFails` is a failed append inside
admission: the loop goes on unless the record reads DISPATCHING, as `admit`
decides.
Gates other than the two that read the files, the kill switch and the proposer
are one free choice to stop here (`TradingDay` has them); candidates come in any
order.

### Position lifecycle

`ledger` is the file, `book` the copy `manage` changes and saves last, `snap`
the positions when the cycle began, `position` what the account holds now. Orders
fill at any moment between steps. `close`, `quarantined` and `remainder` are
`close_order_id` while `close_pending`, `reconciliation_required` and
`verified_close_remainder_required`. `Faults` selects what may go wrong:

| fault | in the code |
|---|---|
| `lookup` | the lookup of an entry, or the listing or cancelling of an order, fails |
| `status` | the status of a close order cannot be read |
| `reply` | the broker took a close and `submit` raised all the same |
| `crash` | the process dies between any two steps |
| `split` | an entry fills in parts |
| `unpriced` | a leg has neither a price nor a quote |

### Residual stock

`file` and `book` are again the ledger and the working copy, `orders` the
broker's stock orders. A group's record holds the tracked order, its client id,
the attempt and reprice numbers, the pre-expiry baseline, the original delivery
and what remains of it; `waits` is `residual_equity_close_retry_after_utc`.
`Begin` reads the positions, `CancelStray` is the cleanup, then every group is
visited twice, in `_reconcile_residual_equity_orders` and in
`_reconcile_expired_absent`, and `Save` ends the cycle. Stock is counted in half
lots, so that an order for a lot can fill in part. `Settle` delivers what the
legs of a structure are worth in stock at any spot.
The history variable `lost` says that an answer or a save was lost after the
broker took an order: the client id of the next attempt is then refused for
ever, and such stock stays where it is. That is safe, which `NeverOversold` says
with nothing excepted for `lost`, and not live, which is why `StockIsFlattened` allows it. (A
replaced order the program still tracks, status REPLACED, matches no branch and
waits for ever in the same way.)

### Trading day

`pc` follows `_run_cycle`: entries settled, exits, gates, choice, admission.
`facts` is the `EvalContext` of the cycle: one field per fact a gate reads, at
most one of them wrong at a time besides what follows from the state (positions,
equity, pending entries, the dispatch in doubt). `GatesRefuse` is the pair of
returns that write the permit and not the day; `ChooseNothing` and `SaveDay` write
the day. `Crash` may come between any two steps. Structures are counted by kind
and by what became of their entry; the details of that are the other modules'
subject.

`journal` stands for the journal file, by what it says: `risk`, which is what
`risk_for` counts for the date, and `doubt`, the dispatch without an outcome (at
most one: that is `OneUnresolved` of the dispatch model; it bars further entries
through the gate `unresolved_dispatches`). `ReconcileUnresolved` at the start of a
cycle gets no answer, or finds the order and keeps its risk, or is told that there
is none and releases it. `project_day_risk` is `ProjectDayRisk`: the day's risk is
overwritten from the journal at the start of a cycle, before each budget check and
after each admission, and never added to. So a saved risk may shrink, when a doubt
is released, and what a dead cycle sent is counted by the next one. A proposal
past the gates ends in one of four ways: `NotAdmitted` (out of budget, or held and
then failed), `Enter`, `Uncertain` (announced and not committed, which ends the
loop), or `CrashAdmitting` at any point between the reservation and the answer.
Of the day's `fired_once` keys and of the portfolio budget `EntryDispatch` has the
details; here a refusal by one of them is part of `Refuse` and `NotAdmitted`.

`owed`, `tripped`, `heir` and `earned` are history: the losses of the day's orders
the broker took, the dates on which `check_kill` answered yes, whether the last
day on file was killed, and what the last gates said for which manifest.

### Structures, sizing, candidates

A chain is a set of contracts with a strike, a delta and a fair value; a builder
returns the set of proposals it finds, empty for None. Amounts are cents a share,
which are dollars a contract. `Candidates` runs the vectors over a market that
changes from cycle to cycle, ranks by score, lets the proposer answer anything,
admits some of the selection inside the at-risk cap, and applies `decide_exit` to
what is held. `book` is the set of held structures; `missed` records that a cycle
found no price for one. The manifest of the repository has the trend vector and
PEAD switched off; the instance switches everything on, so that the code of every
vector is run. Candidates with equal scores keep the order they were found in
(`sorted` is stable), which is any order, because a set has none. The assumptions
say what the model takes for granted of its inputs: the cycles follow each other
in time and the day of an event's exit has a cycle that is not missed
(`SlotsAssumption`); in a chain, an out-of-the-money call (delta below 50) is not
below an out-of-the-money put (`Quotable`).

### Public record

One step is one `publish_snapshot`: old decisions and new ones, brought up to
date, then the tail, the refusals put back, and the tail again.

## Runs

| run | configuration | shows | states |
|---|---|---|---|
| `journal` | `MCSubmissionWal.cfg` | the file implements the registry; acknowledged records survive; risk stays counted; writers never spoil the file; torn dispatches heal | 48 thousand |
| `dispatch` | `MCEntryDispatch.cfg` | order implies reservation and owner; only full fills become structures; one dispatch in doubt, and it can be resolved; both caps; once-a-day keys and the gap limit, over three days | 983 thousand |
| `dispatch_live` | `MCEntryLive.cfg` | every dispatch resolved, every pending entry settled | 13 thousand |
| `lifecycle` | `MCLifecycle.cfg` | recorded quantity = entered minus own fills; the closes of a contract within its position; no naked short; due means closed or quarantined; every close order resolved | 82 thousand |
| `lifecycle_crash` | `MCLifecycleCrash.cfg` | one working close; closed means closed | 498 thousand |
| `residual` | `MCResidualStock.cfg` | residual orders never pass the delivered stock; closed means flat; attributable stock is flattened | 141 thousand |
| `cycle` | `MCTradingDay.cfg` | a killed day halves the next; what is saved is kept, and its risk counts every order of the day and nothing released; entries only on known and good facts; the permit is earned; positions bounded; one single at a time | 1.9 million |
| `proposals` | `MCCandidates.cfg` | declared loss = worst loss of the legs; size at the cap; direction with the regime; sound selection; event expiries; nothing held past its time | 116 thousand |

Four runs end in a counterexample, each against a sentence of the repository:

| run | what happens |
|---|---|
| `entry_race` | an entry fills after the snapshot and before its lookup; it is promoted, found missing in the snapshot and quarantined; nothing lifts that before expiry, so the final flatten passes it by |
| `kill_forgotten` | the kill switch trips in a cycle whose permit is refused; that return does not save the day, the equity comes back, and the next cycle of the date sends entries |
| `tape_fought` | `_breakout` is documented for chop and does not ask for it: in risk_off, with SPY above the high of its prior sessions, the convexity layer buys a long call |
| `refusals_lost` | refusals put in front of a full tail are what the next slice cuts off |

Some properties compare with a reference instead of a state. `LossIsDeclared`
takes the worst payoff of the legs over every strike and both ends, where a
piecewise linear function has its extremes. It allows an iron condor to lose
more by the width its wings were found beyond the nominal five points, because
`build_iron_condor` computes its loss from the nominal width. (Its docstring,
`structures.py:250`, calls the risk "width minus credit": on a chain whose strikes
are not five points apart it may be more. The instance has such a chain, three
points apart, and without the exemption `LossIsDeclared` fails on it.) `WithTheTape`
reads the direction from the payoff too, not from the builder's argument; it
says what the code does, its exception in risk_off included, and
`NoLongInRiskOff` what the documents say. The exception was found by the proof:
no instance had a breakout in risk_off before the case split asked for one.

### Observations that need another instance

Changing a constant shows disagreements of the same kind, one fault away from
the runs above:

- The gap play is documented to stop at 10:40 (`strategy/engine.py:430` and 479).
  It carries no event exit (505-506), and `final_day_close_by_et` of the manifest is
  read by nothing, so on a gap day before the final date it is held until 15:15.
  `DecideExit` shows it; no run is spent on it.
- The gap limit is called "per window" (`README.md:77`), but
  `project_gap_usage` counts one trading date; `DailyLimitsHold` states what the
  code does.
- `SyncFaults = TRUE` in `MCEntryDispatch.cfg` (fsync fails for a COMMITTED line
  that is on disk: the loop goes on without the order in its totals) breaks
  `DailyLimitsHold`, and with `ExposureCap = 9` the open-risk half of
  `BudgetsHold`. The day's exposure is counted from the journal again and holds
  all the same: that is `DailyExposure` below.
- `Faults = {"unpriced"}` in `MCLifecycleCrash.cfg` (a leg without a price is
  left out of a close that then counts as the whole) breaks `ClosedIsFlat`.
- `CloseWithinExposure` and `NoNakedShort` are checked without faults and proved
  under conditions on the state (below) which faults can break. With `lookup`,
  one failed lookup of a filled entry is enough: its legs, owned by no group, are
  closed one by one by the orphan path, which leaves a naked short on the way;
  with `split`, so are those of an entry filled in part, which stays pending
  (`Owned` fails). With `reply`, a close whose answer was lost fills in part after
  the snapshot, and the next close is sized from that snapshot; `crash`, between a
  submission and `save`, leads to closes the record does not know as well
  (`RecordsRight` fails). With `unpriced` the long leg can be closed without the
  short (`WholeCloses` fails). Each fault alone breaks `NoNakedShort` in an
  instance of two verticals that share their short contract. Whether the broker
  accepts such an order is outside this code.
- Two structures that hold a contract on different sides break
  `CloseWithinExposure` without any fault: the account's net position is less
  than either, and each close is sized by its own (`OnOneSide` fails).
  `_ownership_conflicts` quarantines both once it sees them, before it sends
  anything; but nothing keeps the second from being entered while a close of the
  first works.
- A structure first seen after another one was delivered takes what it sees for
  its baseline. `ClosesToBaseline` still holds, `NeverOversold` need not: with `-2`
  among `Bases`, a delivery that brings the account to nothing is taken as closed,
  the next structure's baseline is nothing, and the order that leads back there
  covers the short stock that was in the account before.
- A close seen half filled quarantines its structure; when it ends and its
  remainder is proved, the remainder becomes due but the quarantine stays, and
  the exit loop skips it. `ClosedOrQuarantined` and `CloseIsResolved` are stated
  so that they hold of this.

### Bounds

- Journal: two submissions, two facts, two torn appends, no new line but an end
  after five. Two submissions are what it takes for one torn record to bar
  another; the second tear is the one that hits a recovery.
- Dispatch: three attempts with costs 2, 1, 2 under caps of 3, so that some two
  fit and others do not; three days; a key shared by two; a gap limit of one with
  two that count. The live run has two attempts on one day.
- Lifecycle: a vertical and a single that share a contract, of size two (or two
  and one), and four orders: two closes, a retry, an orphan. Fills come one unit
  at a time, so a partial fill precedes every full one. `CloseEnds` leaves each
  structure one order that is not cut short. Liveness is checked in the run
  without faults; every safety property over crashes is in `lifecycle_crash`.
- Residual: a call spread and a put on one underlying that expire on two days,
  with and without other stock in the account, every spot around and between the
  strikes, one price move, one fault of any kind, three days. A position that
  closes early, a pair that settles together and one that settles a day late are
  all in there.
- Cycle: three days (the second is the final one, the third exits only), two cycles
  a day, a limited and an unlimited kind of structure with one and two legs, a
  position cap of two and room for two units of risk a day (so that a day's third
  entry is out of budget, and a doubt takes half of it), one proposal that a gate
  refuses beside the good ones, eighteen wrong facts, one edit of the
  manifest, equity above and at the loss that trips the switch.
- Proposals: seven cycles on three days around 09:40, 10:45, 11:00 and 15:30;
  forty-five markets (five regimes, risk_off with a breakout among them, three
  sets of signals, three chains, of which one has wider wings than asked for and
  one lacks the outer strikes);
  four answers of the model; two structures held at once.
- Public record: a tail of three instead of 120, one refusal put back instead of
  twenty; the relation between the two numbers is what matters.

### What is assumed of the world

- The broker's explicit 404 for a client order id means that no such order will
  appear: the order is not still on its way. It refuses a client order id that
  was used before.
- Orders are DAY orders: none works on the next day. A cancel that is accepted
  takes effect at once.
- A broker executes the closes it is sent, one unit of every leg at a time; a
  multi-leg order fills its legs together.
- Nobody but the program trades on the account. In `PositionLifecycle` structures
  have not expired; in `ResidualStock` the structures of one date settle in one
  step, at one price, outside a cycle or during it.
- In `Candidates` a close that is sent fills; `PositionLifecycle` is about the
  ones that do not.

### Fairness

cron starts a cycle every half hour, so `Begin` and the steps of a running cycle
are fair; where a step may fail again and again for a while (a lookup, a
submission), it is strongly fair: a broker asked in every cycle answers in some
cycle. An order does not work for ever (it is a DAY order), and a close that is
sent again after every end fills in the end. Only under the last two can
anything be promised about closing at all. In `ResidualStock` days end (strongly
fair, for a day only ends between two cycles) and a marketable order fills;
prices stop moving at the bound. Crashes are not bounded by fairness: the steps
of `dispatch_live` get through in spite of them; in `residual` there is at most
one.

## Proofs

The provers here do no induction over data, which is what a sum, or the replay of
a file, needs. `FiniteSums` gets around that with facts about sets of numbers:
`CountUp` (a set that has 0, and `n + 1` with each `n`, has every natural number)
and `AddUp` (the same for the subsets of a finite set), from which follow the
lemmas on sums that `BudgetInv`, `LifecycleInv` and the counts of a day rest on
(a sum exists, splits, grows, is monotone).

`JournalViewProofs` has the lemmas about the view: what a whole, torn or
unreadable line does to its type, to the unresolved set and to the active torn
records. `SubmissionWalProofs` proves, for any number of submissions, facts,
lines and torn appends:

| theorem | says |
|---|---|
| `WalTypes` | `Spec => []TypeOK` |
| `AcknowledgedSurvivesAlways` | `Spec => []AcknowledgedSurvives` |
| `RiskStaysCountedAlways` | `Spec => []RiskStaysCounted` |
| `WritersNeverSpoilAlways` | `Spec => []WritersNeverSpoil` |
| `WalImplementsRegistry` | `Spec => ImplementsRegistry` |

All rest on `WalInv`. That what was acknowledged survives is not inductive by
itself: a release must find the reservation it releases, so every submission the
file has heard of is reserved or torn (`ReservedOrTorn`), a caller is only told of
what is reserved (`AckedIsReserved`), and a released state has its line on disk
(`ReleaseIsWritten`). Replay is a function over the length of the file; that one
more line is one more `Apply`, and that the latest view is the one after the last
line, are the lemmas all of it stands on. For the refinement each append,
complete or torn, is mapped to a step of the registry or to none.

`EntryDispatchProofs` proves, for any sets and numbers that satisfy
`ParameterAssumption`:

| theorem | says |
|---|---|
| `TypeCorrect` | `Spec => []TypeOK` |
| `OrderAlwaysReserved` | `Spec => []OrderIsReserved` |
| `OrderAlwaysOwned` | `Spec => []OrderIsOwned` |
| `GroupAlwaysFilled` | `Spec => []GroupIsFilled` |
| `AtMostOneUnresolved` | `Spec => []OneUnresolved` |
| `ResolutionNeverRefused` | `Spec => []ResolutionNotRefused` |

All six follow from `DispatchInv`, which is inductive. The properties are not
inductive by themselves: that an order is announced before it is sent depends on
where the process stands, so `Position` says, for each `pc`, what journal and
ledger hold for the attempt in hand (while one is between `record` and `commit` it
is the only unresolved one; before `record` it has no owner; after, it is
pending). `TornIsUnresolved` and `OwnedIsKnown` keep the torn records and the
ledger tied to the journal. The step is proved action by action; the damage a
failed append can do is one lemma (`DamageSound`) used by `AppendFails` and
`Crash`.

`TradingDayProofs`, from `DayAssumption`, `TradingAssumption` and
`GatesAssumption`:

| theorem | says |
|---|---|
| `ReserveIsAtomic` | `reserve_entry_risk` takes both budgets or neither, inside both caps |
| `KilledDayHalves` | `Spec => []KilledDayHalvesTheNext` |
| `SavedDayKept` | `Spec => SavedDayIsKept` |
| `PermitEarned` | `Spec => []PermitIsEarned` |
| `TradingTypes` | `Spec => []TypeOK` |
| `PositionsAlwaysBounded` | `Spec => []PositionsBounded` |
| `EngineLimitAlwaysHolds` | `Spec => []EngineLimitHolds` |

`KilledDayHalves` and `SavedDayKept` rest on `DayInv` and `JournalInv`. The
first is `DayTypes`; `FileAgrees`, which ties the day on file to the history
variable (a file of today was derived from the last day before, any other file
is that day); and `CycleAgrees`, which says of a cycle that has begun that its
copy is of today, derived from the file by `LoadOrReset` and `CheckKill` and
different only in risk. Without the last, a save could be of anything.
`JournalInv` says that the journal counts every order of the date the broker
took, a doubtful one beside the others (so that a release cannot take the risk
of another order), and that the risk in a cycle's copy of the day lies between
the two: at least those orders, at most what the journal counts (it may be less,
after a reservation that was held and went no further). `PermitEarned` has an
invariant of its own (`PermitAgrees`): the permit on file is the result of the
latest gates.

The other two rest on `BookInv`. `PositionsBounded` needs to know that what the
gates read is the whole book, for the positions of the account are all they look
at: they are only passed with nothing pending (`Counted`), and after that each
candidate of the cycle adds at most `MostLegs`. `EngineLimitHolds` needs `Limited`:
a candidate of a limited engine is the only one of its kind, and none of that kind
is on the book, until it is entered.

The caps, in `EntryDispatchProofs` as well:

| theorem | says | if |
|---|---|---|
| `DailyExposure` | `Spec => []DailyExposureWithinCap` | |
| `BudgetsAlwaysHold` | `Spec => []BudgetsHold` | `~SyncFaults` |
| `DailyLimitsAlwaysHold` | `Spec => []DailyLimitsHold` | `~SyncFaults` |

The condition is necessary (see the observations above). `BudgetInv` holds beside
`DispatchInv` and is about the time between a check and the record that makes it
true: from the check until the reservation counts there is room for the attempt
in hand (`ExposureInv`, `AtRiskInv`), and until the order is sent it has no rival
for its key and the gap has a place left (`LimitInv`). The exposure of a day is
what the journal counts, and an order that exists is always counted, so nothing a
cycle remembers can spoil it.

`PositionLifecycleProofs`, from `LifecycleAssumption`, over any set of structures,
legs and sizes:

| theorem | says | if |
|---|---|---|
| `LifecycleTypes` | `Spec => []TypeOK` | |
| `LotsAlwaysKnown` | `Spec => []LotsAreKnown` | no `crash`, no `reply` |
| `OneLiveCloseAlways` | `Spec => []OneLiveClose` | no `lookup` |
| `ClosedAlwaysFlat` | `Spec => []ClosedIsFlat` | no `unpriced` |
| `RecordsStayRight` | `Spec => []RecordsRight` | no `crash`, no `reply` |
| `CloseAlwaysWithinLots` | `Spec => [](RecordsRight => CloseWithinLots)` | |
| `CloseAlwaysWithinExposure` | `Spec => [](\A x : RecordsRight /\ Owned(x) /\ OnOneSide(x) => CloseWithin(x))` | |
| `NeverNakedShort` | `Spec => [](RecordsRight /\ WholeCloses /\ (\A x : Owned(x) /\ OnOneSide(x)) => NoNakedShort)` | `Hedged` |
| `ContractsStayOwned` | `Spec => [](\A x : Owned(x))` | `Undisturbed` |

A fault that is not excluded may happen at any time. The first four follow from
`LifecycleInv`. Its core is `Accounted`, for the ledger and the working copy
alike: what a record still has and what its other orders filled make up at least
the entry, and exactly the entry as long as every order is on record
(`Recorded`); `PhaseInv` says how far the copy may be ahead of the file;
`WholeInv` that a close has every leg; `SingleInv` which orders may still work in
which phase, so that a structure about to send one has none.

The other five rest on `StakeInv`, in which no fault is excluded and contracts may
be shared in any way: the position of a contract is the sum of the signed lots
of the structures that hold it, as long as the orphan path has sent nothing for
it; entries and stages agree; every leg of a close is one of its structure's.
What a close may be sized by wrongly is stated as a condition on the state and not
on the run, so that the theorems speak of every state in which it is met, however
many crashes and lost answers came before:

- `RecordsRight`: every working close is on record, open structures know their
  lots, the closes of closed ones filled their size. `RecordsStayRight` proves it
  of every run without a death or a lost answer, all other faults included. A
  crash before `save` or a lost answer ends it for that structure, and the code
  cannot know.
- `Owned(x)`: the orphan path has sent no order for the contract.
  `ContractsStayOwned` proves it of every run in which nothing but statuses fails
  (`OwnedInv`: whatever a snapshot shows belongs to a structure that
  `managed_symbols` will include); a failed lookup, an entry filled in part or a
  lost record ends it.
- `OnOneSide(x)`: the structures that have lots of a contract have them on one
  side, which `_ownership_conflicts` asks for before a close is sent, and nothing
  asks for after it.
- `WholeCloses`: no close was sent without one of its legs; only a missing price
  ends it.
- `Hedged`, on the constants: a structure that sells a contract buys one, as every
  builder does.

`CloseAlwaysWithinLots` needs the first alone: for its own structure, a working
close has never more to fill than there are lots, over partial fills and retries.
Summed over the structures of a contract on one side that is the account's
position. Each condition is necessary: the observations above say what happens
without it. Together with `RecordsStayRight` and `ContractsStayOwned` the theorems
give `CloseWithinExposure` for every run in which only statuses fail and no
contract is held on two sides, which is the setting of the run `lifecycle`.

`ResidualStockProofs`, from `ResidualAssumption`, for any set of structures on an
underlying, their legs, dates and spots, and any stock held beside them:

| theorem | says |
|---|---|
| `ResidualTypes` | `Spec => []TypeOK` |
| `AlwaysClosesToBaseline` | `Spec => []ClosesToBaseline` |
| `NeverOversoldWhenSeen` | `Spec => [](SeenWhole => NeverOversold)` |
| `ClosedFlatWhenSeen` | `Spec => [](SeenWhole => ExpiredClosedIsFlat)` |
| `SameDateIsSafe` | `SameDate => (Spec => [](NeverOversold /\ ExpiredClosedIsFlat))` |

No fault is excluded. The danger is a second order for stock that a first one is
already closing, after a lost answer, a crash before the save, or a second
structure that claims the same stock. `ResidualInv` says why there is none. A
client id names the underlying and the attempt, not the structure, and the broker
takes each once; so a record that has forgotten an order tries its number again
and gets nowhere, and an order with a new number is sent only by a record that
knows how the latest one ended (`OrdersInv`: only the latest can be working;
`RecordSound`, of the file and of the copy). Such a record has seen the account
as it is now, or it waits (`CopyInv`). The latest order, filled, leaves a baseline
on file (`ChainInv`), and once one was sent nothing is left that could settle, for
an order is only sent when every other structure is closed.

`ClosesToBaseline` is what holds without a condition. The other two speak of
`base`, the stock held beside the structures, which is what a structure recorded
only if a cycle saw it before anything was delivered (`SeenWhole`; see the
observations). Structures that expire on one date are always seen so, which is
the last theorem. For "closed means flat" `FlatInv` says besides that the account
is at one of its two ends whenever everything that settled is closed, and stays
there.

`CandidatesProofs`, from `ParametersAssumption`, `SlotsAssumption` and
`MarketsAssumption`, over any market, finite chain, schedule and answer of the model:

| theorem | says |
|---|---|
| `SizedWithinCaps` | a trade sized by `fixed_quantity` stays inside both caps |
| `SizedIsLargest` | one contract more does not, a refusal included |
| `LossAlwaysDeclared` | `Spec => []LossIsDeclared` |
| `AlwaysSizedToTheCap` | `Spec => []SizedToTheCap` |
| `AlwaysWithTheTape` | `Spec => []WithTheTape` |
| `SelectionAlwaysSound` | `Spec => []SelectionIsSound` |
| `EventAlwaysOutlived` | `Spec => []EventIsOutlived` |
| `OverdueAlwaysUnpriced` | `Spec => []OverdueIsUnpriced` |

The first two are arithmetic (`FitsQuotient` says what a floor division gives).
`LossIsDeclared` and `WithTheTape` quantify over the payoff of a proposal; each
builder has a lemma that computes the value of its legs at every spot. A builder
of two wings needs its call strike above its put strike, which is what `Quotable`
gives. `CandInv` carries what is known of a candidate from the engines to the
next cycle (`CandsInv`), of the selection until it is entered (`ChosenInv`) and of
a structure as long as it is held (`Kept`). The last theorem is the one that
spans cycles: `Awaited` says that a structure no cycle has failed to price has
not reached the exit day, or has a cycle of that day still to come, whichever
cycles before it were skipped.

`reserve_entry_risk` and `release_entry_risk` are called by the tests only;
production code projects the journal instead (`ReserveIsAtomic` is about the
former all the same).

### Only model-checked

- Everything temporal with fairness: `TornHeals`, `DispatchIsResolved`,
  `PendingIsSettled`, `ClosedOrQuarantined`, `CloseIsResolved`,
  `StockIsFlattened`. Liveness and ENABLED are beyond the prover.
- `EntriesAreInformed` compares the facts with the good values of the instance,
  one by one. It is a check of the gates against a second list; for other
  `Deviations`, under which a fact may be good in another way, it is not true.
- `NeverOversold` and `ExpiredClosedIsFlat` where a baseline was recorded after a
  delivery: the run `residual` shows them for its two structures; another
  instance breaks the first (see the observations).
- The public record and the violation runs.

## Not modelled, and notes for a reader of the code

Left out: indicators and the computation of scores and spots (floating point, no
state: their results are inputs), vendor calls and their caches, prompts and the
HTTP call to a model (any answer is allowed instead), manifest parsing and its
validation, the dry run, the dashboard and the other fields of the snapshot, and
the operator tools, which a person runs outside the cycle.

Some differences between the code and its words, or between two parts of it, met
while modelling and covered by no property:

- An `InvalidTransition` is documented to stop the cycle
  (`agent/submission_wal.py:62-68`) while `submit_entries` goes on to the next
  candidate; the model follows the code, and the properties hold all the same.
- `gates/safety_gate.py` `evaluate` is called by no cycle: the cycle uses its own
  gate results, the permit is for other readers.
- `is_paper_session` has a default of True that no caller overrides; the
  executor's own check (`Authorized`) is what asks the client.
- `option_chain_data` accepts a `CycleSubject` only, so the age it judges is
  always SPY's, and `position_caps` counts legs, by a prefix of their symbol.
- `find_shape` returns the first match, so the stock shape, a one-leg limit day
  order like the single option, must stay behind it in the manifest.
- "Two such days halve sizing for the remainder" (a comment of the manifest) is
  not implemented: only the day after a killed day is halved.
- `event_exit_date` is compared for equality: a structure that could not be priced
  on that date has lost its exit and waits for the next stop.
- A model's answer without one valid index still trades the top of the ranking.
- Shorts are ranked by their negative scores with the highest first, so the
  strongest short is ranked last.
