--------------------------- MODULE TradingDayProofs --------------------------
(***************************************************************************)
(* The day's record over the cycles of several days, for any numbers of    *)
(* days, cycles, proposals and equities; the permit; the paired budgets.   *)
(***************************************************************************)
EXTENDS TradingDay, FiniteSums

\* reserve_entry_risk takes both budgets or leaves both as they were, and never
\* leads past a cap (run_cycle.py:288-305).
THEOREM ReserveIsAtomic ==
  ASSUME NEW old \in [portfolio : Nat, daily : Nat], NEW dollars \in Nat,
         NEW caps \in [portfolio : Int, daily : Int]
  PROVE  LET new == Reserve(old, dollars, caps)
         IN  \/ new = old
             \/ /\ new = [portfolio |-> old.portfolio + dollars, daily |-> old.daily + dollars]
                /\ new.portfolio <= caps.portfolio /\ new.daily <= caps.daily
<1> DEFINE first == [old EXCEPT !.portfolio = @ + dollars]
<1>1. first = [portfolio |-> old.portfolio + dollars, daily |-> old.daily]  OBVIOUS
<1>2. first.portfolio = old.portfolio + dollars /\ first.daily = old.daily
      /\ first \in [portfolio : Nat, daily : Nat]
  BY <1>1
<1>3. CASE ~Fits(old.portfolio, dollars, caps.portfolio)
  BY <1>3 DEF Reserve
<1>4. CASE Fits(old.portfolio, dollars, caps.portfolio) /\ Fits(first.daily, dollars, caps.daily)
  <2>1. Reserve(old, dollars, caps) = [first EXCEPT !.daily = @ + dollars]
    BY <1>4 DEF Reserve
  <2>2. [first EXCEPT !.daily = @ + dollars]
          = [portfolio |-> old.portfolio + dollars, daily |-> old.daily + dollars]
    <3> HIDE DEF first
    <3> QED BY <1>2
  <2> QED BY <1>2, <1>4, <2>1, <2>2 DEF Fits
<1>5. CASE Fits(old.portfolio, dollars, caps.portfolio) /\ ~Fits(first.daily, dollars, caps.daily)
  <2>1. Reserve(old, dollars, caps) = [first EXCEPT !.portfolio = Released(@, dollars)]
    BY <1>5 DEF Reserve
  <2>2. Released(first.portfolio, dollars) = old.portfolio
    BY <1>2 DEF Released, Floor0
  <2>3. [first EXCEPT !.portfolio = old.portfolio] = old
    <3> HIDE DEF first
    <3> QED BY <1>2
  <2> QED BY <2>1, <2>2, <2>3
<1> QED BY <1>3, <1>4, <1>5

-----------------------------------------------------------------------------
\* The strengthening: what a cycle holds in memory agrees with the file and
\* with the journal.

Days == [date : Int, start : Nat, risk : Nat, killed : BOOLEAN, scale : {HalfScale, FullScale}]

SizeOf(half) == IF half THEN HalfScale ELSE FullScale

DayTypes ==
  /\ now \in Nat /\ equity \in Nat /\ heir \in BOOLEAN
  /\ dayFile \in Days /\ day \in Days /\ todo \in Seq(Proposals)

\* The file is of today, and sized by the day before; or it is the day before's,
\* and says itself whether that was killed.
FileAgrees ==
  /\ dayFile.date <= Today
  /\ dayFile.date # Today => heir = dayFile.killed
  /\ dayFile.date = Today => dayFile.scale = SizeOf(heir)

\* A cycle at work has today's record, with whatever today's file says kept.
Continues(f, d) ==
  f.date = d.date => d.start = f.start /\ d.scale = f.scale /\ (f.killed => d.killed)

CycleAgrees ==
  pc # "idle" => /\ day.date = Today /\ day.scale = SizeOf(heir)
                 /\ Continues(dayFile, day)

DayInv == DayTypes /\ FileAgrees /\ CycleAgrees

\* The journal counts what the broker took, and on top of it a dispatch of
\* today that may still be released; the record at work is a projection of the
\* journal, made in this cycle.
Journals == [risk : Nat, doubt : [loss : Nat, date : Int, taken : BOOLEAN]]
Untaken(j) == IF j.doubt.date = Today /\ ~j.doubt.taken THEN j.doubt.loss ELSE 0

JournalInv ==
  /\ journal \in Journals /\ journal.doubt.date \in -1..Today /\ owed \in Nat
  /\ owed + Untaken(journal) <= journal.risk
  /\ pc # "idle" => owed <= day.risk /\ day.risk <= journal.risk

LEMMA TodayIsNat ==
  ASSUME NEW n \in Nat
  PROVE  n \div TicksPerDay \in Nat
BY TradingAssumption, SMT

LEMMA TodayIsInt ==
  ASSUME NEW n \in Nat
  PROVE  n \div TicksPerDay \in Int /\ n \div TicksPerDay <= (n + 1) \div TicksPerDay
  BY TradingAssumption, SMT DEF TradingAssumption

LEMMA FullIsHundred == FullScale = 100 /\ HalfScale \in Int
  BY DayAssumption DEF DayAssumption, FullScale

LEMMA DayInit == Init => DayInv
<1> SUFFICES ASSUME Init PROVE DayInv  OBVIOUS
<1>1. NoDay \in Days  BY DEF NoDay, Days
<1>2. equity \in Nat  BY TradingAssumption DEF TradingAssumption, Init
<1>3. DayTypes
  <2>1. <<>> \in Seq(Proposals)  OBVIOUS
  <2> QED BY <1>1, <1>2, <2>1 DEF Init, DayTypes
<1>4. Today \in Int /\ Today >= 0
  <2>1. 0 \div TicksPerDay = 0  BY TradingAssumption, SMT DEF TradingAssumption
  <2> QED BY <2>1 DEF Init, Today
<1>5. FileAgrees
  <2>1. dayFile.date = -1 /\ dayFile.killed = FALSE /\ heir = FALSE  BY DEF Init, NoDay
  <2>2. dayFile.date <= Today /\ dayFile.date # Today  BY <1>4, <2>1
  <2> QED BY <2>1, <2>2 DEF FileAgrees
<1> QED BY <1>3, <1>5 DEF DayInv, CycleAgrees, Init

\* A step that leaves the clock, the files and the cycle's record alone, but
\* for its risk.
LEMMA DayUntouched ==
  ASSUME DayInv, UNCHANGED <<now, heir, dayFile>>, equity' \in Nat, todo' \in Seq(Proposals),
         \/ pc' = "idle" /\ day' \in Days
         \/ pc # "idle" /\ day' \in Days /\ day'.date = day.date /\ day'.scale = day.scale
            /\ day'.start = day.start /\ (day.killed => day'.killed)
  PROVE  DayInv'
<1>2. DayTypes'  BY DEF DayInv, DayTypes
<1>3. FileAgrees'  BY DEF DayInv, FileAgrees, Today, SizeOf
<1>4. CycleAgrees'
  <2>1. CASE pc' = "idle"  BY <2>1 DEF CycleAgrees
  <2>2. CASE pc' # "idle"
    <3>1. pc # "idle" /\ day' \in Days /\ day'.date = day.date /\ day'.scale = day.scale
          /\ day'.start = day.start /\ (day.killed => day'.killed)
      BY <2>2
    <3>2. day.date = Today /\ day.scale = SizeOf(heir) /\ Continues(dayFile, day)
      BY <3>1 DEF DayInv, CycleAgrees
    <3>3. Continues(dayFile', day')
      BY <3>1, <3>2 DEF Continues
    <3> QED BY <3>1, <3>2, <3>3 DEF CycleAgrees, Today, SizeOf
  <2> QED BY <2>1, <2>2
<1> QED BY <1>2, <1>3, <1>4 DEF DayInv

\* The projection changes the risk and nothing else.
LEMMA Projected ==
  ASSUME NEW d \in Days, NEW counted \in Nat
  PROVE  LET new == ProjectDayRisk(d, counted)
         IN  /\ new \in Days /\ new.risk = counted /\ new.date = d.date /\ new.start = d.start
             /\ new.scale = d.scale /\ new.killed = d.killed
BY DEF Days, ProjectDayRisk

\* A save puts the record of the cycle on file.
LEMMA DaySaved ==
  ASSUME DayInv, pc # "idle", Exit, dayFile' = day, UNCHANGED <<now, heir, equity>>
  PROVE  DayInv' /\ Continues(dayFile, dayFile')
<1>1. NoDay \in Days /\ <<>> \in Seq(Proposals)  BY DEF NoDay, Days
<1>2. DayTypes'  BY <1>1 DEF DayInv, DayTypes, Exit
<1>3. Today \in Int  BY TodayIsInt DEF DayInv, DayTypes, Today
<1>4. FileAgrees'
  BY <1>3 DEF DayInv, FileAgrees, CycleAgrees, DayTypes, Today, SizeOf
<1>5. CycleAgrees'  BY DEF CycleAgrees, Exit
<1>6. Continues(dayFile, dayFile')  BY DEF DayInv, CycleAgrees
<1> QED BY <1>2, <1>4, <1>5, <1>6 DEF DayInv

\* The date is rolled over: the file is of the day before or older.
LEMMA DayTick == ASSUME DayInv, Tick PROVE DayInv'
<1>1. now \in Nat /\ now' = now + 1  BY DEF DayInv, DayTypes, Tick
<1>2. Today \in Int /\ Today' \in Int /\ Today <= Today'
  <2>1. now + 1 \in Nat  BY <1>1
  <2> QED BY <1>1, <2>1, TodayIsInt DEF Today
<1>3. dayFile' = dayFile /\ day' = day /\ todo' = todo /\ equity' = equity /\ pc' = "idle"
  BY DEF Tick, files, cycle
<1>4. heir' = IF Today' = Today THEN heir ELSE dayFile.killed
  BY <1>1 DEF Tick, Today
<1>5. dayFile \in Days /\ dayFile.date \in Int /\ dayFile.killed \in BOOLEAN
  BY DEF DayInv, DayTypes, Days
<1>6. heir' \in BOOLEAN  BY <1>4, <1>5 DEF DayInv, DayTypes
<1>7. DayTypes'  BY <1>1, <1>3, <1>6 DEF DayInv, DayTypes
<1>8. FileAgrees'
  <2>1. dayFile.date <= Today  BY DEF DayInv, FileAgrees
  <2>2. CASE Today' = Today
    BY <1>3, <1>4, <2>1, <2>2 DEF DayInv, FileAgrees, SizeOf
  <2>3. CASE Today' # Today
    <3>1. dayFile'.date <= Today' /\ dayFile'.date # Today'
      BY <1>2, <1>3, <1>5, <2>1, <2>3
    <3>2. heir' = dayFile'.killed  BY <1>3, <1>4, <2>3
    <3> QED BY <3>1, <3>2 DEF FileAgrees
  <2> QED BY <2>2, <2>3
<1>9. CycleAgrees'  BY <1>3 DEF CycleAgrees
<1> QED BY <1>7, <1>8, <1>9 DEF DayInv

\* A cycle begins: today's record is read, or made from the last one.
LEMMA Loaded ==
  ASSUME DayInv
  PROVE  LET d == LoadOrReset(dayFile, Today, equity)
         IN  d \in Days /\ d.date = Today /\ d.scale = SizeOf(heir) /\ Continues(dayFile, d)
<1> DEFINE d == LoadOrReset(dayFile, Today, equity)
<1>1. Today \in Int  BY TodayIsInt DEF DayInv, DayTypes, Today
<1>2. dayFile \in Days /\ equity \in Nat /\ heir \in BOOLEAN  BY DEF DayInv, DayTypes
<1>3. CASE dayFile.date = Today
  <2>1. d = dayFile  BY <1>3 DEF LoadOrReset
  <2> QED BY <1>2, <1>3, <2>1 DEF DayInv, FileAgrees, Continues
<1>4. CASE dayFile.date # Today
  <2>1. d = [date |-> Today, start |-> equity, risk |-> 0, killed |-> FALSE, scale |-> SizeOf(heir)]
    BY <1>4 DEF LoadOrReset, DayInv, FileAgrees, SizeOf
  <2>2. SizeOf(heir) \in {HalfScale, FullScale}  BY DEF SizeOf
  <2> HIDE DEF d
  <2>3. d \in Days  BY <1>1, <1>2, <2>1, <2>2 DEF Days
  <2>4. d.date = Today /\ d.scale = SizeOf(heir)  BY <2>1
  <2>5. Continues(dayFile, d)  BY <1>4, <2>4 DEF Continues
  <2> QED BY <2>3, <2>4, <2>5 DEF d
<1> QED BY <1>3, <1>4

LEMMA Checked ==
  ASSUME NEW d \in Days
  PROVE  LET new == CheckKill(d, equity)
         IN  /\ new \in Days /\ new.risk = d.risk /\ new.date = d.date /\ new.start = d.start
             /\ new.scale = d.scale /\ (d.killed => new.killed)
<1> DEFINE new == CheckKill(d, equity)
<1>1. (d.killed \/ Tripped(d, equity)) \in BOOLEAN  BY DEF Tripped
<1>2. new = [d EXCEPT !.killed = d.killed \/ Tripped(d, equity)]  BY DEF CheckKill
<1> HIDE DEF new
<1>3. new.killed = (d.killed \/ Tripped(d, equity))  BY <1>2 DEF Days
<1>4. new \in Days /\ new.risk = d.risk /\ new.date = d.date /\ new.start = d.start /\ new.scale = d.scale
  BY <1>1, <1>2 DEF Days
<1> QED BY <1>3, <1>4 DEF new

LEMMA BeginDay ==
  ASSUME DayInv, Begin, journal'.risk \in Nat
  PROVE  /\ day' \in Days /\ day'.risk = journal'.risk /\ day'.date = Today /\ day'.scale = SizeOf(heir)
         /\ Continues(dayFile, day')
<1> DEFINE d == LoadOrReset(dayFile, Today, equity)
           e == ProjectDayRisk(d, journal'.risk)
<1>1. day' = CheckKill(e, equity)  BY DEF Begin
<1>2. d \in Days /\ d.date = Today /\ d.scale = SizeOf(heir) /\ Continues(dayFile, d)  BY Loaded
<1> HIDE DEF d
<1>3. /\ e \in Days /\ e.risk = journal'.risk /\ e.date = d.date /\ e.start = d.start
      /\ e.scale = d.scale /\ e.killed = d.killed
  BY <1>2, Projected
<1> HIDE DEF e
<1>4. /\ day' \in Days /\ day'.risk = e.risk /\ day'.date = e.date /\ day'.start = e.start
      /\ day'.scale = e.scale /\ (e.killed => day'.killed)
  BY <1>1, <1>3, Checked
<1>5. Continues(dayFile, day')  BY <1>2, <1>3, <1>4 DEF Continues
<1> QED BY <1>2, <1>3, <1>4, <1>5

LEMMA DayBegin == ASSUME DayInv, Begin, journal'.risk \in Nat PROVE DayInv'
<1>1. UNCHANGED <<now, equity, heir, dayFile, todo>>  BY DEF Begin, files
<1>2. DayTypes'  BY <1>1, BeginDay DEF DayInv, DayTypes
<1>3. FileAgrees'  BY <1>1 DEF DayInv, FileAgrees, Today, SizeOf
<1>4. CycleAgrees'
  <2>1. Today' = Today /\ SizeOf(heir)' = SizeOf(heir)  BY <1>1 DEF Today, SizeOf
  <2>2. Continues(dayFile', day')  BY <1>1, BeginDay DEF Continues
  <2> QED BY <2>1, <2>2, BeginDay DEF CycleAgrees
<1> QED BY <1>2, <1>3, <1>4 DEF DayInv

\* What an admission, an unanswered one or a crash in it leaves in the journal.
LEMMA HeadLoss ==
  ASSUME DayInv, Admitting
  PROVE  Head(todo) \in Proposals /\ Head(todo).loss \in Nat /\ Tail(todo) \in Seq(Proposals)
<1>1. todo \in Seq(Proposals) /\ todo # <<>>  BY DEF DayInv, DayTypes, Admitting
<1>2. Head(todo) \in Proposals /\ Tail(todo) \in Seq(Proposals)  BY <1>1
<1> QED BY <1>2, TradingAssumption

LEMMA JournalCounts ==
  ASSUME DayInv, JournalInv, NEW loss \in Nat, now' = now,
         \/ journal' = Counting(loss) /\ owed' \in {owed, owed + loss}
         \/ \E taken \in BOOLEAN :
              /\ journal' = [Counting(loss) EXCEPT !.doubt = [loss |-> loss, date |-> Today, taken |-> taken]]
              /\ owed' = IF taken THEN owed + loss ELSE owed
  PROVE  /\ journal' \in Journals /\ journal'.doubt.date \in -1..Today' /\ owed' \in Nat
         /\ owed' + Untaken(journal)' <= journal'.risk /\ owed' <= journal'.risk
         /\ owed <= journal.risk /\ journal.risk <= journal'.risk
<1>1. Today \in Nat /\ Today' = Today
  BY TodayIsNat DEF DayInv, DayTypes, Today
<1>2. /\ journal.risk \in Nat /\ journal.doubt.loss \in Nat /\ owed \in Nat
      /\ journal \in Journals /\ journal.doubt.date \in -1..Today
      /\ owed + Untaken(journal) <= journal.risk
  BY DEF JournalInv, Journals
<1>3. Untaken(journal) \in Nat  BY <1>2 DEF Untaken
<1>4. Counting(loss) \in Journals /\ Counting(loss).risk = journal.risk + loss
      /\ Counting(loss).doubt = journal.doubt
  <2> DEFINE more == journal.risk + loss
  <2>1. more \in Nat  BY <1>2
  <2>2. Counting(loss) = [journal EXCEPT !.risk = more]  BY DEF Counting
  <2> HIDE DEF more
  <2>3. Counting(loss) \in Journals /\ Counting(loss).risk = more /\ Counting(loss).doubt = journal.doubt
    BY <1>2, <2>1, <2>2 DEF Journals
  <2> QED BY <2>3 DEF more
<1>5. CASE journal' = Counting(loss) /\ owed' \in {owed, owed + loss}
  <2>1. Untaken(journal)' = Untaken(journal)  BY <1>1, <1>4, <1>5 DEF Untaken
  <2> QED BY <1>1, <1>2, <1>3, <1>4, <1>5, <2>1
<1>6. ASSUME NEW taken \in BOOLEAN,
             journal' = [Counting(loss) EXCEPT !.doubt = [loss |-> loss, date |-> Today, taken |-> taken]],
             owed' = IF taken THEN owed + loss ELSE owed
      PROVE  /\ journal' \in Journals /\ journal'.doubt.date \in -1..Today' /\ owed' \in Nat
             /\ owed' + Untaken(journal)' <= journal'.risk /\ owed' <= journal'.risk
             /\ owed <= journal.risk /\ journal.risk <= journal'.risk
  <2>1. journal' \in Journals /\ journal'.risk = journal.risk + loss
        /\ journal'.doubt = [loss |-> loss, date |-> Today, taken |-> taken]
    BY <1>1, <1>4, <1>6 DEF Journals
  <2>2. Untaken(journal)' = IF taken THEN 0 ELSE loss  BY <1>1, <2>1 DEF Untaken
  <2> QED BY <1>1, <1>2, <1>3, <1>6, <2>1, <2>2
<1> QED BY <1>5, <1>6

LEMMA AdmissionCounts ==
  ASSUME DayInv, JournalInv, now' = now, NEW p, p.loss \in Nat,
         HeldOnly(p) \/ InDoubt(p) \/ (journal' = Counting(p.loss) /\ Taken(p))
  PROVE  /\ journal' \in Journals /\ journal'.doubt.date \in -1..Today' /\ owed' \in Nat
         /\ owed' + Untaken(journal)' <= journal'.risk /\ owed' <= journal'.risk
         /\ owed <= journal.risk /\ journal.risk <= journal'.risk
<1>1. \/ journal' = Counting(p.loss) /\ owed' \in {owed, owed + p.loss}
      \/ \E taken \in BOOLEAN :
           /\ journal' = [Counting(p.loss) EXCEPT !.doubt = [loss |-> p.loss, date |-> Today, taken |-> taken]]
           /\ owed' = IF taken THEN owed + p.loss ELSE owed
  BY DEF HeldOnly, InDoubt, Taken, NotTaken
<1> QED BY <1>1, JournalCounts

LEMMA JournalInit == Init => JournalInv
<1> SUFFICES ASSUME Init PROVE JournalInv  OBVIOUS
<1>1. Today \in Int /\ Today >= 0
  <2>1. 0 \div TicksPerDay = 0  BY TradingAssumption, SMT DEF TradingAssumption
  <2> QED BY <2>1 DEF Init, Today
<1>2. journal = [risk |-> 0, doubt |-> [loss |-> 0, date |-> -1, taken |-> FALSE]] /\ owed = 0 /\ pc = "idle"
  BY DEF Init, NoDoubt
<1>3. Untaken(journal) = 0  BY <1>2 DEF Untaken
<1> QED BY <1>1, <1>2, <1>3 DEF JournalInv, Journals

LEMMA JournalUntouched ==
  ASSUME JournalInv, UNCHANGED <<now, admissions>>, pc' = "idle" \/ (pc # "idle" /\ day' = day)
  PROVE  JournalInv'
<1>1. UNCHANGED <<journal, owed>> /\ Today' = Today  BY DEF admissions, Today
<1>2. Untaken(journal)' = Untaken(journal)  BY <1>1 DEF Untaken
<1> QED BY <1>1, <1>2 DEF JournalInv

\* A new date has no reservations yet; a dispatch of the old one stays in doubt.
LEMMA JournalTick == ASSUME DayInv, JournalInv, Tick PROVE JournalInv'
<1>1. now \in Nat /\ now' = now + 1 /\ pc' = "idle"  BY DEF DayInv, DayTypes, Tick, cycle
<1>2. Today \in Int /\ Today' \in Int /\ Today <= Today'
  BY <1>1, TodayIsInt DEF Today
<1>3. CASE Today' = Today
  <2>1. UNCHANGED <<journal, owed>>  BY <1>1, <1>3 DEF Tick, Today, admissions
  <2>2. Untaken(journal)' = Untaken(journal)  BY <1>3, <2>1 DEF Untaken
  <2> QED BY <1>1, <1>3, <2>1, <2>2 DEF JournalInv
<1>4. CASE Today' # Today
  <2>1. journal' = [journal EXCEPT !.risk = 0] /\ owed' = 0  BY <1>1, <1>4 DEF Tick, Today
  <2>2. journal' \in Journals /\ journal'.risk = 0 /\ journal'.doubt = journal.doubt
    BY <2>1 DEF JournalInv, Journals
  <2>3. journal'.doubt.date \in -1..Today' /\ journal'.doubt.date # Today'
    BY <1>2, <1>4, <2>2 DEF JournalInv
  <2>4. Untaken(journal)' = 0  BY <2>3 DEF Untaken
  <2> QED BY <1>1, <2>1, <2>2, <2>3, <2>4 DEF JournalInv
<1> QED BY <1>3, <1>4

\* A dispatch proved absent is released, but nothing the broker took.
LEMMA JournalBegin == ASSUME DayInv, JournalInv, Begin PROVE JournalInv'
<1>1. Today' = Today /\ owed' = owed  BY DEF Begin, Today
<1>2. Today \in Nat  BY TodayIsNat DEF DayInv, DayTypes, Today
<1>3. /\ journal \in Journals /\ journal.risk \in Nat /\ journal.doubt.loss \in Nat /\ owed \in Nat
      /\ journal.doubt.date \in -1..Today /\ owed + Untaken(journal) <= journal.risk
  BY DEF JournalInv, Journals
<1>4. NoDoubt \in [loss : Nat, date : Int, taken : BOOLEAN] /\ NoDoubt.date = -1  BY DEF NoDoubt
<1>5. /\ journal' \in Journals /\ journal'.doubt.date \in -1..Today
      /\ owed + Untaken(journal') <= journal'.risk /\ owed <= journal'.risk
  <2>1. Untaken(journal) \in Nat  BY <1>3 DEF Untaken
  <2>2. CASE journal' = journal  BY <1>3, <2>1, <2>2
  <2>3. CASE journal.doubt.taken /\ journal' = [journal EXCEPT !.doubt = NoDoubt]
    <3>1. journal' \in Journals /\ journal'.risk = journal.risk /\ journal'.doubt = NoDoubt
      BY <1>3, <1>4, <2>3 DEF Journals
    <3>2. Untaken(journal') = 0  BY <1>2, <1>4, <3>1 DEF Untaken
    <3> QED BY <1>2, <1>3, <1>4, <2>1, <3>1, <3>2
  <2>4. CASE ~journal.doubt.taken /\
             journal' = [risk |-> IF journal.doubt.date = Today THEN journal.risk - journal.doubt.loss
                                  ELSE journal.risk,
                         doubt |-> NoDoubt]
    <3> DEFINE left == IF journal.doubt.date = Today THEN journal.risk - journal.doubt.loss ELSE journal.risk
    <3>1. left \in Nat /\ owed <= left  BY <1>3, <2>4 DEF Untaken
    <3>2. journal' = [risk |-> left, doubt |-> NoDoubt]  BY <2>4
    <3> HIDE DEF left
    <3>3. journal' \in Journals /\ journal'.risk = left /\ journal'.doubt = NoDoubt
      BY <1>4, <3>1, <3>2 DEF Journals
    <3>4. Untaken(journal') = 0  BY <1>2, <1>4, <3>3 DEF Untaken
    <3> QED BY <1>2, <1>3, <1>4, <3>1, <3>3, <3>4
  <2> QED BY <2>2, <2>3, <2>4 DEF Begin, ReconcileUnresolved
<1>6. journal'.risk \in Nat  BY <1>5 DEF Journals
<1>7. day'.risk = journal'.risk  BY <1>6, BeginDay
<1>8. Untaken(journal)' = Untaken(journal')  BY <1>1 DEF Untaken
<1> QED BY <1>1, <1>3, <1>5, <1>6, <1>7, <1>8 DEF JournalInv

LEMMA JournalStep ==
  ASSUME DayInv, JournalInv, [Next]_vars
  PROVE  JournalInv'
<1>1. day \in Days  BY DEF DayInv, DayTypes
<1>2. CASE UNCHANGED vars
  <2>1. UNCHANGED <<now, journal, owed, pc, day>> /\ UNCHANGED Today
    BY <1>2 DEF vars, cycle, admissions, Today
  <2> QED BY <2>1 DEF JournalInv, Untaken
<1>3. CASE Tick  BY <1>3, JournalTick
<1>4. CASE EquityMoves \/ Edit \/ \E k \in Kinds : Fill(k)
  <2>1. UNCHANGED <<now, journal, owed, pc, day>> /\ UNCHANGED Today
    BY <1>4 DEF EquityMoves, Edit, Fill, cycle, admissions, Today
  <2> QED BY <2>1 DEF JournalInv, Untaken
<1>5. CASE Begin  BY <1>5, JournalBegin
<1>6. CASE SettlePending \/ ManageExits \/ GatesPass \/ Choose \/ Refuse
  <2>1. UNCHANGED <<now, admissions>> /\ pc # "idle" /\ day' = day
    BY <1>6 DEF SettlePending, ManageExits, GatesPass, Choose, Refuse, cycle
  <2> QED BY <2>1, JournalUntouched
<1>7. CASE GatesRefuse \/ ChooseNothing \/ SaveDay \/ Crash
  <2>1. UNCHANGED <<now, admissions>> /\ pc' = "idle"
    BY <1>7 DEF GatesRefuse, ChooseNothing, SaveDay, Crash, Exit
  <2> QED BY <2>1, JournalUntouched
<1>8. CASE NotAdmitted
  <2>1. Admitting /\ now' = now /\ day' = ProjectDayRisk(day, journal.risk)
        /\ (HeldOnly(Head(todo)) \/ UNCHANGED admissions)
    BY <1>8 DEF NotAdmitted
  <2>2. journal.risk \in Nat  BY DEF JournalInv, Journals
  <2>3. day'.risk = journal.risk  BY <1>1, <2>1, <2>2, Projected
  <2>4. CASE HeldOnly(Head(todo))
    <3>1. owed' = owed  BY <2>4 DEF HeldOnly
    <3> QED BY <2>1, <2>3, <2>4, <3>1, HeadLoss, AdmissionCounts DEF JournalInv
  <2>5. CASE UNCHANGED admissions
    <3>1. UNCHANGED <<journal, owed>> /\ UNCHANGED Today  BY <2>1, <2>5 DEF admissions, Today
    <3>2. Untaken(journal)' = Untaken(journal)  BY <3>1 DEF Untaken
    <3>3. Untaken(journal) \in Nat /\ owed \in Nat  BY DEF Untaken, JournalInv, Journals
    <3>4. owed <= journal.risk /\ journal.risk <= journal.risk  BY <2>2, <3>3 DEF JournalInv
    <3> QED BY <2>3, <3>1, <3>2, <3>4 DEF JournalInv
  <2> QED BY <2>1, <2>4, <2>5
<1>9. CASE Enter \/ Uncertain
  <2>1. Admitting /\ now' = now /\ day' = ProjectDayRisk(day, journal'.risk)
        /\ (InDoubt(Head(todo)) \/ (journal' = Counting(Head(todo).loss) /\ Taken(Head(todo))))
    BY <1>9 DEF Enter, Uncertain
  <2>2. /\ journal' \in Journals /\ journal'.doubt.date \in -1..Today' /\ owed' \in Nat
        /\ owed' + Untaken(journal)' <= journal'.risk /\ owed' <= journal'.risk
    BY <2>1, HeadLoss, AdmissionCounts
  <2>3. journal'.risk \in Nat  BY <2>2 DEF Journals
  <2>4. day'.risk = journal'.risk  BY <1>1, <2>1, <2>3, Projected
  <2> QED BY <2>2, <2>3, <2>4 DEF JournalInv
<1>10. CASE CrashAdmitting
  <2>1. Admitting /\ now' = now /\ pc' = "idle" /\ (InDoubt(Head(todo)) \/ HeldOnly(Head(todo)))
    BY <1>10 DEF CrashAdmitting, Exit
  <2> QED BY <2>1, HeadLoss, AdmissionCounts DEF JournalInv
<1> QED BY <1>2, <1>3, <1>4, <1>5, <1>6, <1>7, <1>8, <1>9, <1>10 DEF Next

LEMMA DayStep ==
  ASSUME DayInv, JournalInv, JournalInv', [Next]_vars
  PROVE  DayInv' /\ (dayFile' # dayFile => Continues(dayFile, dayFile'))
<1>1. NoDay \in Days /\ <<>> \in Seq(Proposals)  BY DEF NoDay, Days
<1>2. equity \in Nat /\ day \in Days /\ todo \in Seq(Proposals)
      /\ journal.risk \in Nat /\ journal'.risk \in Nat
  BY DEF DayInv, DayTypes, Days, JournalInv, Journals
<1>3. CASE UNCHANGED vars
  BY <1>2, <1>3, DayUntouched DEF vars, cycle, files
<1>4. CASE Tick  BY <1>4, DayTick DEF Tick, files
<1>5. CASE EquityMoves
  <2>1. equity' \in Nat  BY <1>5, TradingAssumption DEF EquityMoves, TradingAssumption
  <2> QED BY <1>2, <1>5, <2>1, DayUntouched DEF EquityMoves, cycle, files
<1>6. CASE Edit  BY <1>2, <1>6, DayUntouched DEF Edit, cycle, files
<1>7. CASE \E k \in Kinds : Fill(k)  BY <1>2, <1>7, DayUntouched DEF Fill, cycle, files
<1>8. CASE Begin  BY <1>2, <1>8, DayBegin DEF Begin, files
<1>9. CASE SettlePending  BY <1>2, <1>9, DayUntouched DEF SettlePending, cycle, files
<1>10. CASE ManageExits  BY <1>2, <1>10, DayUntouched DEF ManageExits, files
<1>11. CASE GatesRefuse  BY <1>1, <1>2, <1>11, DayUntouched DEF GatesRefuse, Exit
<1>12. CASE GatesPass  BY <1>2, <1>12, DayUntouched DEF GatesPass
<1>13. CASE Choose
  <2>1. todo' \in Seq(Proposals)
    <3>1. todo' \in UNION {[1 .. m -> Proposals] : m \in 0 .. MaxProposals}
      BY <1>13 DEF Choose, BoundedSeq, SeqOf
    <3>2. PICK m \in 0 .. MaxProposals : todo' \in [1 .. m -> Proposals]  BY <3>1
    <3>3. m \in Nat  BY <3>2, TradingAssumption DEF TradingAssumption
    <3> QED BY <3>2, <3>3
  <2> QED BY <1>2, <1>13, <2>1, DayUntouched DEF Choose, files
<1>14. CASE ChooseNothing
  <2>1. Exit /\ dayFile' = day /\ pc # "idle" /\ UNCHANGED <<now, heir, equity>>
    BY <1>14 DEF ChooseNothing
  <2> QED BY <2>1, DaySaved
<1>15. CASE Refuse
  <2>1. todo' \in Seq(Proposals)  BY <1>2, <1>15 DEF Refuse
  <2> QED BY <1>2, <1>15, <2>1, DayUntouched DEF Refuse, files
<1>16. CASE NotAdmitted \/ Enter \/ Uncertain
  <2>1. Admitting /\ pc # "idle" /\ UNCHANGED <<now, equity, heir, dayFile>> /\ todo' \in {Tail(todo), <<>>}
    BY <1>16 DEF NotAdmitted, Enter, Uncertain, Admitting, files
  <2>2. PICK counted \in Nat : day' = ProjectDayRisk(day, counted)
    BY <1>2, <1>16 DEF NotAdmitted, Enter, Uncertain
  <2>3. day' \in Days /\ day'.date = day.date /\ day'.scale = day.scale
        /\ day'.start = day.start /\ day'.killed = day.killed
    BY <1>2, <2>2, Projected
  <2>4. todo' \in Seq(Proposals)  BY <1>1, <2>1, HeadLoss
  <2>5. DayInv'  BY <1>2, <2>1, <2>3, <2>4, DayUntouched
  <2> QED BY <2>1, <2>5
<1>17. CASE SaveDay
  <2>1. Exit /\ dayFile' = day /\ pc # "idle" /\ UNCHANGED <<now, heir, equity>>
    BY <1>17 DEF SaveDay
  <2> QED BY <2>1, DaySaved
<1>18. CASE Crash \/ CrashAdmitting
  BY <1>1, <1>2, <1>18, DayUntouched DEF Crash, CrashAdmitting, Exit, files
<1> QED BY <1>3, <1>4, <1>5, <1>6, <1>7, <1>8, <1>9, <1>10, <1>11, <1>12, <1>13, <1>14, <1>15,
           <1>16, <1>17, <1>18 DEF Next

LEMMA DayInvariant == Spec => [](DayInv /\ JournalInv)
  BY DayInit, JournalInit, DayStep, JournalStep, PTL DEF Spec

\* However many cycles of a day were refused or died, its entries are sized by
\* what the day before it says (daystate.py:49-68).
THEOREM KilledDayHalves == Spec => []KilledDayHalvesTheNext
<1>1. DayInv => KilledDayHalvesTheNext
  BY DEF DayInv, CycleAgrees, SizeOf, KilledDayHalvesTheNext
<1> QED BY <1>1, DayInvariant, PTL

\* The record on file is only ever continued within a day (daystate.py:90), and
\* its risk lies between what the broker took and what the journal counts,
\* whatever died, was released or never answered (entry_submission.py:76-80).
THEOREM SavedDayKept == Spec => SavedDayIsKept
<1>1. ASSUME DayInv, JournalInv, [Next]_vars
      PROVE  [/\ dayFile.date = dayFile'.date =>
                   /\ dayFile'.start = dayFile.start /\ dayFile'.scale = dayFile.scale
                   /\ dayFile.killed => dayFile'.killed
              /\ owed' <= dayFile'.risk /\ dayFile'.risk <= journal'.risk]_dayFile
  <2>1. JournalInv'  BY <1>1, JournalStep
  <2>2. dayFile' # dayFile => Continues(dayFile, dayFile')  BY <1>1, <2>1, DayStep
  <2>3. dayFile' # dayFile => dayFile' = day /\ pc # "idle" /\ UNCHANGED <<journal, owed>>
    BY <1>1 DEF Next, vars, files, admissions, Tick, EquityMoves, Edit, Fill, Begin, SettlePending,
       ManageExits, GatesRefuse, GatesPass, Choose, ChooseNothing, Refuse, NotAdmitted, Enter, Uncertain,
       SaveDay, Crash, CrashAdmitting
  <2> QED BY <1>1, <2>2, <2>3 DEF Continues, JournalInv
<1> QED BY <1>1, DayInvariant, PTL DEF Spec, SavedDayIsKept

-----------------------------------------------------------------------------
\* The permit.

PermitAgrees ==
  permit.ready => earned.at = permit.at /\ earned.sha = permit.sha /\ permit.at \in Nat

LEMMA PermitStep ==
  ASSUME DayInv, PermitAgrees, [Next]_vars
  PROVE  PermitAgrees'
<1>1. CASE UNCHANGED <<permit, earned>>  BY <1>1 DEF PermitAgrees
<1>2. CASE \E f : Preflown(f)
  <2>1. now \in Nat  BY DEF DayInv, DayTypes
  <2>2. PICK f : Preflown(f)  BY <1>2
  <2> QED BY <2>1, <2>2 DEF Preflown, WritePermit, PermitAgrees
<1> QED BY <1>1, <1>2 DEF Next, vars, files, Tick, EquityMoves, Edit, Fill, Begin, SettlePending,
           ManageExits, GatesRefuse, GatesPass, Choose, ChooseNothing, Refuse, NotAdmitted, Enter,
           Uncertain, SaveDay, Crash, CrashAdmitting

\* Who is allowed by the permit can rely on it (safety_gate.py:99-134).
THEOREM PermitEarned == Spec => []PermitIsEarned
<1>1. Init => PermitAgrees  BY DEF Init, NoPermit, PermitAgrees
<1>2. PermitAgrees => PermitIsEarned
  BY DEF PermitAgrees, PermitIsEarned, PermitAllows
<1> QED BY <1>1, <1>2, PermitStep, DayInvariant, PTL DEF Spec
-----------------------------------------------------------------------------
(* Counts of structures and of their legs.                                 *)

Counts == [Kinds -> Nat]
Legged(p, f, o) == SumOf([k \in Kinds |-> LegCount[k] * (p[k] + f[k] + o[k])])

LEMMA SumOfKinds ==
  ASSUME NEW f \in Counts
  PROVE  SumOf(f) = SumFunctionOnSet(f, Kinds) /\ SumOf(f) \in Nat
<1>1. DOMAIN f = Kinds /\ \A k \in Kinds : f[k] \in Nat
  BY DEF Counts
<1>2. SumOf(f) = SumFunctionOnSet(f, DOMAIN f)
  BY DEF SumOf, FoldFunction, SumFunctionOnSet
<1>3. IsFiniteSet(Kinds)
  BY TradingAssumption
<1> QED BY <1>1, <1>2, <1>3, SumGrows

LEMMA SumOfNothing ==
  ASSUME NEW f \in Counts, SumOf(f) = 0
  PROVE  \A k \in Kinds : f[k] = 0
<1>1. IsFiniteSet(Kinds) /\ \A k \in Kinds : f[k] \in Nat
  BY TradingAssumption DEF Counts
<1> QED BY <1>1, SumOfKinds, SumZero

LEMMA SumOfMonotone ==
  ASSUME NEW f \in Counts, NEW g \in Counts, \A k \in Kinds : f[k] <= g[k]
  PROVE  SumOf(f) <= SumOf(g)
<1>1. IsFiniteSet(Kinds) /\ \A k \in Kinds : f[k] \in Nat /\ g[k] \in Nat /\ f[k] <= g[k]
  BY TradingAssumption DEF Counts
<1>2. SumFunctionOnSet(f, Kinds) <= SumFunctionOnSet(g, Kinds)
  BY <1>1, SumMonotone
<1> QED BY <1>2, SumOfKinds

LEMMA SumOfOneMore ==
  ASSUME NEW f \in Counts, NEW g \in Counts, NEW k \in Kinds, NEW n \in Nat,
         g[k] = f[k] + n, \A h \in Kinds \ {k} : g[h] = f[h]
  PROVE  SumOf(g) = SumOf(f) + n
<1>1. IsFiniteSet(Kinds) /\ \A h \in Kinds : f[h] \in Nat /\ g[h] \in Nat /\ f[h] \in Int /\ g[h] \in Int
  BY TradingAssumption DEF Counts
<1>2. /\ SumFunctionOnSet(f, Kinds) = f[k] + SumFunctionOnSet(f, Kinds \ {k})
      /\ SumFunctionOnSet(g, Kinds) = g[k] + SumFunctionOnSet(g, Kinds \ {k})
  BY <1>1, SumSplit
<1>3. IsFiniteSet(Kinds \ {k})
  BY <1>1, FS_Subset
<1>4. SumFunctionOnSet(f, Kinds \ {k}) = SumFunctionOnSet(g, Kinds \ {k})
  BY <1>1, <1>3, SumSame
<1>5. SumFunctionOnSet(f, Kinds \ {k}) \in Int
  BY <1>1, <1>3, SumInt
<1>6. \A a, b, c, d \in Int : (c = a + d /\ b = a) => c + b = (a + b) + d
  OBVIOUS
<1>7. \A a, b, c \in Int : (a + b) + c = (a + c) + b
  OBVIOUS
<1> DEFINE rest == SumFunctionOnSet(f, Kinds \ {k})
<1>8. SumOf(f) = f[k] + rest /\ SumOf(g) = (f[k] + n) + rest
  BY <1>2, <1>4, SumOfKinds
<1> HIDE DEF rest
<1> QED BY <1>1, <1>5, <1>7, <1>8 DEF rest

\* Legs: of the same structures, of fewer, and of one more.
LEMMA LegsAreCounts ==
  ASSUME NEW p \in Counts, NEW f \in Counts, NEW o \in Counts
  PROVE  /\ [k \in Kinds |-> LegCount[k] * (p[k] + f[k] + o[k])] \in Counts
         /\ Legged(p, f, o) \in Nat
<1>1. \A k \in Kinds : LegCount[k] \in Nat /\ p[k] \in Nat /\ f[k] \in Nat /\ o[k] \in Nat
  BY TradingAssumption DEF Counts
<1>2. \A k \in Kinds : p[k] + f[k] + o[k] \in Nat
  BY <1>1
<1>3. \A a, b \in Nat : a * b \in Nat
  OBVIOUS
<1>4. \A k \in Kinds : LegCount[k] * (p[k] + f[k] + o[k]) \in Nat
  BY <1>1, <1>2, <1>3
<1>5. [k \in Kinds |-> LegCount[k] * (p[k] + f[k] + o[k])] \in Counts
  BY <1>4 DEF Counts
<1> QED BY <1>5, SumOfKinds DEF Legged

LEMMA LegsFewer ==
  ASSUME NEW p \in Counts, NEW f \in Counts, NEW o \in Counts,
         NEW q \in Counts, NEW g \in Counts, NEW r \in Counts,
         \A k \in Kinds : p[k] + f[k] + o[k] <= q[k] + g[k] + r[k]
  PROVE  Legged(p, f, o) <= Legged(q, g, r)
<1> DEFINE F == [k \in Kinds |-> LegCount[k] * (p[k] + f[k] + o[k])]
           G == [k \in Kinds |-> LegCount[k] * (q[k] + g[k] + r[k])]
<1>1. F \in Counts /\ G \in Counts
  BY LegsAreCounts
<1>2. \A k \in Kinds : /\ LegCount[k] \in Nat
                       /\ p[k] \in Nat /\ f[k] \in Nat /\ o[k] \in Nat
                       /\ q[k] \in Nat /\ g[k] \in Nat /\ r[k] \in Nat
  BY TradingAssumption DEF Counts
<1>3. \A k \in Kinds : p[k] + f[k] + o[k] \in Nat /\ q[k] + g[k] + r[k] \in Nat
  BY <1>2
<1>4. \A c, a, b \in Nat : a <= b => c * a <= c * b
  OBVIOUS
<1>5. \A k \in Kinds : F[k] <= G[k]
  BY <1>2, <1>3, <1>4
<1>6. Legged(p, f, o) = SumOf(F) /\ Legged(q, g, r) = SumOf(G)
  BY DEF Legged
<1> HIDE DEF F, G
<1> QED BY <1>1, <1>5, <1>6, SumOfMonotone

LEMMA LegsKept ==
  ASSUME NEW p \in Counts, NEW f \in Counts, NEW o \in Counts,
         NEW q \in Counts, NEW g \in Counts, NEW r \in Counts,
         \A k \in Kinds : p[k] + f[k] + o[k] = q[k] + g[k] + r[k]
  PROVE  Legged(p, f, o) = Legged(q, g, r)
BY DEF Legged

OneMore(p, k) == [p EXCEPT ![k] = @ + 1]

LEMMA LegsMore ==
  ASSUME NEW p \in Counts, NEW f \in Counts, NEW o \in Counts, NEW k \in Kinds
  PROVE  /\ OneMore(p, k) \in Counts
         /\ Legged(OneMore(p, k), f, o) = Legged(p, f, o) + LegCount[k]
<1> DEFINE q == OneMore(p, k)
           F == [h \in Kinds |-> LegCount[h] * (p[h] + f[h] + o[h])]
           G == [h \in Kinds |-> LegCount[h] * (q[h] + f[h] + o[h])]
<1>8. q \in Counts
  BY DEF Counts, OneMore
<1> HIDE DEF q
<1>1. F \in Counts /\ G \in Counts
  BY <1>8, LegsAreCounts
<1>2. LegCount[k] \in Nat /\ p[k] \in Nat /\ f[k] \in Nat /\ o[k] \in Nat
  BY TradingAssumption DEF Counts
<1>3. q[k] = p[k] + 1 /\ \A h \in Kinds \ {k} : q[h] = p[h]
  BY DEF Counts, OneMore, q
<1>4. \A c, a, b, d \in Nat : c * ((a + 1) + b + d) = c * (a + b + d) + c
  OBVIOUS
<1>5. G[k] = F[k] + LegCount[k]
  <2>1. F[k] = LegCount[k] * (p[k] + f[k] + o[k])
    OBVIOUS
  <2>2. G[k] = LegCount[k] * ((p[k] + 1) + f[k] + o[k])
    BY <1>3
  <2> HIDE DEF F, G
  <2>3. LegCount[k] * ((p[k] + 1) + f[k] + o[k]) = LegCount[k] * (p[k] + f[k] + o[k]) + LegCount[k]
    BY <1>2, <1>4
  <2> QED BY <2>1, <2>2, <2>3
<1>7. \A h \in Kinds \ {k} : G[h] = F[h]
  BY <1>3
<1>6. Legged(p, f, o) = SumOf(F) /\ Legged(q, f, o) = SumOf(G)
  BY DEF Legged
<1> HIDE DEF F, G
<1>9. Legged(q, f, o) = Legged(p, f, o) + LegCount[k]
  BY <1>1, <1>2, <1>5, <1>6, <1>7, SumOfOneMore
<1> QED BY <1>8, <1>9 DEF q

\* Some kind has the most legs.
LEMMA MostLegsIsMost ==
  MostLegs \in Nat /\ \A k \in Kinds : LegCount[k] <= MostLegs
<1>1. IsFiniteSet(Kinds) /\ Kinds # {} /\ \A k \in Kinds : LegCount[k] \in Nat
  BY TradingAssumption
<1> DEFINE P == {T \in SUBSET Kinds : T # {} => \E m \in T : \A k \in T : LegCount[k] <= LegCount[m]}
<1>2. {} \in P
  OBVIOUS
<1>3. \A T \in SUBSET Kinds : \A x \in Kinds \ T : T \in P => T \cup {x} \in P
  <2> SUFFICES ASSUME NEW T \in SUBSET Kinds, NEW x \in Kinds \ T, T \in P
               PROVE  \E m \in T \cup {x} : \A k \in T \cup {x} : LegCount[k] <= LegCount[m]
    OBVIOUS
  <2>1. CASE T = {}
    BY <1>1, <2>1
  <2>2. CASE T # {}
    <3>1. PICK m \in T : \A k \in T : LegCount[k] <= LegCount[m]
      BY <2>2
    <3>2. LegCount[m] <= LegCount[x] \/ LegCount[x] <= LegCount[m]
      BY <1>1
    <3> QED BY <1>1, <3>1, <3>2
  <2> QED BY <2>1, <2>2
<1> HIDE DEF P
<1>4. Kinds \in P
  BY <1>1, <1>2, <1>3, AddUp
<1>5. PICK m \in Kinds : \A k \in Kinds : LegCount[k] <= LegCount[m]
  BY <1>1, <1>4 DEF P
<1>6. MostLegs \in {LegCount[k] : k \in Kinds} /\ \A k \in Kinds : LegCount[k] <= MostLegs
  BY <1>5 DEF MostLegs
<1> QED BY <1>1, <1>6
-----------------------------------------------------------------------------
(* The book and the stamps over a cycle.                                   *)

BookTypes ==
  /\ pending \in Counts /\ filled \in Counts /\ ended \in Counts /\ open \in Counts
  /\ pc \in {"idle", "entries", "exits", "gates", "choose", "entering"}
  /\ Len(todo) <= MaxProposals /\ seen \in Nat
  /\ pc \in {"choose", "entering"} => facts.broker \in Nat

Stamps ==
  /\ dayFile.date \in -1..Today /\ day.date \in -1..Today /\ tripped \subseteq 0..Today
  /\ permit.at \in 0..now /\ earned.at \in -1..now

\* The gates are passed on an empty list of pending entries, so that what they
\* saw is the whole book; the entries of the cycle are what comes on top.
NothingPending == \A k \in Kinds : pending[k] = 0 /\ filled[k] = 0
Counted ==
  /\ pc = "gates" /\ NothingPending => seen = OnBook
  /\ pc = "choose" => NothingPending /\ facts.broker = OnBook
  /\ pc = "entering" => OnBook + Len(todo) * MostLegs <= facts.broker + MaxProposals * MostLegs

\* A candidate of a limited engine is the only one, of nothing on the book.
Reserved(p, f, o, s) ==
  \A k \in Kinds : \A i \in DOMAIN s :
    LimitOf[k] = 1 /\ s[i].kind = k =>
      p[k] + f[k] + o[k] = 0 /\ \A j \in DOMAIN s : s[j].kind = k => i = j
Limited == pc = "entering" => Reserved(pending, filled, open, todo)

BookInv == BookTypes /\ Stamps /\ Counted /\ Limited /\ PositionsBounded /\ EngineLimitHolds

LEMMA OnBookIs == OnBook = Legged(pending, filled, open)
BY DEF OnBook, Legged

LEMMA OnBookThen == OnBook' = Legged(pending', filled', open')
BY DEF OnBook, Legged

\* A step after which no kind is counted higher than before.
LEMMA BookShrinks ==
  ASSUME BookInv, BookTypes', Stamps', Counted', Limited',
         \A k \in Kinds : pending'[k] + filled'[k] + open'[k] <= pending[k] + filled[k] + open[k]
  PROVE  BookInv'
<1>1. OnBook' <= OnBook
  BY OnBookIs, OnBookThen, LegsFewer DEF BookInv, BookTypes
<1>2. OnBook \in Nat /\ OnBook' \in Nat
  BY OnBookIs, OnBookThen, LegsAreCounts DEF BookInv, BookTypes
<1>3. MaxPositions \in Nat /\ MaxProposals \in Nat /\ MostLegs \in Nat
  BY GatesAssumption, TradingAssumption, MostLegsIsMost
<1>4. PositionsBounded'
  <2> DEFINE most == (MaxPositions - 1) + MaxProposals * MostLegs
  <2>1. most \in Int
    BY <1>3
  <2>2. OnBook <= most
    BY DEF BookInv, PositionsBounded
  <2> HIDE DEF most
  <2>3. OnBook' <= most
    BY <1>1, <1>2, <2>1, <2>2
  <2>4. MostLegs' = MostLegs
    BY DEF MostLegs
  <2> QED BY <2>3, <2>4 DEF PositionsBounded, most
<1>5. EngineLimitHolds'
  <2>1. \A k \in Kinds : LimitOf[k] = 1 => pending[k] + filled[k] + open[k] <= 1
    BY DEF BookInv, EngineLimitHolds
  <2>2. \A k \in Kinds : /\ pending[k] \in Nat /\ filled[k] \in Nat /\ open[k] \in Nat
                         /\ pending'[k] \in Nat /\ filled'[k] \in Nat /\ open'[k] \in Nat
    BY DEF BookInv, BookTypes, Counts
  <2> QED BY <2>1, <2>2 DEF EngineLimitHolds
<1> QED BY <1>4, <1>5 DEF BookInv

\* A step that leaves the book alone and is not about to send.
LEMMA BookIdle ==
  ASSUME BookInv, UNCHANGED structures, pc' \in {"idle", "entries", "exits"},
         Len(todo') <= MaxProposals, seen' \in Nat, Stamps'
  PROVE  BookInv'
<1>1. UNCHANGED <<pending, filled, ended, open>>
  BY DEF structures
<1>2. BookTypes' /\ Counted' /\ Limited'
  BY <1>1 DEF BookInv, BookTypes, Counted, Limited
<1>3. \A k \in Kinds : pending'[k] + filled'[k] + open'[k] <= pending[k] + filled[k] + open[k]
  BY <1>1 DEF BookInv, BookTypes, Counts
<1> QED BY <1>2, <1>3, BookShrinks

LEMMA BookUntouched ==
  ASSUME BookInv, UNCHANGED <<structures, pc, todo, facts, seen>>, Stamps'
  PROVE  BookInv'
<1>1. UNCHANGED <<pending, filled, ended, open, pc, todo, facts, seen>>
  BY DEF structures
<1>2. OnBook' = OnBook
  BY <1>1, OnBookIs, OnBookThen
<1>3. MostLegs' = MostLegs
  BY DEF MostLegs
<1>4. NothingPending' <=> NothingPending
  BY <1>1 DEF NothingPending
<1>5. BookTypes' /\ Limited' /\ EngineLimitHolds'
  BY <1>1 DEF BookInv, BookTypes, Limited, EngineLimitHolds, Reserved
<1>6. Counted' /\ PositionsBounded'
  BY <1>1, <1>2, <1>3, <1>4 DEF BookInv, Counted, PositionsBounded
<1> QED BY <1>5, <1>6 DEF BookInv

\* What the gates say of the facts they pass on.
LEMMA GreenGates ==
  ASSUME NEW f, Blockers(Preflight(f)) = {}
  PROVE  Known(f.pendings) /\ f.pendings = 0
<1>1. "unresolved_entry_reconciliations" \in DOMAIN Preflight(f)
      /\ Preflight(f)["unresolved_entry_reconciliations"] = CheckUnresolvedEntryReconciliations(f)
  BY DEF Preflight
<1>2. SeverityOf("unresolved_entry_reconciliations") = "BLOCKING"
  BY DEF SeverityOf, Attention
<1>3. CheckUnresolvedEntryReconciliations(f)
  BY <1>1, <1>2 DEF Blockers
<1> QED BY <1>3 DEF CheckUnresolvedEntryReconciliations, NoneOf

LEMMA GreenCaps ==
  ASSUME NEW p, Passes(p)
  PROVE  facts.broker < MaxPositions
<1>1. "position_caps" \in DOMAIN Pretrade(facts, p)
      /\ Pretrade(facts, p)["position_caps"] = CheckPositionCaps(facts)
  BY DEF Pretrade
<1>2. SeverityOf("position_caps") = "BLOCKING"
  BY DEF SeverityOf, Attention
<1>3. CheckPositionCaps(facts)
  BY <1>1, <1>2 DEF Blockers, Passes
<1> QED BY <1>3 DEF CheckPositionCaps

LEMMA FactsNowAre ==
  ASSUME NEW base \in SomeFacts
  PROVE  /\ FactsNow(base).broker = seen
         /\ FactsNow(base).pendings = IF Known(base.pendings)
                                      THEN SumOf(pending) + SumOf(filled) + SumOf(ended)
                                      ELSE base.pendings
<1>1. {"broker", "equity", "ledger", "pendings", "dispatches"} \subseteq DOMAIN base
  BY TradingAssumption DEF SomeFacts
<1> QED BY <1>1 DEF FactsNow
-----------------------------------------------------------------------------
(* The stamps: nothing is of a later date, or an earlier one than known.   *)

LEMMA StampsInit == Init => Stamps
<1> SUFFICES ASSUME Init PROVE Stamps
  OBVIOUS
<1>1. now = 0 /\ dayFile.date = -1 /\ day.date = -1 /\ tripped = {} /\ permit.at = 0 /\ earned.at = -1
  BY DEF Init, NoDay, NoPermit
<1>2. Today \in Nat
  BY <1>1, TodayIsNat DEF Today
<1> QED BY <1>1, <1>2 DEF Stamps

\* Unless the date is rolled over or the gates are run.
LEMMA StampsKept ==
  ASSUME DayInv, DayInv', Stamps, UNCHANGED <<now, permit, earned>>,
         dayFile' = dayFile \/ (dayFile' = day /\ pc # "idle"),
         day' = NoDay \/ day'.date = day.date \/ pc' # "idle",
         tripped' \subseteq tripped \cup {Today}
  PROVE  Stamps'
<1>1. Today' = Today /\ Today \in Nat
  BY TodayIsNat DEF DayInv, DayTypes, Today
<1>2. dayFile'.date \in -1..Today
  BY <1>1 DEF DayInv, CycleAgrees, Stamps
<1>3. day'.date \in -1..Today
  <2>1. CASE day' = NoDay
    BY <1>1, <2>1 DEF NoDay
  <2>2. CASE day'.date = day.date
    BY <2>2 DEF Stamps
  <2>3. CASE pc' # "idle"
    BY <1>1, <2>3 DEF DayInv, CycleAgrees
  <2> QED BY <2>1, <2>2, <2>3
<1>4. tripped' \subseteq 0..Today
  BY <1>1 DEF Stamps
<1>5. permit'.at \in 0..now' /\ earned'.at \in -1..now'
  BY DEF Stamps
<1> QED BY <1>1, <1>2, <1>3, <1>4, <1>5 DEF Stamps

LEMMA StampsTick == ASSUME DayInv, Stamps, Tick PROVE Stamps'
<1>1. now \in Nat /\ now' = now + 1 /\ UNCHANGED <<files, cycle, tripped, earned>>
  BY DEF Tick, DayInv, DayTypes
<1>2. UNCHANGED <<dayFile, permit, day>>
  BY <1>1 DEF files, cycle
<1>3. Today \in Nat /\ Today' \in Nat /\ Today <= Today'
  BY <1>1, TodayIsNat, TodayIsInt DEF Today
<1>4. dayFile'.date \in -1..Today' /\ day'.date \in -1..Today' /\ tripped' \subseteq 0..Today'
  BY <1>1, <1>2, <1>3 DEF Stamps
<1>5. permit'.at \in 0..now' /\ earned'.at \in -1..now'
  BY <1>1, <1>2 DEF Stamps
<1> QED BY <1>4, <1>5 DEF Stamps

\* The gates stamp the permit with the time they are run at.
LEMMA StampsPreflown ==
  ASSUME DayInv, DayInv', Stamps, NEW f, Preflown(f), UNCHANGED <<now, dayFile, tripped>>,
         day' = NoDay \/ day' = day
  PROVE  Stamps'
<1>1. now \in Nat /\ Today' = Today /\ Today \in Nat
  BY TodayIsNat DEF DayInv, DayTypes, Today
<1>2. permit'.at = now /\ (earned'.at = now \/ earned'.at = -1)
  BY DEF Preflown, WritePermit
<1>3. day'.date \in -1..Today
  BY <1>1 DEF NoDay, Stamps
<1> QED BY <1>1, <1>2, <1>3 DEF Stamps

LEMMA StampsStep ==
  ASSUME DayInv, DayInv', Stamps, [Next]_vars
  PROVE  Stamps'
<1>1. CASE UNCHANGED vars
  BY <1>1, StampsKept DEF vars, files, cycle
<1>2. CASE Tick
  BY <1>2, StampsTick
<1>3. CASE GatesRefuse \/ GatesPass
  <2>1. PICK f : Preflown(f)
    BY <1>3 DEF GatesRefuse, GatesPass
  <2>2. UNCHANGED <<now, dayFile, tripped>> /\ (day' = NoDay \/ day' = day)
    BY <1>3 DEF GatesRefuse, GatesPass, Exit
  <2> QED BY <2>1, <2>2, StampsPreflown
<1>4. CASE Begin
  <2>1. tripped' \subseteq tripped \cup {Today} /\ pc' # "idle" /\ UNCHANGED <<now, dayFile, permit, earned>>
    BY <1>4 DEF Begin, files
  <2> QED BY <2>1, StampsKept
<1>5. CASE EquityMoves \/ Edit \/ \E k \in Kinds : Fill(k)
  <2>1. UNCHANGED <<now, dayFile, permit, earned, day, tripped>>
    BY <1>5 DEF EquityMoves, Edit, Fill, files, cycle
  <2> QED BY <2>1, StampsKept
<1>6. CASE SettlePending \/ ManageExits \/ Choose \/ Refuse
  <2>1. UNCHANGED <<now, dayFile, permit, earned, day, tripped>>
    BY <1>6 DEF SettlePending, ManageExits, Choose, Refuse, files, cycle
  <2> QED BY <2>1, StampsKept
<1>7. CASE NotAdmitted \/ Enter \/ Uncertain
  <2>1. UNCHANGED <<now, dayFile, permit, earned, tripped, pc>> /\ pc = "entering"
    BY <1>7 DEF NotAdmitted, Enter, Uncertain, Admitting, files
  <2> QED BY <2>1, StampsKept
<1>8. CASE ChooseNothing \/ SaveDay
  <2>1. UNCHANGED <<now, permit, earned, tripped>> /\ dayFile' = day /\ day' = NoDay /\ pc # "idle"
    BY <1>8 DEF ChooseNothing, SaveDay, Exit
  <2> QED BY <2>1, StampsKept
<1>9. CASE Crash \/ CrashAdmitting
  <2>1. UNCHANGED <<now, dayFile, permit, earned, tripped>> /\ day' = NoDay
    BY <1>9 DEF Crash, CrashAdmitting, Exit, files
  <2> QED BY <2>1, StampsKept
<1> QED BY <1>1, <1>2, <1>3, <1>4, <1>5, <1>6, <1>7, <1>8, <1>9 DEF Next
-----------------------------------------------------------------------------
(* The book, one action at a time.                                         *)

LEMMA NoneCounts == None \in Counts /\ \A k \in Kinds : None[k] = 0
BY DEF None, Counts

LEMMA BookInit == Init => BookInv
<1> SUFFICES ASSUME Init PROVE BookInv
  OBVIOUS
<1>1. pending = None /\ filled = None /\ ended = None /\ open = None /\ pc = "idle" /\ seen = 0 /\ todo = <<>>
  BY DEF Init
<1>2. MaxPositions \in Nat \ {0} /\ MaxProposals \in Nat /\ MostLegs \in Nat
  BY GatesAssumption, TradingAssumption, MostLegsIsMost
<1>3. BookTypes /\ Counted /\ Limited
  BY <1>1, <1>2, NoneCounts DEF BookTypes, Counted, Limited
<1>4. EngineLimitHolds
  BY <1>1, NoneCounts DEF EngineLimitHolds
<1>5. OnBook = 0
  <2> DEFINE legs == [k \in Kinds |-> LegCount[k] * (pending[k] + filled[k] + open[k])]
  <2>1. legs = None
    BY <1>1, NoneCounts, TradingAssumption DEF None
  <2>2. SumOf(None) = SumFunctionOnSet(None, Kinds)
    BY NoneCounts, SumOfKinds
  <2>3. SumFunctionOnSet(None, Kinds) = 0
    <3> DEFINE P == {T \in SUBSET Kinds : SumFunctionOnSet(None, T) = 0}
    <3>1. {} \in P
      BY SumEmpty
    <3>2. \A T \in SUBSET Kinds : \A x \in Kinds \ T : T \in P => T \cup {x} \in P
      <4> SUFFICES ASSUME NEW T \in SUBSET Kinds, NEW x \in Kinds \ T, SumFunctionOnSet(None, T) = 0
                   PROVE  SumFunctionOnSet(None, T \cup {x}) = 0
        OBVIOUS
      <4>1. IsFiniteSet(T) /\ \A y \in T \cup {x} : None[y] \in Int /\ None[y] = 0
        BY TradingAssumption, FS_Subset, NoneCounts
      <4>2. SumFunctionOnSet(None, T \cup {x}) = SumFunctionOnSet(None, T) + None[x]
        BY <4>1, SumAdd
      <4> QED BY <4>1, <4>2
    <3> HIDE DEF P
    <3>3. Kinds \in P
      BY <3>1, <3>2, TradingAssumption, AddUp
    <3> QED BY <3>3 DEF P
  <2> QED BY <2>1, <2>2, <2>3 DEF OnBook
<1>6. PositionsBounded
  <2>1. MaxProposals * MostLegs \in Nat
    BY <1>2
  <2> DEFINE most == MaxProposals * MostLegs
  <2> HIDE DEF most
  <2>2. 0 <= (MaxPositions - 1) + most
    BY <1>2, <2>1 DEF most
  <2> QED BY <1>5, <2>2 DEF PositionsBounded, most
<1> QED BY <1>3, <1>4, <1>6, StampsInit DEF BookInv

LEMMA BookTick == ASSUME BookInv, Stamps', Tick PROVE BookInv'
<1>1. pc = "idle" /\ UNCHANGED <<pc, todo, seen, filled, open>>
  BY DEF Tick, cycle, structures
<1>2. \/ UNCHANGED <<pending, ended>>
      \/ pending' = None /\ ended' = [k \in Kinds |-> ended[k] + pending[k]]
  BY DEF Tick, structures
<1>6. \A k \in Kinds : pending[k] \in Nat /\ ended[k] \in Nat /\ ended[k] + pending[k] \in Nat
  BY DEF BookInv, BookTypes, Counts
<1>7. pending \in Counts /\ ended \in Counts
  BY DEF BookInv, BookTypes
<1>3. pending' \in Counts /\ ended' \in Counts
      /\ \A k \in Kinds : pending'[k] <= pending[k]
  <2>1. CASE UNCHANGED <<pending, ended>>
    BY <1>6, <1>7, <2>1
  <2>2. CASE pending' = None /\ ended' = [k \in Kinds |-> ended[k] + pending[k]]
    <3>1. ended' \in Counts
      BY <1>6, <2>2 DEF Counts
    <3>2. \A k \in Kinds : pending'[k] <= pending[k]
      BY <1>6, <2>2, NoneCounts
    <3> QED BY <2>2, <3>1, <3>2, NoneCounts
  <2> QED BY <1>2, <2>1, <2>2
<1>4. BookTypes' /\ Counted' /\ Limited'
  BY <1>1, <1>3 DEF BookInv, BookTypes, Counted, Limited
<1>5. \A k \in Kinds : pending'[k] + filled'[k] + open'[k] <= pending[k] + filled[k] + open[k]
  <2>1. \A k \in Kinds : /\ pending'[k] \in Nat /\ pending[k] \in Nat /\ filled[k] \in Nat /\ open[k] \in Nat
                         /\ filled'[k] = filled[k] /\ open'[k] = open[k] /\ pending'[k] <= pending[k]
    BY <1>1, <1>3 DEF BookInv, BookTypes, Counts
  <2> QED BY <2>1
<1> QED BY <1>4, <1>5, BookShrinks

\* An entry that fills stays one structure of its kind.
LEMMA BookFill == ASSUME BookInv, Stamps', NEW k \in Kinds, Fill(k) PROVE BookInv'
<1>1. UNCHANGED <<ended, open, pc, todo, seen, facts>>
  BY DEF Fill, cycle
<1>2. pending \in Counts /\ filled \in Counts /\ pending[k] > 0
      /\ pending' = [pending EXCEPT ![k] = @ - 1] /\ filled' = [filled EXCEPT ![k] = @ + 1]
  BY DEF Fill, BookInv, BookTypes
<1>3. \A h \in Kinds : pending[h] \in Nat /\ filled[h] \in Nat /\ open[h] \in Nat
  BY DEF BookInv, BookTypes, Counts
<1>4. pending' \in Counts /\ filled' \in Counts /\ filled'[k] # 0
      /\ \A h \in Kinds : pending'[h] + filled'[h] = pending[h] + filled[h]
  <2>1. pending[k] - 1 \in Nat /\ filled[k] + 1 \in Nat
    BY <1>2, <1>3
  <2>2. pending' \in Counts /\ filled' \in Counts
    BY <1>2, <2>1 DEF Counts
  <2>3. pending'[k] = pending[k] - 1 /\ filled'[k] = filled[k] + 1
        /\ \A h \in Kinds \ {k} : pending'[h] = pending[h] /\ filled'[h] = filled[h]
    BY <1>2 DEF Counts
  <2> QED BY <1>3, <2>2, <2>3
<1>5. \A h \in Kinds : pending'[h] + filled'[h] + open'[h] = pending[h] + filled[h] + open[h]
  BY <1>1, <1>4
<1>6. open' \in Counts /\ open \in Counts
  BY <1>1 DEF BookInv, BookTypes
<1>7. OnBook' = OnBook
  <2>1. Legged(pending', filled', open') = Legged(pending, filled, open)
    BY <1>5 DEF Legged
  <2> QED BY <2>1, OnBookIs, OnBookThen
<1>8. pc # "choose" /\ ~NothingPending'
  BY <1>2, <1>4 DEF BookInv, Counted, NothingPending
<1>9. BookTypes'
  BY <1>1, <1>4, <1>6 DEF BookInv, BookTypes
<1>10. Counted'
  <2>1. MostLegs' = MostLegs
    BY DEF MostLegs
  <2> QED BY <1>1, <1>7, <1>8, <2>1 DEF BookInv, Counted
<1>11. Limited'
  BY <1>1, <1>5 DEF BookInv, Limited, Reserved
<1>12. \A h \in Kinds : pending'[h] + filled'[h] + open'[h] <= pending[h] + filled[h] + open[h]
  <2>1. \A h \in Kinds : pending[h] + filled[h] + open[h] \in Int
    BY <1>3
  <2>2. \A a \in Int : a <= a
    OBVIOUS
  <2> QED BY <1>5, <2>1, <2>2
<1> QED BY <1>9, <1>10, <1>11, <1>12, BookShrinks

LEMMA BookSettle == ASSUME BookInv, Stamps', SettlePending PROVE BookInv'
<1>1. pc' = "exits" /\ UNCHANGED <<pending, todo, seen>> /\ filled' = None /\ ended' = None
      /\ open' = [k \in Kinds |-> open[k] + filled[k]]
  BY DEF SettlePending, cycle
<1>2. \A h \in Kinds : pending[h] \in Nat /\ filled[h] \in Nat /\ open[h] \in Nat
  BY DEF BookInv, BookTypes, Counts
<1>3. filled' \in Counts /\ ended' \in Counts /\ open' \in Counts
  BY <1>1, <1>2, NoneCounts DEF Counts
<1>4. BookTypes' /\ Counted' /\ Limited'
  BY <1>1, <1>3 DEF BookInv, BookTypes, Counted, Limited
<1>5. \A k \in Kinds : pending'[k] + filled'[k] + open'[k] <= pending[k] + filled[k] + open[k]
  <2>1. \A k \in Kinds : pending'[k] = pending[k] /\ filled'[k] = 0 /\ open'[k] = open[k] + filled[k]
    BY <1>1, NoneCounts
  <2> QED BY <1>2, <2>1
<1> QED BY <1>4, <1>5, BookShrinks

\* Read after the exits, the positions are the book, entries that still work
\* or have just filled aside.
LEMMA BookExits == ASSUME BookInv, Stamps', ManageExits PROVE BookInv'
<1>1. pc' = "gates" /\ UNCHANGED <<pending, filled, ended, todo, facts>>
      /\ seen' = SumOf([k \in Kinds |-> LegCount[k] * (filled[k] + open'[k])])
  BY DEF ManageExits
<1>2. \A h \in Kinds : pending[h] \in Nat /\ filled[h] \in Nat /\ open[h] \in Nat
  BY DEF BookInv, BookTypes, Counts
<1>3. open' \in Counts /\ \A h \in Kinds : open'[h] <= open[h]
  <2>1. CASE open' = open
    BY <1>2, <2>1 DEF BookInv, BookTypes
  <2>2. CASE \E k \in Kinds : open[k] > 0 /\ open' = [open EXCEPT ![k] = @ - 1]
    <3>1. PICK k \in Kinds : open[k] > 0 /\ open' = [open EXCEPT ![k] = @ - 1]
      BY <2>2
    <3>2. open[k] - 1 \in Nat /\ open \in Counts
      BY <1>2, <3>1 DEF BookInv, BookTypes
    <3>3. open' \in Counts /\ open'[k] = open[k] - 1 /\ \A h \in Kinds \ {k} : open'[h] = open[h]
      BY <3>1, <3>2 DEF Counts
    <3> QED BY <1>2, <3>3
  <2> QED BY <2>1, <2>2 DEF ManageExits
<1>4. [k \in Kinds |-> LegCount[k] * (None[k] + filled[k] + open'[k])]
        = [k \in Kinds |-> LegCount[k] * (filled[k] + open'[k])]
  BY <1>2, <1>3, NoneCounts DEF Counts
<1>5. filled \in Counts /\ pending \in Counts
  BY DEF BookInv, BookTypes
<1>6. seen' = Legged(None, filled, open') /\ seen' \in Nat
  BY <1>1, <1>3, <1>4, <1>5, NoneCounts, LegsAreCounts DEF Legged
<1>7. NothingPending' => seen' = OnBook'
  <2> SUFFICES ASSUME NothingPending' PROVE seen' = OnBook'
    OBVIOUS
  <2>1. \A k \in Kinds : None[k] + filled[k] + open'[k] = pending[k] + filled[k] + open'[k]
    BY <1>1, NoneCounts DEF NothingPending
  <2> QED BY <1>1, <1>3, <1>5, <1>6, <2>1, NoneCounts, LegsKept, OnBookThen
<1>8. BookTypes' /\ Counted' /\ Limited'
  BY <1>1, <1>3, <1>6, <1>7 DEF BookInv, BookTypes, Counted, Limited
<1>9. \A k \in Kinds : pending'[k] + filled'[k] + open'[k] <= pending[k] + filled[k] + open[k]
  <2>1. \A k \in Kinds : pending'[k] = pending[k] /\ filled'[k] = filled[k] /\ open'[k] <= open[k]
                         /\ open'[k] \in Nat
    BY <1>1, <1>3 DEF Counts
  <2> QED BY <1>2, <2>1
<1> QED BY <1>8, <1>9, BookShrinks
\* Green gates have seen no pending entry: the positions they read are the book.
LEMMA BookPass == ASSUME BookInv, Stamps', GatesPass PROVE BookInv'
<1>1. pc = "gates" /\ pc' = "choose" /\ UNCHANGED <<pending, filled, ended, open, todo, seen>>
  BY DEF GatesPass, structures
<1>2. PICK base \in SomeFacts : Blockers(Preflight(FactsNow(base))) = {} /\ facts' = FactsNow(base)
  BY DEF GatesPass
<1>3. facts'.broker = seen
      /\ Known(facts'.pendings) /\ facts'.pendings = 0
      /\ facts'.pendings = IF Known(base.pendings)
                           THEN SumOf(pending) + SumOf(filled) + SumOf(ended) ELSE base.pendings
  <2>1. Known(FactsNow(base).pendings) /\ FactsNow(base).pendings = 0
    BY <1>2, GreenGates
  <2> QED BY <1>2, <2>1, FactsNowAre
<1>4. pending \in Counts /\ filled \in Counts /\ ended \in Counts /\ open \in Counts /\ seen \in Nat
  BY DEF BookInv, BookTypes
<1>5. SumOf(pending) = 0 /\ SumOf(filled) = 0
  <2>1. SumOf(pending) \in Nat /\ SumOf(filled) \in Nat /\ SumOf(ended) \in Nat
    BY <1>4, SumOfKinds
  <2>2. SumOf(pending) + SumOf(filled) + SumOf(ended) = 0
    BY <1>3 DEF Known
  <2> QED BY <2>1, <2>2
<1>6. NothingPending
  BY <1>4, <1>5, SumOfNothing DEF NothingPending
<1>7. facts'.broker = OnBook
  BY <1>1, <1>3, <1>6 DEF BookInv, Counted
<1>8. OnBook' = OnBook
  BY <1>1, OnBookIs, OnBookThen
<1>9. NothingPending'
  BY <1>1, <1>6 DEF NothingPending
<1>10. BookTypes' /\ Counted' /\ Limited'
  BY <1>1, <1>3, <1>4, <1>7, <1>8, <1>9 DEF BookInv, BookTypes, Counted, Limited
<1>11. \A k \in Kinds : pending'[k] + filled'[k] + open'[k] <= pending[k] + filled[k] + open[k]
  BY <1>1, <1>4 DEF Counts
<1> QED BY <1>10, <1>11, BookShrinks

\* The candidates of a cycle: no more than fit, and of a limited engine the
\* only structure there is.
LEMMA BookChoose == ASSUME BookInv, Stamps', Choose PROVE BookInv'
<1>1. pc = "choose" /\ pc' = "entering" /\ UNCHANGED <<pending, filled, ended, open, facts, seen>>
  BY DEF Choose, structures
<1>2. Selectable(todo') /\ Len(todo') \in Nat /\ Len(todo') <= MaxProposals /\ todo' \in Seq(Proposals)
  <2>1. todo' \in UNION {[1 .. m -> Proposals] : m \in 0 .. MaxProposals}
    BY DEF Choose, BoundedSeq, SeqOf
  <2>2. PICK m \in 0 .. MaxProposals : todo' \in [1 .. m -> Proposals]
    BY <2>1
  <2>3. m \in Nat /\ m <= MaxProposals
    BY <2>2, TradingAssumption
  <2>4. Len(todo') = m /\ todo' \in Seq(Proposals)
    BY <2>2, <2>3
  <2>5. Selectable(todo')
    BY DEF Choose
  <2> QED BY <2>3, <2>4, <2>5
<1>3. NothingPending /\ facts.broker = OnBook /\ facts.broker \in Nat
  BY <1>1 DEF BookInv, Counted, BookTypes
<1>4. \A k \in Kinds : pending[k] \in Nat /\ filled[k] \in Nat /\ open[k] \in Nat
  BY DEF BookInv, BookTypes, Counts
<1>5. Reserved(pending, filled, open, todo')
  BY <1>2, <1>3, <1>4 DEF Selectable, Reserved, NothingPending
<1>6. Limited'
  BY <1>1, <1>5 DEF Limited, Reserved
<1>7. OnBook' = OnBook
  BY <1>1, OnBookIs, OnBookThen
<1>8. OnBook' + Len(todo') * MostLegs <= facts'.broker + MaxProposals * MostLegs
  <2>1. \A a, b, m \in Nat : a <= b => a * m <= b * m /\ a * m \in Nat /\ b * m \in Nat
    OBVIOUS
  <2>2. MaxProposals \in Nat /\ MostLegs \in Nat
    BY TradingAssumption, MostLegsIsMost
  <2>3. Len(todo') * MostLegs <= MaxProposals * MostLegs
        /\ Len(todo') * MostLegs \in Nat /\ MaxProposals * MostLegs \in Nat
    BY <1>2, <2>1, <2>2
  <2> DEFINE x == Len(todo') * MostLegs
             y == MaxProposals * MostLegs
  <2> HIDE DEF x, y
  <2>4. OnBook + x <= OnBook + y
    BY <1>3, <2>3 DEF x, y
  <2> QED BY <1>1, <1>3, <1>7, <2>4 DEF x, y
<1>9. MostLegs' = MostLegs
  BY DEF MostLegs
<1>10. Counted'
  BY <1>1, <1>8, <1>9 DEF Counted
<1>11. BookTypes'
  BY <1>1, <1>2, <1>3 DEF BookInv, BookTypes
<1>12. \A k \in Kinds : pending'[k] + filled'[k] + open'[k] <= pending[k] + filled[k] + open[k]
  BY <1>1, <1>4
<1> QED BY <1>6, <1>10, <1>11, <1>12, BookShrinks

\* What remains of the candidates is reserved as before.
LEMMA TailReserved ==
  ASSUME NEW p, NEW f, NEW o, NEW s \in Seq(Proposals), s # <<>>, Reserved(p, f, o, s)
  PROVE  Reserved(p, f, o, Tail(s))
<1>1. Len(Tail(s)) = Len(s) - 1 /\ Len(s) \in Nat
      /\ DOMAIN Tail(s) = 1 .. Len(s) - 1 /\ DOMAIN s = 1 .. Len(s)
      /\ \A i \in DOMAIN Tail(s) : Tail(s)[i] = s[i + 1] /\ i + 1 \in DOMAIN s
  OBVIOUS
<1>2. SUFFICES ASSUME NEW k \in Kinds, NEW i \in DOMAIN Tail(s), LimitOf[k] = 1, Tail(s)[i].kind = k
               PROVE  /\ p[k] + f[k] + o[k] = 0
                      /\ \A j \in DOMAIN Tail(s) : Tail(s)[j].kind = k => i = j
  BY DEF Reserved
<1>3. s[i + 1].kind = k /\ i + 1 \in DOMAIN s
  BY <1>1, <1>2
<1>4. p[k] + f[k] + o[k] = 0 /\ \A j \in DOMAIN s : s[j].kind = k => i + 1 = j
  BY <1>2, <1>3 DEF Reserved
<1>5. \A j \in DOMAIN Tail(s) : Tail(s)[j].kind = k => i + 1 = j + 1
  BY <1>1, <1>4
<1>6. \A j \in DOMAIN Tail(s) : i \in Int /\ j \in Int
  BY <1>1
<1> QED BY <1>4, <1>5, <1>6

LEMMA TailShorter ==
  ASSUME NEW s \in Seq(Proposals), s # <<>>
  PROVE  Len(Tail(s)) \in Nat /\ Len(s) = Len(Tail(s)) + 1
         /\ Len(s) * MostLegs = Len(Tail(s)) * MostLegs + MostLegs
         /\ Len(Tail(s)) * MostLegs \in Nat
<1>1. Len(Tail(s)) \in Nat /\ Len(s) = Len(Tail(s)) + 1
  OBVIOUS
<1>2. \A n, m \in Nat : (n + 1) * m = n * m + m /\ n * m \in Nat
  OBVIOUS
<1>3. MostLegs \in Nat
  BY MostLegsIsMost
<1> QED BY <1>1, <1>2, <1>3

LEMMA BookRefuse == ASSUME DayInv, BookInv, Stamps', Refuse \/ NotAdmitted PROVE BookInv'
<1>1. pc = "entering" /\ todo # <<>> /\ todo' = Tail(todo) /\ todo \in Seq(Proposals)
      /\ UNCHANGED <<pc, pending, filled, ended, open, facts, seen>>
  BY DEF Refuse, NotAdmitted, HeldOnly, Admitting, structures, DayInv, DayTypes
<1>2. Reserved(pending, filled, open, todo')
  BY <1>1, TailReserved DEF BookInv, Limited
<1>3. Limited'
  BY <1>1, <1>2 DEF Limited, Reserved
<1>4. OnBook' = OnBook
  BY <1>1, OnBookIs, OnBookThen
<1>5. Len(todo') \in Nat /\ Len(todo) = Len(todo') + 1
      /\ Len(todo) * MostLegs = Len(todo') * MostLegs + MostLegs /\ Len(todo') * MostLegs \in Nat
  BY <1>1, TailShorter
<1>6. OnBook' + Len(todo') * MostLegs <= facts'.broker + MaxProposals * MostLegs
  <2> DEFINE x == Len(todo') * MostLegs
             y == facts.broker + MaxProposals * MostLegs
  <2>1. x \in Nat /\ MostLegs \in Nat /\ OnBook \in Nat
    BY <1>5, MostLegsIsMost, OnBookIs, LegsAreCounts DEF BookInv, BookTypes
  <2>2. y \in Int
    <3>1. MaxProposals * MostLegs \in Nat
      BY TradingAssumption, MostLegsIsMost
    <3> QED BY <1>1, <3>1 DEF BookInv, BookTypes
  <2>3. OnBook + Len(todo) * MostLegs <= y
    BY <1>1 DEF BookInv, Counted
  <2>4. Len(todo) * MostLegs = x + MostLegs
    BY <1>5
  <2> HIDE DEF x, y
  <2>5. OnBook + x <= y
    BY <2>1, <2>2, <2>3, <2>4
  <2> QED BY <1>1, <1>4, <2>5 DEF x, y
<1>7. MostLegs' = MostLegs
  BY DEF MostLegs
<1>8. Counted'
  BY <1>1, <1>6, <1>7 DEF Counted
<1>9. BookTypes'
  BY <1>1, <1>5, TradingAssumption DEF BookInv, BookTypes
<1>10. \A k \in Kinds : pending'[k] + filled'[k] + open'[k] <= pending[k] + filled[k] + open[k]
  BY <1>1 DEF BookInv, BookTypes, Counts
<1> QED BY <1>3, <1>8, <1>9, <1>10, BookShrinks
\* One entry more: of a kind the engine still allows, on a book its gate found
\* below the cap when the cycle began.
LEMMA BookTaken ==
  ASSUME DayInv, BookInv, Admitting, Taken(Head(todo))
  PROVE  /\ pending' \in Counts /\ PositionsBounded' /\ EngineLimitHolds'
         /\ OnBook' + Len(Tail(todo)) * MostLegs <= facts.broker + MaxProposals * MostLegs
         /\ OnBook' \in Nat /\ Reserved(pending', filled', open', Tail(todo))
<1> DEFINE k == Head(todo).kind
           rest == Tail(todo)
<1>1. pc = "entering" /\ todo # <<>> /\ todo \in Seq(Proposals)
      /\ UNCHANGED <<filled, ended, open>> /\ pending' = [pending EXCEPT ![k] = @ + 1]
  BY DEF Admitting, Taken, DayInv, DayTypes
<1>17. DOMAIN rest = 1 .. Len(todo) - 1 /\ \A i \in DOMAIN rest : rest[i] = todo[i + 1] /\ i + 1 \in DOMAIN todo
                                                              /\ i + 1 # 1
  BY <1>1
<1>18. rest = Tail(todo)
  OBVIOUS
<1> HIDE DEF rest
<1>2. k \in Kinds /\ LegCount[k] \in Nat /\ LegCount[k] <= MostLegs
  <2>1. Head(todo) \in Proposals
    BY <1>1
  <2> QED BY <2>1, TradingAssumption, MostLegsIsMost
<1>3. todo[1].kind = k /\ 1 \in DOMAIN todo
  BY <1>1
<1> HIDE DEF k
<1>4. pending \in Counts /\ filled \in Counts /\ open \in Counts /\ ended \in Counts /\ facts.broker \in Nat
  BY <1>1 DEF BookInv, BookTypes
<1>5. \A h \in Kinds : pending[h] \in Nat /\ filled[h] \in Nat /\ open[h] \in Nat
  BY <1>4 DEF Counts
<1>6. pending' \in Counts /\ pending'[k] = pending[k] + 1 /\ \A h \in Kinds \ {k} : pending'[h] = pending[h]
  BY <1>1, <1>2, <1>4, <1>5 DEF Counts
<1>7. facts.broker < MaxPositions
  BY GreenCaps DEF Admitting
<1>8. OnBook' = OnBook + LegCount[k] /\ OnBook \in Nat
  <2>3. Legged(OneMore(pending, k), filled, open) = Legged(pending, filled, open) + LegCount[k]
    BY <1>2, <1>4, LegsMore
  <2>4. pending' = OneMore(pending, k)
    BY <1>1 DEF OneMore
  <2>1. Legged(pending', filled, open) = Legged(pending, filled, open) + LegCount[k]
    BY <2>3, <2>4
  <2>2. Legged(pending, filled, open) \in Nat
    BY <1>4, LegsAreCounts
  <2> QED BY <1>1, <2>1, <2>2, OnBookIs, OnBookThen
<1>9. Len(rest) \in Nat /\ Len(todo) = Len(rest) + 1
      /\ Len(todo) * MostLegs = Len(rest) * MostLegs + MostLegs /\ Len(rest) * MostLegs \in Nat
  BY <1>1, <1>18, TailShorter
<1>10. MostLegs' = MostLegs /\ MostLegs \in Nat /\ MaxProposals * MostLegs \in Nat
  BY MostLegsIsMost, TradingAssumption DEF MostLegs
<1>11. /\ OnBook' + Len(rest) * MostLegs <= facts.broker + MaxProposals * MostLegs
       /\ OnBook' <= (MaxPositions - 1) + MaxProposals * MostLegs
  <2> DEFINE x == Len(rest) * MostLegs
             y == MaxProposals * MostLegs
             l == LegCount[k]
  <2>1. OnBook + Len(todo) * MostLegs <= facts.broker + y
    BY <1>1 DEF BookInv, Counted
  <2>2. Len(todo) * MostLegs = x + MostLegs /\ x \in Nat /\ y \in Nat /\ l \in Nat /\ l <= MostLegs
        /\ OnBook' = OnBook + l
    BY <1>2, <1>8, <1>9, <1>10
  <2>3. MaxPositions \in Nat
    BY GatesAssumption
  <2> HIDE DEF x, y, l
  <2> DEFINE b == facts.broker
             n == OnBook
             m == OnBook'
             t == Len(todo) * MostLegs
  <2>6. b \in Nat /\ n \in Nat /\ MostLegs \in Nat
    BY <1>4, <1>8, <1>10
  <2>7. n + t <= b + y /\ t = x + MostLegs /\ m = n + l
    BY <2>1, <2>2
  <2> HIDE DEF b, n, m, t
  <2>4. m + x <= b + y
    BY <2>2, <2>6, <2>7
  <2>5. m <= (MaxPositions - 1) + y
    <3>1. b < MaxPositions
      BY <1>7 DEF b
    <3> QED BY <2>2, <2>3, <2>4, <2>6, <2>7, <3>1
  <2> QED BY <2>4, <2>5 DEF b, m, x, y
<1>12. PositionsBounded'
  BY <1>10, <1>11 DEF PositionsBounded
<1>14. LimitOf[k] = 1 => /\ pending[k] + filled[k] + open[k] = 0
                         /\ \A j \in DOMAIN todo : todo[j].kind = k => 1 = j
  BY <1>1, <1>2, <1>3 DEF BookInv, Limited, Reserved
<1>15. EngineLimitHolds'
  <2> SUFFICES ASSUME NEW h \in Kinds, LimitOf[h] = 1
               PROVE  pending'[h] + filled'[h] + open'[h] <= 1
    BY DEF EngineLimitHolds
  <2>1. CASE h = k
    <3>1. pending[k] + filled[k] + open[k] = 0
      BY <1>14, <2>1
    <3>2. pending[k] \in Nat /\ filled[k] \in Nat /\ open[k] \in Nat
      BY <1>2, <1>5
    <3>3. pending'[k] = pending[k] + 1 /\ filled'[k] = filled[k] /\ open'[k] = open[k]
      BY <1>1, <1>6
    <3> QED BY <2>1, <3>1, <3>2, <3>3
  <2>2. CASE h # k
    <3>1. pending'[h] = pending[h] /\ filled'[h] = filled[h] /\ open'[h] = open[h]
      BY <1>1, <1>6, <2>2
    <3> QED BY <3>1 DEF BookInv, EngineLimitHolds
  <2> QED BY <2>1, <2>2
<1>16. Reserved(pending', filled', open', rest)
  <2>1. Reserved(pending, filled, open, rest)
    BY <1>1, <1>18, TailReserved DEF BookInv, Limited
  <2> SUFFICES ASSUME NEW h \in Kinds, NEW i \in DOMAIN rest, LimitOf[h] = 1, rest[i].kind = h
               PROVE  /\ pending'[h] + filled'[h] + open'[h] = 0
                      /\ \A j \in DOMAIN rest : rest[j].kind = h => i = j
    BY DEF Reserved
  <2>2. h # k
    <3> SUFFICES ASSUME h = k PROVE FALSE
      OBVIOUS
    <3>1. i + 1 \in DOMAIN todo /\ todo[i + 1].kind = k /\ i + 1 # 1
      BY <1>17
    <3> QED BY <1>14, <3>1
  <2>3. pending'[h] = pending[h] /\ filled'[h] = filled[h] /\ open'[h] = open[h]
    BY <1>1, <1>6, <2>2
  <2> QED BY <2>1, <2>3 DEF Reserved
<1>19. OnBook' \in Nat
  BY <1>2, <1>8
<1> QED BY <1>6, <1>11, <1>12, <1>15, <1>16, <1>18, <1>19

LEMMA BookEnter == ASSUME DayInv, BookInv, Stamps', Enter PROVE BookInv'
<1>1. Admitting /\ Taken(Head(todo)) /\ todo' = Tail(todo) /\ UNCHANGED <<pc, facts, seen>>
  BY DEF Enter
<1>2. pc = "entering" /\ todo # <<>> /\ todo \in Seq(Proposals) /\ UNCHANGED <<filled, ended, open>>
  BY <1>1 DEF Admitting, Taken, DayInv, DayTypes
<1>3. /\ pending' \in Counts /\ PositionsBounded' /\ EngineLimitHolds'
      /\ OnBook' + Len(todo') * MostLegs <= facts.broker + MaxProposals * MostLegs
      /\ Reserved(pending', filled', open', todo')
  BY <1>1, BookTaken
<1>4. Len(todo') \in Nat /\ Len(todo) = Len(todo') + 1
  BY <1>1, <1>2, TailShorter
<1>5. MostLegs' = MostLegs
  BY DEF MostLegs
<1>6. Counted' /\ Limited'
  BY <1>1, <1>2, <1>3, <1>5 DEF Counted, Limited, Reserved
<1>7. BookTypes'
  BY <1>1, <1>2, <1>3, <1>4, TradingAssumption DEF BookInv, BookTypes
<1> QED BY <1>3, <1>6, <1>7 DEF BookInv

\* In doubt: the order is on the book or it is not, and none follows it.
LEMMA BookInDoubt ==
  ASSUME DayInv, BookInv, Stamps', Admitting, InDoubt(Head(todo)), todo' = <<>>, seen' \in Nat,
         pc' = "idle" \/ UNCHANGED <<pc, facts>>
  PROVE  BookInv'
<1>1. pc = "entering" /\ facts.broker \in Nat
  BY DEF Admitting, BookInv, BookTypes
<1>2. Head(todo).kind \in Kinds /\ Len(Tail(todo)) * MostLegs \in Nat
      /\ Len(todo) * MostLegs = Len(Tail(todo)) * MostLegs + MostLegs
  <2>1. todo \in Seq(Proposals) /\ todo # <<>>
    BY DEF Admitting, DayInv, DayTypes
  <2> QED BY <2>1, TailShorter, HeadLoss, TradingAssumption
<1>3. OnBook \in Nat /\ MostLegs \in Nat /\ MaxProposals * MostLegs \in Nat
  <2>1. OnBook \in Nat
    BY OnBookIs, LegsAreCounts DEF BookInv, BookTypes
  <2>2. MostLegs \in Nat /\ MaxProposals \in Nat
    BY MostLegsIsMost, TradingAssumption
  <2> QED BY <2>1, <2>2
<1>4. PICK taken \in BOOLEAN : IF taken THEN Taken(Head(todo)) ELSE NotTaken(Head(todo))
  BY DEF InDoubt
<1>5. /\ pending' \in Counts /\ ended' \in Counts /\ UNCHANGED <<filled, open>>
      /\ PositionsBounded' /\ EngineLimitHolds'
      /\ OnBook' <= facts.broker + MaxProposals * MostLegs
  <2>1. CASE taken
    <3>1. Taken(Head(todo))
      BY <1>4, <2>1
    <3>2. /\ pending' \in Counts /\ PositionsBounded' /\ EngineLimitHolds' /\ OnBook' \in Nat
          /\ OnBook' + Len(Tail(todo)) * MostLegs <= facts.broker + MaxProposals * MostLegs
      BY <3>1, BookTaken
    <3> DEFINE x == Len(Tail(todo)) * MostLegs
               y == MaxProposals * MostLegs
    <3>3. x \in Nat /\ y \in Nat /\ OnBook' + x <= facts.broker + y
      BY <1>2, <1>3, <3>2
    <3> HIDE DEF x, y
    <3>4. OnBook' <= facts.broker + y
      BY <1>1, <3>2, <3>3
    <3>5. UNCHANGED <<filled, ended, open>>
      BY <3>1 DEF Taken
    <3> QED BY <3>2, <3>4, <3>5 DEF y, BookInv, BookTypes
  <2>2. CASE ~taken
    <3>1. NotTaken(Head(todo))
      BY <1>4, <2>2
    <3>2. UNCHANGED <<pending, filled, open>>
          /\ (ended' = ended \/ ended' = [ended EXCEPT ![Head(todo).kind] = @ + 1])
      BY <3>1 DEF NotTaken
    <3>3. ended' \in Counts
      <4>1. ended \in Counts /\ Head(todo).kind \in Kinds
        BY <1>2 DEF BookInv, BookTypes
      <4>2. ended[Head(todo).kind] + 1 \in Nat
        BY <4>1 DEF Counts
      <4> QED BY <3>2, <4>1, <4>2 DEF Counts
    <3>4. OnBook' = OnBook /\ MostLegs' = MostLegs
      BY <3>2, OnBookIs, OnBookThen DEF MostLegs
    <3>5. PositionsBounded' /\ EngineLimitHolds'
      BY <3>2, <3>4 DEF BookInv, PositionsBounded, EngineLimitHolds
    <3> DEFINE x == Len(todo) * MostLegs
               y == MaxProposals * MostLegs
    <3>6. x \in Nat /\ y \in Nat /\ OnBook + x <= facts.broker + y
      BY <1>1, <1>2, <1>3 DEF BookInv, Counted
    <3> HIDE DEF x, y
    <3>7. OnBook' <= facts.broker + y
      BY <1>1, <1>3, <3>4, <3>6
    <3> QED BY <3>2, <3>3, <3>5, <3>7 DEF y, BookInv, BookTypes
  <2> QED BY <2>1, <2>2
<1>6. Len(todo') = 0 /\ 0 * MostLegs = 0 /\ MostLegs' = MostLegs
  BY <1>3 DEF MostLegs
<1>7. OnBook' \in Nat
  BY <1>5, OnBookThen, LegsAreCounts DEF BookInv, BookTypes
<1>8. Counted'
  <2>1. CASE pc' = "idle"
    BY <2>1 DEF Counted
  <2>2. CASE UNCHANGED <<pc, facts>>
    <3>1. OnBook' + Len(todo') * MostLegs' <= facts'.broker + MaxProposals * MostLegs'
      BY <1>5, <1>6, <1>7, <2>2
    <3> QED BY <1>1, <2>2, <3>1 DEF Counted
  <2> QED BY <2>1, <2>2
<1>9. Limited'
  <2>1. DOMAIN todo' = {}
    OBVIOUS
  <2> QED BY <2>1 DEF Limited, Reserved
<1>10. BookTypes'
  BY <1>1, <1>5, <1>6, TradingAssumption DEF BookInv, BookTypes
<1> QED BY <1>5, <1>8, <1>9, <1>10 DEF BookInv

LEMMA BookStep ==
  ASSUME DayInv, DayInv', BookInv, [Next]_vars
  PROVE  BookInv'
<1>1. Stamps'
  BY StampsStep DEF BookInv
<1>2. Len(todo) <= MaxProposals /\ seen \in Nat /\ 0 \in Nat /\ Len(<<>>) <= MaxProposals
  BY TradingAssumption DEF BookInv, BookTypes
<1>3. CASE UNCHANGED vars
  BY <1>1, <1>3, BookUntouched DEF vars, cycle
<1>4. CASE Tick
  BY <1>1, <1>4, BookTick
<1>5. CASE EquityMoves \/ Edit
  BY <1>1, <1>5, BookUntouched DEF EquityMoves, Edit, cycle
<1>6. CASE \E k \in Kinds : Fill(k)
  BY <1>1, <1>6, BookFill
<1>7. CASE Begin
  <2>1. UNCHANGED <<structures, todo, seen>> /\ pc' = "entries"
    BY <1>7 DEF Begin
  <2> QED BY <1>1, <1>2, <2>1, BookIdle
<1>8. CASE SettlePending
  BY <1>1, <1>8, BookSettle
<1>9. CASE ManageExits
  BY <1>1, <1>9, BookExits
<1>10. CASE GatesRefuse \/ ChooseNothing \/ SaveDay \/ Crash
  <2>1. UNCHANGED structures /\ pc' = "idle" /\ seen' = 0 /\ todo' = <<>>
    BY <1>10 DEF GatesRefuse, ChooseNothing, SaveDay, Crash, Exit
  <2> QED BY <1>1, <1>2, <2>1, BookIdle
<1>11. CASE GatesPass
  BY <1>1, <1>11, BookPass
<1>12. CASE Choose
  BY <1>1, <1>12, BookChoose
<1>13. CASE Refuse \/ NotAdmitted
  BY <1>1, <1>13, BookRefuse
<1>14. CASE Enter
  BY <1>1, <1>14, BookEnter
<1>15. CASE Uncertain
  BY <1>1, <1>2, <1>15, BookInDoubt DEF Uncertain
<1>16. CASE CrashAdmitting
  <2>1. Admitting /\ todo' = <<>> /\ seen' = 0 /\ pc' = "idle"
    BY <1>16 DEF CrashAdmitting, Exit
  <2>2. CASE InDoubt(Head(todo))
    BY <1>1, <1>2, <2>1, <2>2, BookInDoubt
  <2>3. CASE HeldOnly(Head(todo))
    <3>1. UNCHANGED structures
      BY <2>3 DEF HeldOnly
    <3> QED BY <1>1, <1>2, <2>1, <3>1, BookIdle
  <2> QED BY <1>16, <2>2, <2>3 DEF CrashAdmitting
<1> QED BY <1>3, <1>4, <1>5, <1>6, <1>7, <1>8, <1>9, <1>10, <1>11, <1>12, <1>13, <1>14, <1>15,
           <1>16 DEF Next

LEMMA BookInvariant == Spec => [](DayInv /\ JournalInv /\ BookInv)
<1>1. Init => DayInv /\ JournalInv /\ BookInv
  BY DayInit, JournalInit, BookInit
<1>2. DayInv /\ JournalInv /\ BookInv /\ [Next]_vars => (DayInv /\ JournalInv /\ BookInv)'
  BY DayStep, JournalStep, BookStep
<1> QED BY <1>1, <1>2, PTL DEF Spec

\* What a cycle, the files and the book hold is what their types say, for any
\* numbers of days, kinds and proposals.
THEOREM TradingTypes == Spec => []TypeOK
<1>1. DayInv /\ JournalInv /\ BookInv => TypeOK
  BY DEF DayInv, DayTypes, Days, JournalInv, Journals, BookInv, BookTypes, Counts, Stamps, TypeOK
<1> QED BY <1>1, BookInvariant, PTL

\* The book never passes the position cap by more than one cycle's entries,
\* although the cap is judged by positions read before the first of them
\* (gates/checks.py:329-341).
THEOREM PositionsAlwaysBounded == Spec => []PositionsBounded
<1>1. BookInv => PositionsBounded
  BY DEF BookInv
<1> QED BY <1>1, BookInvariant, PTL

\* An engine limited to one structure never has two, in whatever state of their
\* entries and over however many cycles (strategy/engine.py, _one_single).
THEOREM EngineLimitAlwaysHolds == Spec => []EngineLimitHolds
<1>1. BookInv => EngineLimitHolds
  BY DEF BookInv
<1> QED BY <1>1, BookInvariant, PTL
=============================================================================
