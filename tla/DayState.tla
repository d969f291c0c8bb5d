-------------------------------- MODULE DayState -------------------------------
(***************************************************************************)
(* The day's record (strategy/daystate.py) and the two risk budgets with   *)
(* their paired reservation (strategy/sizing.py, scripts/run_cycle.py), as *)
(* functions.  Amounts are numbers of one unit; fractions are per cent.    *)
(***************************************************************************)
EXTENDS Integers

CONSTANTS KillPercent,   \* loss of the day that trips the kill switch
          HalfScale      \* sizing on the day after a killed day

FullScale == 100
ASSUME DayAssumption == KillPercent \in 1..100 /\ HalfScale \in 1..FullScale

NoDay == [date |-> -1, start |-> 0, risk |-> 0, killed |-> FALSE, scale |-> FullScale]

\* Slip: a killed day halves what the day before was sized by.
SlipHalvesAgain(raw, today, equity) ==
  IF raw.date = today THEN raw
  ELSE [date |-> today, start |-> equity, risk |-> 0, killed |-> FALSE,
        scale |-> IF raw.killed THEN (raw.scale * HalfScale) \div FullScale ELSE FullScale]

\* Slip: the kill is looked for after the date is rolled.
SlipRollsFirst(raw, today, equity) ==
  IF raw.date = today THEN raw
  ELSE [date |-> today, start |-> equity, risk |-> 0, killed |-> FALSE, scale |-> FullScale]

\* A file of today is taken as it is; any other only says whether its day was
\* killed.
LoadOrReset(raw, today, equity) ==
  IF raw.date = today THEN raw
  ELSE [date |-> today, start |-> equity, risk |-> 0, killed |-> FALSE,
        scale |-> IF raw.killed THEN HalfScale ELSE FullScale]

Tripped(day, equity) == day.start > 0 /\ 100 * (equity - day.start) <= -(KillPercent * day.start)
CheckKill(day, equity) == [day EXCEPT !.killed = @ \/ Tripped(day, equity)]

\* Slip: what the file says is not read again.
SlipTrustsTheFile(day, counted) == IF day.risk > 0 THEN day ELSE [day EXCEPT !.risk = counted]
\* The day's risk is what the journal counts for the date, never an accumulator.
ProjectDayRisk(day, counted) == [day EXCEPT !.risk = counted]

-----------------------------------------------------------------------------
(* record_risk, release_risk and their portfolio twins, and the pair.      *)

Floor0(n) == IF n < 0 THEN 0 ELSE n
Fits(spent, dollars, cap) == spent + dollars <= cap
Released(spent, dollars)  == Floor0(spent - dollars)

\* reserve_entry_risk: both budgets or neither.
Reserve(budgets, dollars, caps) ==
  IF ~Fits(budgets.portfolio, dollars, caps.portfolio) THEN budgets
  ELSE LET first == [budgets EXCEPT !.portfolio = @ + dollars]
       IN IF Fits(first.daily, dollars, caps.daily)
          THEN [first EXCEPT !.daily = @ + dollars]
          ELSE [first EXCEPT !.portfolio = Released(@, dollars)]

\* release_entry_risk
Release(budgets, dollars) ==
  [portfolio |-> Released(budgets.portfolio, dollars), daily |-> Released(budgets.daily, dollars)]
=============================================================================
