--------------------------- MODULE MCEntryDispatch ---------------------------
(* The dispatch protocol on two or three attempts: budgets that hold two   *)
(* of the three, one once-a-day key shared by two, a gap limit of one.     *)
EXTENDS EntryDispatch

CONSTANTS a, b, c

CostOf    == [s \in Submissions |-> IF s = b THEN 1 ELSE 2]
FireKeyOf == [s \in Submissions |-> IF s \in {a, b} THEN "event" ELSE NoKey]
NoKeyOf   == [s \in Submissions |-> NoKey]

\* Every announced entry whose reservation is known is resolved, unless the
\* journal is damaged beyond its keys.
DispatchIsResolved ==
  \A s \in Submissions :
    (view.state[s] = "DISPATCHING" /\ s \in view.reserved)
      ~> (view.state[s] \in Terminal \/ view.fatal)

\* Every pending entry is settled in the end: promoted, or dropped for proof
\* of no fill; only an order cut short after a part filled stays.
PendingIsSettled ==
  \A s \in Submissions :
    (s \in pending) ~> (s \notin pending \/ order[s] = "cutshort")
=============================================================================
