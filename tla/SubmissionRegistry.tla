-------------------------- MODULE SubmissionRegistry --------------------------
(***************************************************************************)
(* What the submission journal promises its callers, with no lines, no     *)
(* files and no replay: every submission walks the TRANSITIONS table of    *)
(* agent/submission_wal.py, except that a write that did not complete may  *)
(* put a submission in doubt.  A submission in doubt reads DISPATCHING     *)
(* and bars every step but its own end, if its reservation is known and no *)
(* other such submission is in doubt; damage that names no submission bars *)
(* every step for good.  SubmissionWal implements this module.             *)
(***************************************************************************)
EXTENDS JournalView

VARIABLES state,      \* where each submission stands
          reserved,   \* submissions whose risk reservation is known
          fact,       \* the fact a terminal step recorded
          doubt,      \* submissions with an unresolved incomplete write
          lost        \* damage that names no submission

regVars == <<state, reserved, fact, doubt, lost>>

Init == /\ state = [s \in Submissions |-> "ABSENT"]
        /\ reserved = {}
        /\ fact = [s \in Submissions |-> NoFact]
        /\ doubt = {}
        /\ lost = FALSE

\* A legal step of a submission in a registry nobody doubts.
Step(s, target) ==
  /\ ~lost
  /\ doubt = {}
  /\ target \in TRANSITIONS[state[s]] \ Terminal
  /\ state' = [state EXCEPT ![s] = target]
  /\ reserved' = reserved \cup {s}
  /\ UNCHANGED <<fact, doubt, lost>>

\* The end of a submission: the only step a doubt admits, and what lifts it.
\* Nothing can be ended while two reserved submissions are in doubt.
Finish(s, target, f) ==
  /\ ~lost
  /\ doubt = {} \/ doubt \cap reserved = {s}
  /\ target \in TRANSITIONS[state[s]] \cap Terminal
  /\ state' = [state EXCEPT ![s] = target]
  /\ fact' = [fact EXCEPT ![s] = f]
  /\ doubt' = doubt \ {s}
  /\ UNCHANGED <<reserved, lost>>

\* An incomplete write about s: read as the state that keeps risk held.
Doubt(s) ==
  /\ state[s] \notin Terminal
  /\ state' = [state EXCEPT ![s] = "DISPATCHING"]
  /\ doubt' = doubt \cup {s}
  /\ UNCHANGED <<reserved, fact, lost>>

\* An incomplete write that does not even say which submission it was about.
Lose == /\ lost' = TRUE
        /\ UNCHANGED <<state, reserved, fact, doubt>>

Next == \/ \E s \in Submissions : Doubt(s)
        \/ \E s \in Submissions, t \in States : Step(s, t)
        \/ \E s \in Submissions, t \in Terminal, f \in Facts : Finish(s, t, f)
        \/ Lose

Spec == Init /\ [][Next]_regVars
=============================================================================
