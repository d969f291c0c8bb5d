--------------------------- MODULE MCSubmissionWal ---------------------------
(* The journal file on two submissions and torn appends.                   *)
EXTENDS SubmissionWal

\* A journal whose only damage is one torn submission with a known
\* reservation becomes trustworthy again, unless a further append tears.
TornHeals ==
  \A s \in Submissions :
    (/\ ~Now.fatal /\ ActiveTorn(Now) = {s} /\ s \in Now.reserved)
      ~> (IntegrityOk(Now) \/ Now.fatal \/ ActiveTorn(Now) # {s})
=============================================================================
