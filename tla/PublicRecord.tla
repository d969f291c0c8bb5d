---------------------------- MODULE PublicRecord ----------------------------
(***************************************************************************)
(* The decisions of the public snapshot (agent/snapshot.py): every cycle   *)
(* reads the last snapshot, appends its decisions, brings the earlier ones *)
(* up to date and writes what it keeps.                                    *)
(***************************************************************************)
EXTENDS Integers, Sequences, SequencesExt

CONSTANTS MaxDecisions,   \* MAX_DECISIONS, 120 in the code
          KeptRefusals,   \* how many refusals are put back, 20 in the code
          MaxRows,        \* bound: decisions made
          MaxPerCycle     \* bound: decisions of one cycle

VARIABLES snapshot,   \* the decisions of docs/snapshot.json
          made,       \* how many decisions were made; names the rows
          refusals    \* history: a refusal was published

vars == <<snapshot, made, refusals>>

\* What is known of a decision when it is written down.
Outcomes == {"refused", "submitted", "filled"}

Init == snapshot = <<>> /\ made = 0 /\ refusals = FALSE

LastOf(s, n) == SubSeq(s, 1 + (IF Len(s) > n THEN Len(s) - n ELSE 0), Len(s))

\* decision_updates: a submitted row is brought up to date by its client id.
Updated(rows, filled) ==
  [i \in DOMAIN rows |->
     IF rows[i].id \in filled THEN [rows[i] EXCEPT !.outcome = "filled"] ELSE rows[i]]

Refused(rows) == SelectSeq(rows, LAMBDA row : row.outcome = "refused")

\* The refusals that the tail lost are put in front of it, one by one.
PutBack(kept, missing) == Reverse(missing) \o kept

\* build: the tail, the refusals put back, and the tail again.
Kept(tail) ==
  LET kept    == LastOf(tail, MaxDecisions)
      missing == SelectSeq(LastOf(Refused(tail), KeptRefusals), LAMBDA row : ~Contains(kept, row))
  IN  LastOf(PutBack(kept, missing), MaxDecisions)

\* publish_snapshot, at whichever end the cycle came to.
Publish(rows, filled) ==
  LET tail == Updated(snapshot \o rows, filled)
  IN  /\ snapshot' = Kept(tail)
      /\ made' = made + Len(rows)
      /\ refusals' = (refusals \/ Refused(tail) # <<>>)

Submitted == {snapshot[i].id : i \in {j \in DOMAIN snapshot : snapshot[j].outcome = "submitted"}}

Next ==
  \E n \in 0 .. MaxPerCycle : \E what \in [1 .. n -> {"refused", "submitted"}] :
    \E filled \in SUBSET Submitted :
      /\ made + n <= MaxRows
      /\ Publish([i \in 1 .. n |-> [id |-> made + i, outcome |-> what[i]]], filled)

Spec == Init /\ [][Next]_vars

---------------------------------------------------------------------------
\* snapshot.py:157: "Never let a run of submitted proposals push every refusal out
\* of the tail".
RefusalsAreKept ==
  refusals => \E i \in DOMAIN snapshot : snapshot[i].outcome = "refused"
=============================================================================
