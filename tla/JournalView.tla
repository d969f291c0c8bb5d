------------------------------ MODULE JournalView ------------------------------
(***************************************************************************)
(* The submission journal as a reader sees it (agent/submission_wal.py):   *)
(* what one line does to the replayed view, which transitions the view     *)
(* permits, and the risk projected from it.                                *)
(*                                                                         *)
(* A submission id and its client_order_id are one model value: the second *)
(* is a digest of the first (make_client_order_id), so the "id drift"      *)
(* refusals of _apply cannot be reached by the program's own writers.      *)
(***************************************************************************)
CONSTANTS Submissions,   \* logical submission ids, one per authorised attempt
          Facts,         \* what a terminal line carries: order id/status, reason
          NoFact

States   == {"ABSENT", "HELD", "DISPATCHING", "COMMITTED", "RELEASED"}
Terminal == {"COMMITTED", "RELEASED"}
Events   == (States \ {"ABSENT"}) \cup {"OBSERVED"}

\* How much of a line reached the disk.  "keyed" still shows its two lookup
\* keys, which _line writes right after the event; "bare" does not.
Forms == {"whole", "keyed", "bare"}

Line  == [event : Events, sid : Submissions, fact : Facts \cup {NoFact}, form : Forms]

\* A complete line.
LineOf(event, s, f) == [event |-> event, sid |-> s, fact |-> f, form |-> "whole"]

TRANSITIONS == [s \in States |->
                  CASE s = "ABSENT"      -> {"HELD"}
                    [] s = "HELD"        -> {"DISPATCHING", "RELEASED"}
                    [] s = "DISPATCHING" -> {"COMMITTED", "RELEASED"}
                    [] OTHER             -> {}]

\* torn: submissions with a torn line anywhere; fatal: fatal_problems # ().
View == [state    : [Submissions -> States],
         reserved : SUBSET Submissions,
         fact     : [Submissions -> Facts \cup {NoFact}],
         torn     : SUBSET Submissions,
         fatal    : BOOLEAN]

EmptyView == [state    |-> [s \in Submissions |-> "ABSENT"],
              reserved |-> {},
              fact     |-> [s \in Submissions |-> NoFact],
              torn     |-> {},
              fatal    |-> FALSE]

-----------------------------------------------------------------------------
(* Replay of one line.                                                     *)

\* Slip: a torn line given a state of its own, which TRANSITIONS does not know.
ApplyTornAsUnknown(v, s) == [v EXCEPT !.state[s] = "TORN", !.torn = @ \cup {s}]

\* A torn line could have been HELD or DISPATCHING: read as the latter.
ApplyTorn(v, s) ==
  LET after == IF v.state[s] \in Terminal THEN v.state[s] ELSE "DISPATCHING"
  IN  [v EXCEPT !.state[s] = after, !.torn = @ \cup {s}]

Spoil(v) == [v EXCEPT !.fatal = TRUE]

ApplyWhole(v, l) ==
  LET s == l.sid IN
  CASE l.event = "OBSERVED" ->
         IF v.state[s] = "DISPATCHING" THEN v ELSE Spoil(v)
    [] l.event \in TRANSITIONS[v.state[s]] ->
         [v EXCEPT !.state[s] = l.event,
                   !.reserved = IF l.event = "HELD" THEN @ \cup {s} ELSE @,
                   !.fact[s]  = IF l.event \in Terminal THEN l.fact ELSE @]
    [] OTHER -> Spoil(v)

Apply(v, l) == CASE l.form = "whole" -> ApplyWhole(v, l)
                 [] l.form = "keyed" -> ApplyTorn(v, l.sid)
                 [] l.form = "bare"  -> Spoil(v)

-----------------------------------------------------------------------------
(* What the view says.                                                     *)

Unresolved(v)  == {s \in Submissions : v.state[s] = "DISPATCHING"}
ActiveTorn(v)  == {s \in v.torn : v.state[s] \notin Terminal}
Recoverable(v) == ActiveTorn(v) \cap v.reserved
IntegrityOk(v) == ~v.fatal /\ ActiveTorn(v) = {}

\* Slips: the state machine consulted for torn lines only; no way out for a
\* torn dispatch; the way out taken without a look at the reservation.
PermitsAnything(v, s, target)    == IntegrityOk(v)
PermitsNothingTorn(v, s, target) == IntegrityOk(v) /\ target \in TRANSITIONS[v.state[s]]
PermitsUnreserved(v, s, target)  ==
  /\ IntegrityOk(v) \/ (target \in Terminal /\ ~v.fatal /\ ActiveTorn(v) = {s})
  /\ target \in TRANSITIONS[v.state[s]]

\* _require: a damaged journal admits only the end of its one torn dispatch.
Permits(v, s, target) ==
  /\ IntegrityOk(v) \/ (/\ target \in Terminal
                        /\ ~v.fatal
                        /\ Recoverable(v) = {s})
  /\ target \in TRANSITIONS[v.state[s]]

EntriesAllowed(v) == IntegrityOk(v) /\ Unresolved(v) = {}

\* Slip: an announced order whose answer is outstanding counts for nothing.
CountedForgetsDispatching(v) == {s \in v.reserved : v.state[s] \in {"HELD", "COMMITTED"}}

\* risk_for, before the trading-date filter: the reservations still counted.
Counted(v) == {s \in v.reserved : v.state[s] # "RELEASED"}
=============================================================================
