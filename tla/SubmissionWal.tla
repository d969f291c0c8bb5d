----------------------------- MODULE SubmissionWal -----------------------------
(***************************************************************************)
(* The journal file of agent/submission_wal.py: an append-only sequence of *)
(* lines, replayed from the start before every call.  An append can stop   *)
(* after any part of its line (a crash, a full disk); the next one begins  *)
(* on a line of its own.                                                   *)
(***************************************************************************)
EXTENDS JournalView, SequencesExt, Naturals

CONSTANTS MaxTears,    \* bound: appends that stop part way
          MaxLines     \* bound: lines before further ones may only end a submission

ASSUME BoundsAssumption == MaxTears \in Nat /\ MaxLines \in Nat

VARIABLES journal,     \* the lines of the file
          terminated,  \* the file ends with a newline (or is empty)
          tears,       \* appends that have stopped part way
          acked        \* the last transition each caller was told was durable

vars == <<journal, terminated, tears, acked>>

\* The CHOOSE has the view of the lines before computed once (it is the only
\* element there is).
Replay(lines) ==
  LET upTo[n \in 0..Len(lines)] ==
        IF n = 0 THEN EmptyView
        ELSE CHOOSE v \in {Apply(before, lines[n]) : before \in {upTo[n - 1]}} : TRUE
  IN  upTo[Len(lines)]
Now == Replay(journal)

Nothing == [state |-> "ABSENT", fact |-> NoFact]

Init == /\ journal = <<>>
        /\ terminated = TRUE
        /\ tears = 0
        /\ acked = [s \in Submissions |-> Nothing]

-----------------------------------------------------------------------------
(* _append                                                                 *)

\* Slip: the resolving record is glued to the torn tail.
NoSeparator == FALSE

NeedsSeparator == ~terminated

\* Two pieces of text on one line are unreadable; the key search finds the
\* first pair of keys on it.
Joined(a, b) == IF a.form # "bare" THEN [a EXCEPT !.form = "keyed"]
                ELSE IF b.form # "bare" THEN [b EXCEPT !.form = "keyed"]
                ELSE a

Written(l) == IF terminated \/ NeedsSeparator
              THEN Append(journal, l)
              ELSE ReplaceAt(journal, Len(journal), Joined(Last(journal), l))

\* The calls a caller can make now: _require for a transition, the loop of
\* reconcile_unresolved for an observation.  commit and release also return
\* early, writing nothing, when the journal already holds the same fact.
Callable(l) == IF l.event = "OBSERVED"
               THEN l.sid \in Unresolved(Now)
               ELSE Permits(Now, l.sid, l.event)

Room == Len(journal) < MaxLines

Durable(l) == /\ Callable(l)
              /\ journal' = Written(l)
              /\ terminated' = TRUE
              /\ acked' = IF l.event = "OBSERVED" THEN acked
                          ELSE [acked EXCEPT ![l.sid] = [state |-> l.event, fact |-> l.fact]]
              /\ UNCHANGED tears

-----------------------------------------------------------------------------
Hold(s)            == Room /\ Durable(LineOf("HELD", s, NoFact))
MarkDispatching(s) == Room /\ Durable(LineOf("DISPATCHING", s, NoFact))
Observe(s)         == Room /\ Durable(LineOf("OBSERVED", s, NoFact))
Commit(s, f)       == Durable(LineOf("COMMITTED", s, f))
Release(s, f)      == Durable(LineOf("RELEASED", s, f))

Calls == {LineOf(e, s, NoFact) : e \in {"HELD", "DISPATCHING", "OBSERVED"}, s \in Submissions}
           \cup {LineOf(e, s, f) : e \in Terminal, s \in Submissions, f \in Facts}

\* An append that stops after some of its text: the caller is not told.
TornAppend(l) ==
  /\ tears < MaxTears
  /\ Room
  /\ Callable(l)
  /\ \E form \in Forms : journal' = Written([l EXCEPT !.form = form])
  /\ terminated' = FALSE
  /\ tears' = tears + 1
  /\ UNCHANGED acked

\* It may also stop right after the separator.
SeparatorOnly ==
  /\ tears < MaxTears
  /\ \E l \in Calls : Callable(l)
  /\ NeedsSeparator
  /\ terminated' = TRUE
  /\ tears' = tears + 1
  /\ UNCHANGED <<journal, acked>>

Next == \/ \E s \in Submissions : Hold(s) \/ MarkDispatching(s) \/ Observe(s)
        \/ \E s \in Submissions, f \in Facts : Commit(s, f) \/ Release(s, f)
        \/ \E l \in Calls : TornAppend(l)
        \/ SeparatorOnly

\* The reconciler runs in every cycle and a reachable broker answers it, so a
\* dispatch that may be resolved is resolved sooner or later.
Resolve(s) == \E f \in Facts : Commit(s, f) \/ Release(s, f)

Spec     == Init /\ [][Next]_vars
FairSpec == Spec /\ \A s \in Submissions : WF_vars(Resolve(s))

-----------------------------------------------------------------------------
(* What the file guarantees.                                               *)

\* The journal replays to a view of the declared shape.
TypeOK == /\ Now \in View
          /\ journal \in Seq(Line)
          /\ acked \in [Submissions -> [state : States, fact : Facts \cup {NoFact}]]
          /\ terminated \in BOOLEAN
          /\ tears \in 0..MaxTears

\* The states a submission may have moved on to since a caller was told s.
AtOrPast(s) == CASE s = "HELD"        -> States \ {"ABSENT"}
                 [] s = "DISPATCHING" -> {"DISPATCHING"} \cup Terminal
                 [] s \in Terminal    -> {s}
                 [] OTHER             -> States

\* What hold, mark_dispatching, commit or release returned for is never lost
\* or undone by a later append, whole or torn, of any submission: the record
\* only moves forward, and an ended submission keeps its end and its fact.
AcknowledgedSurvives ==
  \A s \in Submissions :
    /\ Now.state[s] \in AtOrPast(acked[s].state)
    /\ acked[s].state \in Terminal => Now.fact[s] = acked[s].fact

ReleasedOnDisk(s) == \E i \in DOMAIN journal : /\ journal[i].sid = s
                                              /\ journal[i].event = "RELEASED"
                                              /\ journal[i].form = "whole"

\* risk_for keeps counting a reservation from the moment hold returns until a
\* release line is on disk, whatever is torn in between.
RiskStaysCounted ==
  \A s \in Submissions :
    acked[s].state \in {"HELD", "DISPATCHING", "COMMITTED"} =>
      s \in Counted(Now) \/ ReleasedOnDisk(s)

\* The writers never produce a line replay calls illegal: the only damage
\* that bars the journal for good is a tear that lost its lookup keys.
WritersNeverSpoil ==
  Now.fatal => \E i \in DOMAIN journal : journal[i].form = "bare"

\* What makes them inductive: a submission the journal has heard of has its
\* reservation on record unless a tear put it in doubt, whoever was told of a
\* step has his reservation on record, and an end read in the journal is
\* there as a complete line.
ReservedOrTorn ==
  \A s \in Submissions : Now.state[s] # "ABSENT" => s \in Now.reserved \cup ActiveTorn(Now)
AckedIsReserved ==
  \A s \in Submissions : acked[s].state # "ABSENT" => s \in Now.reserved
ReleaseIsWritten ==
  \A s \in Submissions : Now.state[s] = "RELEASED" => ReleasedOnDisk(s)

WalInv == /\ TypeOK /\ ReservedOrTorn /\ AckedIsReserved /\ ReleaseIsWritten
          /\ AcknowledgedSurvives /\ WritersNeverSpoil

\* The journal implements the registry (SubmissionRegistry).
Registry == INSTANCE SubmissionRegistry WITH
              state    <- Now.state,
              reserved <- Now.reserved,
              fact     <- Now.fact,
              doubt    <- ActiveTorn(Now),
              lost     <- Now.fatal
ImplementsRegistry == Registry!Spec
=============================================================================
