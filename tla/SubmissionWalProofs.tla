-------------------------- MODULE SubmissionWalProofs --------------------------
(***************************************************************************)
(* The journal file of agent/submission_wal.py keeps what it told its      *)
(* callers, and implements SubmissionRegistry, for every number of         *)
(* submissions, lines and torn appends.                                    *)
(***************************************************************************)
EXTENDS SubmissionWal, JournalViewProofs, FiniteSums

-----------------------------------------------------------------------------
(* Replay, line by line.                                                   *)

Replays(h, lines) ==
  h = [n \in 0..Len(lines) |-> IF n = 0 THEN EmptyView ELSE Apply(h[n - 1], lines[n])]

\* Replaying has a result, whatever the file holds.
LEMMA ReplayExists ==
  ASSUME NEW lines \in Seq(Line)
  PROVE  \E h : Replays(h, lines)
<1> DEFINE N == 0..Len(lines)
           Body(h, n) == IF n = 0 THEN EmptyView ELSE Apply(h[n - 1], lines[n])
           Upto(h, k) == \A n \in N : n <= k => h[n] = Body(h, n)
           Has(k) == \E h : h = [n \in N |-> h[n]] /\ Upto(h, k)
           Q == {k \in Nat : Has(k)}
<1>0. Len(lines) \in Nat
  OBVIOUS
<1>1. 0 \in Q
  <2> DEFINE h == [n \in N |-> EmptyView]
  <2>1. h = [n \in N |-> h[n]] /\ Upto(h, 0)
    BY <1>0
  <2>2. Has(0)
    <3> HIDE DEF h, Upto
    <3> QED BY <2>1
  <2> HIDE DEF Has
  <2> QED BY <2>2
<1>2. \A k \in Nat : k \in Q => k + 1 \in Q
  <2> SUFFICES ASSUME NEW k \in Nat, Has(k) PROVE Has(k + 1)
    OBVIOUS
  <2>1. PICK h : Upto(h, k)
    OBVIOUS
  <2> DEFINE g == [n \in N |-> Body(h, n)]
  <2>2. ASSUME NEW n \in N, n <= k + 1
        PROVE  g[n] = Body(g, n)
    <3>1. CASE n = 0
      BY <3>1
    <3>2. CASE n # 0
      <4>1. n - 1 \in N /\ n - 1 <= k
        BY <1>0, <2>2, <3>2
      <4>2. h[n - 1] = g[n - 1]
        BY <2>1, <4>1
      <4> QED BY <3>2, <4>2
    <3> QED BY <3>1, <3>2
  <2>3. g = [n \in N |-> g[n]]
    OBVIOUS
  <2>4. Upto(g, k + 1)
    <3> HIDE DEF g
    <3> QED BY <2>2
  <2> HIDE DEF g, Upto
  <2> QED BY <2>3, <2>4
<1>3. Has(Len(lines))
  <2> HIDE DEF Has
  <2>1. \A k \in Nat : k \in Q
    <3> HIDE DEF Q
    <3> QED BY <1>1, <1>2, CountUp
  <2> QED BY <1>0, <2>1
<1>4. PICK h : h = [n \in N |-> h[n]] /\ Upto(h, Len(lines))
  BY <1>3
<1>5. [n \in N |-> h[n]] = [n \in N |-> Body(h, n)]
  <2>1. \A n \in N : h[n] = Body(h, n)
    BY <1>0, <1>4
  <2> QED BY <2>1
<1>6. Replays(h, lines)
  BY <1>4, <1>5 DEF Replays
<1> QED BY <1>6

\* The result is reached one line at a time.
LEMMA ReplayIs ==
  ASSUME NEW lines \in Seq(Line)
  PROVE  \E h : Replays(h, lines) /\ Replay(lines) = h[Len(lines)]
<1> DEFINE Chosen(u) ==
             u = [n \in 0..Len(lines) |->
                    IF n = 0 THEN EmptyView
                    ELSE CHOOSE v \in {Apply(before, lines[n]) : before \in {u[n - 1]}} : TRUE]
           h == CHOOSE u : Chosen(u)
<1>1. \A u : Chosen(u) <=> Replays(u, lines)
  <2> TAKE u
  <2>1. \A n \in 0..Len(lines) :
          (CHOOSE v \in {Apply(before, lines[n]) : before \in {u[n - 1]}} : TRUE)
            = Apply(u[n - 1], lines[n])
    OBVIOUS
  <2>2. [n \in 0..Len(lines) |->
           IF n = 0 THEN EmptyView
           ELSE CHOOSE v \in {Apply(before, lines[n]) : before \in {u[n - 1]}} : TRUE]
        = [n \in 0..Len(lines) |-> IF n = 0 THEN EmptyView ELSE Apply(u[n - 1], lines[n])]
    BY <2>1
  <2> QED BY <2>2 DEF Replays
<1>2. Replays(h, lines)
  <2>1. \E u : Chosen(u)
    <3> HIDE DEF Chosen
    <3> QED BY <1>1, ReplayExists
  <2>2. Chosen(h)
    <3> HIDE DEF Chosen
    <3> QED BY <2>1
  <2> HIDE DEF Chosen, h
  <2> QED BY <1>1, <2>2
<1>3. Replay(lines) = h[Len(lines)]
  BY DEF Replay
<1> QED BY <1>2, <1>3

\* An empty file replays to nothing.
LEMMA ReplayNothing == Replay(<<>>) = EmptyView
<1>1. <<>> \in Seq(Line) /\ Len(<<>>) = 0
  OBVIOUS
<1>2. PICK h : Replays(h, <<>>) /\ Replay(<<>>) = h[Len(<<>>)]
  BY <1>1, ReplayIs
<1>3. h[0] = EmptyView
  BY <1>1, <1>2 DEF Replays
<1> QED BY <1>1, <1>2, <1>3

\* One more line is applied to what the lines before it replay to.
LEMMA ReplayAppend ==
  ASSUME NEW lines \in Seq(Line), NEW l \in Line
  PROVE  Replay(Append(lines, l)) = Apply(Replay(lines), l)
<1> DEFINE more == Append(lines, l)
           N == Len(lines)
<1>1. /\ N \in Nat /\ more \in Seq(Line) /\ Len(more) = N + 1 /\ more[N + 1] = l
      /\ \A n \in 1..N : more[n] = lines[n]
  OBVIOUS
<1>2. PICK h : Replays(h, lines) /\ Replay(lines) = h[N]
  BY ReplayIs
<1> HIDE DEF more
<1>3. PICK g : Replays(g, more) /\ Replay(more) = g[Len(more)]
  BY <1>1, ReplayIs
<1> HIDE DEF N
<1>4. /\ \A n \in 0..N : h[n] = IF n = 0 THEN EmptyView ELSE Apply(h[n - 1], lines[n])
      /\ \A n \in 0..(N + 1) : g[n] = IF n = 0 THEN EmptyView ELSE Apply(g[n - 1], more[n])
  BY <1>1, <1>2, <1>3 DEF Replays, N
<1> DEFINE Q == {n \in Nat : n <= N => h[n] = g[n]}
<1>5. 0 \in Q
  BY <1>1, <1>4
<1>6. \A n \in Nat : n \in Q => n + 1 \in Q
  <2> SUFFICES ASSUME NEW n \in Nat, n \in Q, n + 1 <= N PROVE h[n + 1] = g[n + 1]
    OBVIOUS
  <2>1. h[n] = g[n]
    BY <1>1
  <2>2. /\ n + 1 \in 0..N /\ n + 1 \in 0..(N + 1) /\ n + 1 \in 1..N
        /\ n + 1 # 0 /\ (n + 1) - 1 = n
    BY <1>1
  <2>3. more[n + 1] = lines[n + 1]
    BY <1>1, <2>2
  <2>4. h[n + 1] = Apply(h[n], lines[n + 1])
    BY <1>4, <2>2
  <2>5. g[n + 1] = Apply(g[n], more[n + 1])
    BY <1>4, <2>2
  <2> QED BY <2>1, <2>3, <2>4, <2>5
<1>7. h[N] = g[N]
  <2>1. \A n \in Nat : n \in Q
    <3> HIDE DEF Q
    <3> QED BY <1>5, <1>6, CountUp
  <2> QED BY <1>1, <2>1
<1>8. g[N + 1] = Apply(g[N], l)
  <2>1. N + 1 \in 0..(N + 1) /\ N + 1 # 0 /\ (N + 1) - 1 = N
    BY <1>1
  <2> QED BY <1>1, <1>4, <2>1
<1> QED BY <1>1, <1>2, <1>3, <1>7, <1>8 DEF more

\* The writers start a line of their own after a torn one.
LEMMA WrittenAppends ==
  ASSUME NEW l, terminated \in BOOLEAN
  PROVE  Written(l) = Append(journal, l)
BY DEF Written, NeedsSeparator

-----------------------------------------------------------------------------
(* What one more line, whole or torn, does to the view.                    *)

\* Writable(v, l): the calls of Callable, on any view.
Writable(v, l) ==
  IF l.event = "OBSERVED" THEN l.sid \in Unresolved(v) ELSE Permits(v, l.sid, l.event)

Moves(v, w, s, target, f) ==
  /\ w.state = [v.state EXCEPT ![s] = target]
  /\ w.reserved = IF target = "HELD" THEN v.reserved \cup {s} ELSE v.reserved
  /\ w.fact = IF target \in Terminal THEN [v.fact EXCEPT ![s] = f] ELSE v.fact
  /\ w.torn = v.torn /\ w.fatal = v.fatal
Tears(v, w, s) ==
  /\ v.state[s] \notin Terminal
  /\ w.state = [v.state EXCEPT ![s] = "DISPATCHING"]
  /\ w.reserved = v.reserved /\ w.fact = v.fact
  /\ w.torn = v.torn \cup {s} /\ w.fatal = v.fatal
Spoils(v, w) ==
  /\ w.fatal = TRUE
  /\ w.state = v.state /\ w.reserved = v.reserved /\ w.fact = v.fact /\ w.torn = v.torn

\* A line that may be written changes nothing (an observation), moves its
\* submission, leaves it torn, or spoils the journal; nothing else.
LEMMA LineEffect ==
  ASSUME NEW v \in View, NEW l \in Line, Writable(v, l), NEW w, w = Apply(v, l)
  PROVE  /\ w \in View
         /\ \/ /\ l.event = "OBSERVED" /\ w = v
            \/ /\ l.form = "whole" /\ l.event \in TRANSITIONS[v.state[l.sid]]
               /\ Moves(v, w, l.sid, l.event, l.fact)
            \/ l.form = "keyed" /\ Tears(v, w, l.sid)
            \/ l.form = "bare" /\ Spoils(v, w)
<1> DEFINE s == l.sid
<1>1. /\ l.event \in Events /\ s \in Submissions /\ l.fact \in Facts \cup {NoFact}
      /\ l.form \in Forms
  BY DEF Line
<1>2. /\ v.state \in [Submissions -> States] /\ v.reserved \subseteq Submissions
      /\ v.fact \in [Submissions -> Facts \cup {NoFact}] /\ v.torn \subseteq Submissions
      /\ v.fatal \in BOOLEAN
      /\ v = [state |-> v.state, reserved |-> v.reserved, fact |-> v.fact,
              torn |-> v.torn, fatal |-> v.fatal]
  BY DEF View
<1>3. v.state[s] \notin Terminal
  <2>1. v.state[s] \in Terminal => TRANSITIONS[v.state[s]] = {}
    BY <1>1, <1>2 DEF TRANSITIONS, Terminal, States
  <2> QED BY <2>1 DEF Writable, Permits, Unresolved, Terminal
<1>4. CASE l.form = "whole" /\ l.event = "OBSERVED"
  <2>1. v.state[s] = "DISPATCHING"
    BY <1>4 DEF Writable, Unresolved
  <2>2. w = ApplyWhole(v, l)
    BY <1>4 DEF Apply
  <2>3. ApplyWhole(v, l) = v
    <3>1. l.event \notin TRANSITIONS[v.state[s]]
      BY <1>4, <2>1 DEF TRANSITIONS, States, Terminal
    <3> QED BY <1>4, <2>1, <3>1 DEF ApplyWhole
  <2> QED BY <1>4, <2>2, <2>3
<1>5. CASE l.form = "whole" /\ l.event # "OBSERVED"
  <2>1. l.event \in TRANSITIONS[v.state[s]]
    BY <1>5 DEF Writable, Permits
  <2>2. w = [v EXCEPT !.state[s] = l.event,
                      !.reserved = IF l.event = "HELD" THEN @ \cup {s} ELSE @,
                      !.fact[s]  = IF l.event \in Terminal THEN l.fact ELSE @]
    BY <1>5, <2>1 DEF Apply, ApplyWhole
  <2>3. w = [state    |-> [v.state EXCEPT ![s] = l.event],
             reserved |-> IF l.event = "HELD" THEN v.reserved \cup {s} ELSE v.reserved,
             fact     |-> [v.fact EXCEPT ![s] = IF l.event \in Terminal THEN l.fact ELSE @],
             torn     |-> v.torn, fatal |-> v.fatal]
    BY <1>2, <2>2
  <2>4. l.event \in States
    BY <1>1, <1>5 DEF Events
  <2>5. w \in View
    BY <1>1, <1>2, <2>3, <2>4 DEF View
  <2>6. l.event \notin Terminal => [v.fact EXCEPT ![s] = v.fact[s]] = v.fact
    BY <1>1, <1>2
  <2>7. Moves(v, w, s, l.event, l.fact)
    BY <2>3, <2>6 DEF Moves
  <2> QED BY <1>5, <2>1, <2>5, <2>7
<1>6. CASE l.form = "keyed"
  <2>1. w = ApplyTorn(v, s)
    BY <1>6 DEF Apply
  <2>2. w = [v EXCEPT !.state[s] = "DISPATCHING", !.torn = @ \cup {s}]
    BY <1>3, <2>1 DEF ApplyTorn
  <2>3. w = [state    |-> [v.state EXCEPT ![s] = "DISPATCHING"],
             reserved |-> v.reserved, fact |-> v.fact,
             torn     |-> v.torn \cup {s}, fatal |-> v.fatal]
    BY <1>2, <2>2
  <2>4. w \in View
    BY <1>1, <1>2, <2>3 DEF View, States
  <2>5. Tears(v, w, s)
    BY <1>3, <2>3 DEF Tears
  <2> QED BY <1>6, <2>4, <2>5
<1>7. CASE l.form = "bare"
  <2>1. w = [v EXCEPT !.fatal = TRUE]
    BY <1>7 DEF Apply, Spoil
  <2>2. w = [state |-> v.state, reserved |-> v.reserved, fact |-> v.fact,
             torn |-> v.torn, fatal |-> TRUE]
    BY <1>2, <2>1
  <2>3. w \in View
    BY <1>2, <2>2 DEF View
  <2>4. Spoils(v, w)
    BY <2>2 DEF Spoils
  <2> QED BY <1>7, <2>3, <2>4
<1> QED BY <1>1, <1>4, <1>5, <1>6, <1>7 DEF Forms

-----------------------------------------------------------------------------
(* One step of the file.                                                   *)

Told(l) == [acked EXCEPT ![l.sid] = [state |-> l.event, fact |-> l.fact]]

\* A step writes one line a caller may write, or just a separator; a caller
\* is told of its transition only if the line is complete.
LEMMA StepLine ==
  ASSUME TypeOK, Next
  PROVE  /\ terminated' \in BOOLEAN /\ tears' \in 0..MaxTears
         /\ \/ UNCHANGED <<journal, acked>>
            \/ \E l \in Line :
                 /\ Writable(Now, l)
                 /\ l.event \in Terminal => l.fact \in Facts
                 /\ journal' = Append(journal, l)
                 /\ \/ acked' = acked
                    \/ l.form = "whole" /\ l.event \in States /\ acked' = Told(l)
<1> DEFINE Goal == \E l \in Line :
                     /\ Writable(Now, l)
                     /\ l.event \in Terminal => l.fact \in Facts
                     /\ journal' = Append(journal, l)
                     /\ \/ acked' = acked
                        \/ l.form = "whole" /\ l.event \in States /\ acked' = Told(l)
<1>0. /\ terminated \in BOOLEAN /\ tears \in Nat /\ tears \in 0..MaxTears /\ MaxTears \in Nat
      /\ \A l : Written(l) = Append(journal, l)
  BY WrittenAppends, BoundsAssumption DEF TypeOK
<1>1. \A e \in Events, s \in Submissions, f \in Facts \cup {NoFact} :
        LET l == LineOf(e, s, f) IN
        /\ l \in Line /\ l.event = e /\ l.sid = s /\ l.fact = f /\ l.form = "whole"
        /\ Callable(l) <=> Writable(Now, l)
  BY DEF LineOf, Line, Forms, Callable, Writable
<1>2. ASSUME NEW e \in Events, NEW s \in Submissions, NEW f \in Facts \cup {NoFact},
             e \in Terminal => f \in Facts, Durable(LineOf(e, s, f))
      PROVE  Goal /\ terminated' = TRUE /\ tears' = tears
  <2> DEFINE l == LineOf(e, s, f)
  <2>1. /\ l \in Line /\ l.event = e /\ l.sid = s /\ l.fact = f /\ l.form = "whole"
        /\ Writable(Now, l)
    BY <1>1, <1>2 DEF Durable
  <2>2. /\ journal' = Append(journal, l) /\ terminated' = TRUE /\ tears' = tears
        /\ acked' = IF l.event = "OBSERVED" THEN acked ELSE Told(l)
    BY <1>0, <1>2 DEF Durable, Told
  <2>3. l.event # "OBSERVED" => l.event \in States
    BY <2>1 DEF Events
  <2>4. l.event \in Terminal => l.fact \in Facts
    BY <1>2, <2>1
  <2> HIDE DEF l
  <2> QED BY <2>1, <2>2, <2>3, <2>4
<1>3. ASSUME NEW l \in Calls, TornAppend(l)
      PROVE  Goal /\ terminated' = FALSE /\ tears' = tears + 1 /\ tears < MaxTears
  <2>1. PICK form \in Forms : journal' = Written([l EXCEPT !.form = form])
    BY <1>3 DEF TornAppend
  <2> DEFINE torn == [l EXCEPT !.form = form]
  <2>2. PICK e \in Events, s \in Submissions, f \in Facts \cup {NoFact} :
          l = LineOf(e, s, f) /\ (e \in Terminal => f \in Facts)
    BY DEF Calls, Events, States, Terminal
  <2>3. torn = [event |-> e, sid |-> s, fact |-> f, form |-> form]
    BY <2>2 DEF LineOf
  <2>4. torn \in Line /\ torn.event = e /\ torn.sid = s /\ torn.fact = f
    BY <2>3 DEF Line
  <2>5. Writable(Now, torn)
    <3>1. Writable(Now, l)
      BY <1>1, <1>3, <2>2 DEF TornAppend
    <3>2. l.event = torn.event /\ l.sid = torn.sid
      BY <1>1, <2>2, <2>4
    <3> HIDE DEF torn
    <3> QED BY <3>1, <3>2 DEF Writable
  <2>6. journal' = Append(journal, torn)
    BY <1>0, <2>1
  <2>7. acked' = acked /\ terminated' = FALSE /\ tears' = tears + 1 /\ tears < MaxTears
    BY <1>3 DEF TornAppend
  <2> HIDE DEF torn
  <2> QED BY <2>2, <2>4, <2>5, <2>6, <2>7
<1>4. CASE \E s \in Submissions : Hold(s) \/ MarkDispatching(s) \/ Observe(s)
  <2>1. PICK s \in Submissions, e \in {"HELD", "DISPATCHING", "OBSERVED"} :
          Durable(LineOf(e, s, NoFact))
    BY <1>4 DEF Hold, MarkDispatching, Observe
  <2>2. e \in Events /\ e \notin Terminal
    BY DEF Events, States, Terminal
  <2>3. Goal /\ terminated' = TRUE /\ tears' = tears
    BY <1>2, <2>1, <2>2
  <2> QED BY <1>0, <2>3
<1>5. CASE \E s \in Submissions, f \in Facts : Commit(s, f) \/ Release(s, f)
  <2>1. PICK s \in Submissions, f \in Facts, e \in Terminal : Durable(LineOf(e, s, f))
    BY <1>5 DEF Commit, Release, Terminal
  <2>2. e \in Events
    BY DEF Events, States, Terminal
  <2>3. Goal /\ terminated' = TRUE /\ tears' = tears
    BY <1>2, <2>1, <2>2
  <2> QED BY <1>0, <2>3
<1>6. CASE \E l \in Calls : TornAppend(l)
  <2>1. Goal /\ terminated' = FALSE /\ tears' = tears + 1 /\ tears < MaxTears
    BY <1>3, <1>6
  <2>2. tears' \in 0..MaxTears
    BY <1>0, <2>1
  <2> QED BY <2>1, <2>2
<1>7. CASE SeparatorOnly
  <2>1. /\ UNCHANGED <<journal, acked>> /\ terminated' = TRUE
        /\ tears' = tears + 1 /\ tears < MaxTears
    BY <1>7 DEF SeparatorOnly
  <2>2. tears' \in 0..MaxTears
    BY <1>0, <2>1
  <2> QED BY <2>1, <2>2
<1> QED BY <1>4, <1>5, <1>6, <1>7 DEF Next

-----------------------------------------------------------------------------
(* The inductive invariant.                                                *)

\* A submission's recorded state moves forward only.
LEMMA ForwardOnly ==
  ASSUME NEW told \in States, NEW from \in AtOrPast(told), from \in States,
         NEW to, \/ to = from
                 \/ to \in TRANSITIONS[from]
                 \/ from \notin Terminal /\ to = "DISPATCHING"
  PROVE  to \in AtOrPast(told)
BY DEF AtOrPast, TRANSITIONS, States, Terminal

LEMMA InitWalInv == ASSUME Init PROVE WalInv
<1>1. Now = EmptyView
  BY ReplayNothing DEF Init, Now
<1>2. \A s \in Submissions : Now.state[s] = "ABSENT"
  BY <1>1 DEF EmptyView
<1>3. TypeOK
  BY <1>1, EmptyIsView, BoundsAssumption DEF Init, TypeOK, Nothing, States
<1>4. \A s \in Submissions : acked[s].state = "ABSENT"
  BY DEF Init, Nothing
<1>5. ~Now.fatal
  BY <1>1 DEF EmptyView
<1>6. AcknowledgedSurvives
  BY <1>2, <1>4 DEF AcknowledgedSurvives, AtOrPast, States, Terminal
<1> QED BY <1>2, <1>3, <1>4, <1>5, <1>6
        DEF WalInv, ReservedOrTorn, AckedIsReserved, ReleaseIsWritten, WritersNeverSpoil

\* What StepLine and LineEffect say together of a step that writes l.
Wrote(l) ==
  /\ l \in Line /\ Writable(Now, l)
  /\ l.event \in Terminal => l.fact \in Facts
  /\ journal' = Append(journal, l)
  /\ \/ acked' = acked
     \/ l.form = "whole" /\ l.event \in States /\ acked' = Told(l)
  /\ Now \in View /\ Now' \in View
  /\ \/ /\ l.event = "OBSERVED" /\ Now' = Now
     \/ /\ l.form = "whole" /\ l.event \in TRANSITIONS[Now.state[l.sid]]
        /\ Moves(Now, Now', l.sid, l.event, l.fact)
     \/ l.form = "keyed" /\ Tears(Now, Now', l.sid)
     \/ l.form = "bare" /\ Spoils(Now, Now')

LEMMA StepWrote ==
  ASSUME TypeOK, Next
  PROVE  UNCHANGED <<journal, acked>> \/ \E l \in Line : Wrote(l)
<1> SUFFICES ASSUME ~UNCHANGED <<journal, acked>> PROVE \E l \in Line : Wrote(l)
  OBVIOUS
<1>1. PICK l \in Line : /\ Writable(Now, l)
                        /\ l.event \in Terminal => l.fact \in Facts
                        /\ journal' = Append(journal, l)
                        /\ \/ acked' = acked
                           \/ l.form = "whole" /\ l.event \in States /\ acked' = Told(l)
  BY StepLine
<1>2. Now \in View /\ journal \in Seq(Line)
  BY DEF TypeOK
<1>3. Now' = Apply(Now, l)
  <2>1. Replay(Append(journal, l)) = Apply(Replay(journal), l)
    BY <1>2, ReplayAppend
  <2> QED BY <1>1, <2>1 DEF Now
<1>4. Wrote(l)
  BY <1>1, <1>2, <1>3, LineEffect DEF Wrote
<1> QED BY <1>4

\* An observation moves nothing: the cases a line leaves for one submission.
LEMMA WroteState ==
  ASSUME NEW l \in Line, Wrote(l), NEW s \in Submissions
  PROVE  /\ \/ Now'.state[s] = Now.state[s]
            \/ /\ s = l.sid /\ l.form = "whole" /\ l.event \in TRANSITIONS[Now.state[s]]
               /\ Now'.state[s] = l.event
            \/ /\ s = l.sid /\ Now.state[s] \notin Terminal
               /\ Now'.state[s] = "DISPATCHING" /\ s \in Now'.torn
         /\ Now.reserved \subseteq Now'.reserved
         /\ Now.torn \subseteq Now'.torn
<1>1. Now.state \in [Submissions -> States] /\ l.sid \in Submissions
  BY DEF Wrote, View, Line
<1> QED BY <1>1 DEF Wrote, Moves, Tears, Spoils

LEMMA StepReserved ==
  ASSUME WalInv, NEW l \in Line, Wrote(l)
  PROVE  ReservedOrTorn'
<1> SUFFICES ASSUME NEW s \in Submissions, Now'.state[s] # "ABSENT"
             PROVE  s \in Now'.reserved \/ s \in ActiveTorn(Now')
  BY DEF ReservedOrTorn
<1>1. CASE Now'.state[s] = Now.state[s]
  <2>1. s \in Now.reserved \/ (s \in Now.torn /\ Now.state[s] \notin Terminal)
    BY <1>1 DEF WalInv, ReservedOrTorn, ActiveTorn
  <2>2. Now.reserved \subseteq Now'.reserved /\ Now.torn \subseteq Now'.torn
    BY WroteState
  <2> QED BY <1>1, <2>1, <2>2 DEF ActiveTorn
<1>2. CASE /\ s = l.sid /\ l.form = "whole" /\ l.event \in TRANSITIONS[Now.state[s]]
           /\ Now'.state[s] = l.event
  <2>0. Now.state[s] \in States
    BY DEF Wrote, View
  <2>1. CASE l.event = "HELD"
    <3>1. Moves(Now, Now', l.sid, l.event, l.fact)
      BY <1>2, <2>1 DEF Wrote, Forms, Moves
    <3> QED BY <1>2, <2>1, <3>1 DEF Moves
  <2>2. CASE l.event # "HELD"
    <3>1. Now.state[s] # "ABSENT" /\ l.event # "OBSERVED"
      BY <1>2, <2>0, <2>2 DEF TRANSITIONS, States, Terminal
    <3>2. Permits(Now, s, l.event)
      BY <1>2, <3>1 DEF Wrote, Writable
    <3>3. ActiveTorn(Now) = {} \/ s \in Now.reserved
      BY <3>2 DEF Permits, IntegrityOk, Recoverable
    <3>4. s \in Now.reserved
      BY <3>1, <3>3 DEF WalInv, ReservedOrTorn
    <3> QED BY <3>4, WroteState
  <2> QED BY <2>1, <2>2
<1>3. CASE s = l.sid /\ Now'.state[s] = "DISPATCHING" /\ s \in Now'.torn
  BY <1>3 DEF ActiveTorn, Terminal
<1> QED BY <1>1, <1>2, <1>3, WroteState

LEMMA StepReleased ==
  ASSUME WalInv, NEW l \in Line, Wrote(l)
  PROVE  ReleaseIsWritten'
<1> SUFFICES ASSUME NEW s \in Submissions, Now'.state[s] = "RELEASED"
             PROVE  \E i \in DOMAIN journal' : /\ journal'[i].sid = s
                                              /\ journal'[i].event = "RELEASED"
                                              /\ journal'[i].form = "whole"
  BY DEF ReleaseIsWritten, ReleasedOnDisk
<1>1. /\ journal \in Seq(Line) /\ journal' = Append(journal, l)
      /\ Len(journal) \in Nat
  BY DEF WalInv, TypeOK, Wrote
<1>2. /\ DOMAIN journal' = 1..(Len(journal) + 1) /\ DOMAIN journal = 1..Len(journal)
      /\ journal'[Len(journal) + 1] = l
      /\ \A i \in DOMAIN journal : i \in DOMAIN journal' /\ journal'[i] = journal[i]
  BY <1>1
<1>3. CASE Now.state[s] = "RELEASED"
  <2>1. ReleasedOnDisk(s)
    BY <1>3 DEF WalInv, ReleaseIsWritten
  <2> QED BY <1>2, <2>1 DEF ReleasedOnDisk
<1>4. CASE s = l.sid /\ l.form = "whole" /\ l.event = "RELEASED"
  <2>1. Len(journal) + 1 \in DOMAIN journal'
    BY <1>1, <1>2
  <2> QED BY <1>2, <1>4, <2>1
<1> QED BY <1>3, <1>4, WroteState

LEMMA StepSpoil ==
  ASSUME WalInv, NEW l \in Line, Wrote(l)
  PROVE  WritersNeverSpoil'
<1> SUFFICES ASSUME Now'.fatal
             PROVE  \E i \in DOMAIN journal' : journal'[i].form = "bare"
  BY DEF WritersNeverSpoil
<1>1. /\ journal \in Seq(Line) /\ journal' = Append(journal, l)
      /\ Len(journal) \in Nat
  BY DEF WalInv, TypeOK, Wrote
<1>2. /\ DOMAIN journal' = 1..(Len(journal) + 1) /\ DOMAIN journal = 1..Len(journal)
      /\ journal'[Len(journal) + 1] = l
      /\ \A i \in DOMAIN journal : i \in DOMAIN journal' /\ journal'[i] = journal[i]
  BY <1>1
<1>3. Now'.fatal = Now.fatal \/ l.form = "bare"
  BY DEF Wrote, Moves, Tears
<1>4. CASE Now.fatal
  <2>1. \E i \in DOMAIN journal : journal[i].form = "bare"
    BY <1>4 DEF WalInv, WritersNeverSpoil
  <2> QED BY <1>2, <2>1
<1>5. CASE l.form = "bare"
  <2>1. Len(journal) + 1 \in DOMAIN journal'
    BY <1>1, <1>2
  <2> QED BY <1>2, <1>5, <2>1
<1> QED BY <1>3, <1>4, <1>5

\* Whoever is told of a step of its own is told the state the journal shows.
LEMMA ToldIsShown ==
  ASSUME WalInv, NEW l \in Line, Wrote(l), acked' # acked
  PROVE  /\ acked' = Told(l) /\ l.event \in States \ {"ABSENT"} /\ l.sid \in Submissions
         /\ l.form = "whole" /\ l.event \in TRANSITIONS[Now.state[l.sid]]
         /\ Moves(Now, Now', l.sid, l.event, l.fact)
         /\ Now'.state[l.sid] = l.event
<1>1. acked' = Told(l) /\ l.form = "whole" /\ l.event \in States
  BY DEF Wrote
<1>2. l.sid \in Submissions /\ Now.state \in [Submissions -> States]
  BY DEF Wrote, View, Line
<1>3. l.event # "OBSERVED"
  BY <1>1 DEF States
<1>4. /\ l.event \in TRANSITIONS[Now.state[l.sid]]
      /\ Moves(Now, Now', l.sid, l.event, l.fact)
  BY <1>1, <1>3 DEF Wrote
<1>5. l.event # "ABSENT"
  BY <1>2, <1>4 DEF TRANSITIONS, States, Terminal
<1> QED BY <1>1, <1>2, <1>4, <1>5 DEF Moves

LEMMA StepAckedReserved ==
  ASSUME WalInv, NEW l \in Line, Wrote(l)
  PROVE  AckedIsReserved'
<1> SUFFICES ASSUME NEW s \in Submissions, acked'[s].state # "ABSENT"
             PROVE  s \in Now'.reserved
  BY DEF AckedIsReserved
<1>0. acked \in [Submissions -> [state : States, fact : Facts \cup {NoFact}]]
  BY DEF WalInv, TypeOK
<1>1. CASE acked'[s] = acked[s]
  BY <1>1, WroteState DEF WalInv, AckedIsReserved
<1>2. CASE acked'[s] # acked[s]
  <2>1. s = l.sid /\ acked' = Told(l)
    BY <1>0, <1>2, ToldIsShown DEF Told
  <2>2. /\ l.event \in TRANSITIONS[Now.state[s]]
        /\ Moves(Now, Now', s, l.event, l.fact)
    BY <1>2, <2>1, ToldIsShown
  <2>3. CASE l.event = "HELD"
    BY <2>2, <2>3 DEF Moves
  <2>4. CASE l.event # "HELD"
    <3>0. Now.state[s] \in States
      BY DEF Wrote, View
    <3>1. Now.state[s] # "ABSENT" /\ l.event # "OBSERVED"
      BY <2>2, <2>4, <3>0 DEF TRANSITIONS, States, Terminal
    <3>2. Permits(Now, s, l.event)
      BY <2>1, <3>1 DEF Wrote, Writable
    <3>3. ActiveTorn(Now) = {} \/ s \in Now.reserved
      BY <3>2 DEF Permits, IntegrityOk, Recoverable
    <3>4. s \in Now.reserved
      BY <3>1, <3>3 DEF WalInv, ReservedOrTorn
    <3> QED BY <3>4, WroteState
  <2> QED BY <2>3, <2>4
<1> QED BY <1>1, <1>2

LEMMA StepAcknowledged ==
  ASSUME WalInv, NEW l \in Line, Wrote(l)
  PROVE  AcknowledgedSurvives'
<1> SUFFICES ASSUME NEW s \in Submissions
             PROVE  /\ Now'.state[s] \in AtOrPast(acked'[s].state)
                    /\ acked'[s].state \in Terminal => Now'.fact[s] = acked'[s].fact
  BY DEF AcknowledgedSurvives
<1>0. /\ acked \in [Submissions -> [state : States, fact : Facts \cup {NoFact}]]
      /\ Now.state \in [Submissions -> States]
      /\ Now.fact \in [Submissions -> Facts \cup {NoFact}]
      /\ l.sid \in Submissions
  BY DEF WalInv, TypeOK, Wrote, View, Line
<1>1. CASE acked'[s] = acked[s]
  <2>1. /\ Now.state[s] \in AtOrPast(acked[s].state)
        /\ acked[s].state \in Terminal => Now.fact[s] = acked[s].fact
    BY DEF WalInv, AcknowledgedSurvives
  <2>2. \/ Now'.state[s] = Now.state[s]
        \/ Now'.state[s] \in TRANSITIONS[Now.state[s]]
        \/ Now.state[s] \notin Terminal /\ Now'.state[s] = "DISPATCHING"
    BY WroteState
  <2>3. Now'.state[s] \in AtOrPast(acked[s].state)
    <3>1. acked[s].state \in States /\ Now.state[s] \in States
      BY <1>0
    <3> QED BY <2>1, <2>2, <3>1, ForwardOnly
  <2>4. ASSUME acked[s].state \in Terminal PROVE Now'.fact[s] = Now.fact[s]
    <3>1. Now.state[s] \in Terminal
      BY <2>1, <2>4 DEF AtOrPast, Terminal
    <3>2. TRANSITIONS[Now.state[s]] = {}
      BY <3>1 DEF TRANSITIONS, Terminal, States
    <3> QED BY <1>0, <3>2 DEF Wrote, Moves, Tears, Spoils
  <2> QED BY <1>1, <2>1, <2>3, <2>4
<1>2. CASE acked'[s] # acked[s]
  <2>1. s = l.sid /\ acked' = Told(l)
    BY <1>0, <1>2, ToldIsShown DEF Told
  <2>2. acked'[s] = [state |-> l.event, fact |-> l.fact]
    BY <1>0, <2>1 DEF Told
  <2>3. /\ Now'.state[s] = l.event /\ l.event \in States \ {"ABSENT"}
        /\ Moves(Now, Now', s, l.event, l.fact)
    BY <1>2, <2>1, ToldIsShown
  <2>4. Now'.state[s] \in AtOrPast(l.event)
    BY <2>3 DEF AtOrPast, States, Terminal
  <2>5. l.event \in Terminal => Now'.fact[s] = l.fact
    BY <1>0, <2>3 DEF Moves
  <2> QED BY <2>2, <2>4, <2>5
<1> QED BY <1>1, <1>2

LEMMA StepType ==
  ASSUME WalInv, Next, NEW l \in Line, Wrote(l)
  PROVE  TypeOK'
<1>1. /\ journal \in Seq(Line)
      /\ acked \in [Submissions -> [state : States, fact : Facts \cup {NoFact}]]
      /\ TypeOK
  BY DEF WalInv, TypeOK
<1>2. journal' \in Seq(Line)
  BY <1>1 DEF Wrote
<1>3. acked' \in [Submissions -> [state : States, fact : Facts \cup {NoFact}]]
  BY <1>1 DEF Wrote, Told, Line
<1>4. terminated' \in BOOLEAN /\ tears' \in 0..MaxTears
  BY <1>1, StepLine
<1> QED BY <1>2, <1>3, <1>4 DEF TypeOK, Wrote

LEMMA StepWalInv ==
  ASSUME WalInv, [Next]_vars
  PROVE  WalInv'
<1>0. TypeOK
  BY DEF WalInv
<1>1. CASE UNCHANGED vars
  BY <1>1 DEF vars, WalInv, TypeOK, ReservedOrTorn, AckedIsReserved, ReleaseIsWritten,
              ReleasedOnDisk, AcknowledgedSurvives, WritersNeverSpoil, Now
<1>2. CASE Next /\ UNCHANGED <<journal, acked>>
  <2>1. terminated' \in BOOLEAN /\ tears' \in 0..MaxTears
    BY <1>0, <1>2, StepLine
  <2>2. Now' = Now
    BY <1>2 DEF Now
  <2> QED BY <1>2, <2>1, <2>2
          DEF WalInv, TypeOK, ReservedOrTorn, AckedIsReserved, ReleaseIsWritten,
              ReleasedOnDisk, AcknowledgedSurvives, WritersNeverSpoil
<1>3. CASE Next /\ \E l \in Line : Wrote(l)
  BY <1>3, StepType, StepReserved, StepAckedReserved, StepReleased, StepAcknowledged,
     StepSpoil DEF WalInv
<1> QED BY <1>0, <1>1, <1>2, <1>3, StepWrote

\* The journal file keeps its invariant whatever is appended and torn.
THEOREM WalInvariant == Spec => []WalInv
<1>1. Init => WalInv
  BY InitWalInv
<1>2. WalInv /\ [Next]_vars => WalInv'
  BY StepWalInv
<1> QED BY <1>1, <1>2, PTL DEF Spec

\* The file always replays to a view of the declared shape: a torn line never
\* leaves a submission in a state the transition table does not know.
THEOREM WalTypes == Spec => []TypeOK
<1>1. WalInv => TypeOK
  BY DEF WalInv
<1> QED BY <1>1, WalInvariant, PTL

\* What hold, mark_dispatching, commit or release returned for is never lost
\* or undone by a later append, complete or torn.
THEOREM AcknowledgedSurvivesAlways == Spec => []AcknowledgedSurvives
<1>1. WalInv => AcknowledgedSurvives
  BY DEF WalInv
<1> QED BY <1>1, WalInvariant, PTL

\* risk_for counts a reservation from the moment hold returns until a
\* release line is on disk.
THEOREM RiskStaysCountedAlways == Spec => []RiskStaysCounted
<1>1. ASSUME WalInv PROVE RiskStaysCounted
  <2> SUFFICES ASSUME NEW s \in Submissions,
                      acked[s].state \in {"HELD", "DISPATCHING", "COMMITTED"}
               PROVE  s \in Counted(Now) \/ ReleasedOnDisk(s)
    BY DEF RiskStaysCounted
  <2>1. s \in Now.reserved
    BY <1>1 DEF WalInv, AckedIsReserved
  <2>2. Now.state[s] = "RELEASED" => ReleasedOnDisk(s)
    BY <1>1 DEF WalInv, ReleaseIsWritten
  <2> QED BY <2>1, <2>2 DEF Counted
<1> QED BY <1>1, WalInvariant, PTL

\* The only damage that bars the journal for good is a tear that lost its
\* lookup keys; no sequence of the writers' own calls replays as illegal.
THEOREM WritersNeverSpoilAlways == Spec => []WritersNeverSpoil
<1>1. WalInv => WritersNeverSpoil
  BY DEF WalInv
<1> QED BY <1>1, WalInvariant, PTL

-----------------------------------------------------------------------------
(* The journal implements the registry.                                    *)

LEMMA InitRefines == ASSUME Init PROVE Registry!Init
<1>1. Now = EmptyView
  BY ReplayNothing DEF Init, Now
<1>2. ActiveTorn(Now) = {}
  BY <1>1, EmptyIsView
<1> QED BY <1>1, <1>2 DEF Registry!Init, EmptyView

\* The registry's table is the journal's.
LEMMA SameTable ==
  /\ Registry!TRANSITIONS = TRANSITIONS
  /\ Registry!States = States
  /\ Registry!Terminal = Terminal
BY DEF Registry!TRANSITIONS, TRANSITIONS, Registry!States, States, Registry!Terminal, Terminal

\* Every line written is a step of the registry: an observation none at all, a
\* transition Step or Finish, a tear Doubt, a tear without keys Lose.
LEMMA WroteRefines ==
  ASSUME WalInv, NEW l \in Line, Wrote(l)
  PROVE  [Registry!Next]_(Registry!regVars)
<1> DEFINE s == l.sid
<1>0. /\ s \in Submissions /\ l.event \in Events
      /\ Now.state \in [Submissions -> States] /\ Now.torn \subseteq Submissions
      /\ Now.fact \in [Submissions -> Facts \cup {NoFact}]
      /\ Now.reserved \subseteq Submissions /\ Now.fatal \in BOOLEAN
  BY DEF Wrote, View, Line
<1>1. CASE Now' = Now
  BY <1>1 DEF Registry!regVars
<1>2. CASE /\ l.form = "whole" /\ l.event \in TRANSITIONS[Now.state[s]]
           /\ Moves(Now, Now', s, l.event, l.fact)
  <2>1. l.event \in States \ {"ABSENT"} /\ l.event # "OBSERVED"
    BY <1>0, <1>2 DEF TRANSITIONS, States, Terminal
  <2>2. Permits(Now, s, l.event)
    BY <2>1 DEF Wrote, Writable
  <2>3. Now.state[s] \notin Terminal
    BY <1>0, <1>2 DEF TRANSITIONS, States, Terminal
  <2>4. CASE l.event \notin Terminal
    <3>1. ~Now.fatal /\ ActiveTorn(Now) = {}
      BY <2>2, <2>4 DEF Permits, IntegrityOk
    <3>2. Now'.reserved = Now.reserved \cup {s}
      <4>1. CASE l.event = "HELD"
        BY <1>2, <4>1 DEF Moves
      <4>2. CASE l.event # "HELD"
        <5>1. Now.state[s] # "ABSENT"
          BY <1>0, <1>2, <4>2 DEF TRANSITIONS, States, Terminal
        <5>2. s \in Now.reserved
          BY <1>0, <3>1, <5>1 DEF WalInv, ReservedOrTorn
        <5> QED BY <1>2, <4>2, <5>2 DEF Moves
      <4> QED BY <4>1, <4>2
    <3>3. ActiveTorn(Now') = ActiveTorn(Now)
      <4>1. \A t \in Now.torn : t # s /\ Now.state[t] \in Terminal
        BY <2>3, <3>1 DEF ActiveTorn
      <4>2. \A t \in Now.torn : Now'.state[t] = Now.state[t]
        BY <1>0, <1>2, <4>1 DEF Moves
      <4>3. Now'.torn = Now.torn
        BY <1>2 DEF Moves
      <4> QED BY <4>1, <4>2, <4>3 DEF ActiveTorn
    <3>4. Registry!Step(s, l.event)
      BY <1>2, <2>4, <3>1, <3>2, <3>3, SameTable DEF Registry!Step, Moves
    <3> QED BY <1>0, <2>1, <3>4, SameTable DEF Registry!Next
  <2>5. CASE l.event \in Terminal
    <3>1. ~Now.fatal
      BY <2>2 DEF Permits, IntegrityOk
    <3>2. ActiveTorn(Now) = {} \/ ActiveTorn(Now) \cap Now.reserved = {s}
      BY <2>2 DEF Permits, IntegrityOk, Recoverable
    <3>3. l.fact \in Facts
      BY <2>5 DEF Wrote
    <3>4. ActiveTorn(Now') = ActiveTorn(Now) \ {s}
      <4>1. Now'.torn = Now.torn /\ Now'.state[s] \in Terminal
        BY <1>0, <1>2, <2>5 DEF Moves
      <4>2. \A t \in Now.torn \ {s} : Now'.state[t] = Now.state[t]
        BY <1>0, <1>2 DEF Moves
      <4> QED BY <4>1, <4>2 DEF ActiveTorn
    <3>5. Now'.reserved = Now.reserved
      BY <1>2, <2>5 DEF Moves, Terminal
    <3>6. Registry!Finish(s, l.event, l.fact)
      BY <1>2, <2>5, <3>1, <3>2, <3>4, <3>5, SameTable DEF Registry!Finish, Moves
    <3> QED BY <1>0, <2>5, <3>3, <3>6, SameTable DEF Registry!Next
  <2> QED BY <2>4, <2>5
<1>3. CASE Tears(Now, Now', s)
  <2>1. ActiveTorn(Now') = ActiveTorn(Now) \cup {s}
    <3>1. Now'.torn = Now.torn \cup {s} /\ Now'.state[s] = "DISPATCHING"
      BY <1>0, <1>3 DEF Tears
    <3>2. \A t \in Now.torn \ {s} : Now'.state[t] = Now.state[t]
      BY <1>0, <1>3 DEF Tears
    <3>3. "DISPATCHING" \notin Terminal /\ Now.state[s] \notin Terminal
      BY <1>3 DEF Terminal, Tears
    <3> QED BY <3>1, <3>2, <3>3 DEF ActiveTorn
  <2>2. Registry!Doubt(s)
    BY <1>3, <2>1, SameTable DEF Registry!Doubt, Tears
  <2> QED BY <1>0, <2>2 DEF Registry!Next
<1>4. CASE Spoils(Now, Now')
  <2>1. ActiveTorn(Now') = ActiveTorn(Now)
    BY <1>4 DEF ActiveTorn, Spoils
  <2>2. Registry!Lose
    BY <1>4, <2>1 DEF Registry!Lose, Spoils
  <2> QED BY <2>2 DEF Registry!Next
<1> QED BY <1>1, <1>2, <1>3, <1>4 DEF Wrote

LEMMA StepRefines ==
  ASSUME WalInv, [Next]_vars
  PROVE  [Registry!Next]_(Registry!regVars)
<1>0. TypeOK
  BY DEF WalInv
<1>1. CASE UNCHANGED journal
  <2>1. Now' = Now
    BY <1>1 DEF Now
  <2> QED BY <2>1 DEF Registry!regVars
<1>2. CASE \E l \in Line : Wrote(l)
  BY <1>2, WroteRefines
<1> QED BY <1>0, <1>1, <1>2, StepWrote DEF vars

\* The file of lines, replayed, is the registry: every append is a legal step
\* of some submission, a doubt about one, or damage that bars further steps.
THEOREM WalImplementsRegistry == Spec => ImplementsRegistry
<1>1. Init => Registry!Init
  BY InitRefines
<1>2. WalInv /\ [Next]_vars => [Registry!Next]_(Registry!regVars)
  BY StepRefines
<1> QED BY <1>1, <1>2, WalInvariant, PTL DEF Spec, ImplementsRegistry, Registry!Spec
=============================================================================
