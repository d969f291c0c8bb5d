--------------------------- MODULE JournalViewProofs ---------------------------
(* What one line does to the replayed view, for every set of submissions.  *)
EXTENDS JournalView, TLAPS

\* An empty journal replays to a view with nothing in it.
LEMMA EmptyIsView ==
  /\ EmptyView \in View
  /\ Unresolved(EmptyView) = {}
  /\ ActiveTorn(EmptyView) = {}
BY DEF EmptyView, View, States, Unresolved, ActiveTorn

\* A torn line that still shows its keys moves at most its own submission,
\* and only to DISPATCHING; it gives nothing back.
LEMMA TornLine ==
  ASSUME NEW v \in View, NEW s \in Submissions
  PROVE  LET w == ApplyTorn(v, s) IN
         /\ w \in View
         /\ w.reserved = v.reserved
         /\ w.fatal = v.fatal
         /\ \A t \in Submissions \ {s} : w.state[t] = v.state[t]
         /\ w.state[s] = IF v.state[s] \in Terminal THEN v.state[s] ELSE "DISPATCHING"
         /\ ActiveTorn(w) = ActiveTorn(v) \cup (IF v.state[s] \in Terminal THEN {} ELSE {s})
<1> DEFINE w == ApplyTorn(v, s)
           after == IF v.state[s] \in Terminal THEN v.state[s] ELSE "DISPATCHING"
<1>1. w = [state    |-> [v.state EXCEPT ![s] = after],
           reserved |-> v.reserved, fact |-> v.fact,
           torn     |-> v.torn \cup {s}, fatal |-> v.fatal]
  <2>1. w = [v EXCEPT !.state[s] = after, !.torn = @ \cup {s}]
    BY DEF ApplyTorn
  <2> HIDE DEF after
  <2> QED BY <2>1 DEF View
<1>2. /\ v.state \in [Submissions -> States]
      /\ v.torn \subseteq Submissions
  BY DEF View
<1>3. w \in View
  BY <1>1, <1>2 DEF View, States, Terminal
<1>4. /\ \A t \in Submissions \ {s} : w.state[t] = v.state[t]
      /\ w.state[s] = IF v.state[s] \in Terminal THEN v.state[s] ELSE "DISPATCHING"
  BY <1>1, <1>2
<1>5. ActiveTorn(w) = ActiveTorn(v) \cup (IF v.state[s] \in Terminal THEN {} ELSE {s})
  <2>1. w.torn = v.torn \cup {s}
    BY <1>1
  <2>2. "DISPATCHING" \notin Terminal
    BY DEF Terminal
  <2> QED BY <1>2, <1>4, <2>1, <2>2 DEF ActiveTorn
<1> QED BY <1>1, <1>3, <1>4, <1>5

\* A tear without keys leaves every submission as it was.
LEMMA SpoiledView ==
  ASSUME NEW v \in View
  PROVE  /\ Spoil(v) \in View
         /\ Spoil(v).state = v.state
         /\ Spoil(v).reserved = v.reserved
         /\ Spoil(v).torn = v.torn
BY DEF Spoil, View

\* A complete line for a permitted transition moves its submission there,
\* marks nothing torn and, when it is HELD, makes the reservation known.
LEMMA WholeLine ==
  ASSUME NEW v \in View, NEW s \in Submissions, NEW f \in Facts \cup {NoFact},
         NEW target \in States, target \in TRANSITIONS[v.state[s]],
         NEW w, w = Apply(v, LineOf(target, s, f))
  PROVE  /\ w \in View
         /\ w.state[s] = target
         /\ \A t \in Submissions \ {s} : w.state[t] = v.state[t]
         /\ v.reserved \subseteq w.reserved
         /\ target = "HELD" => w.reserved = v.reserved \cup {s}
         /\ target # "HELD" => w.reserved = v.reserved
         /\ w.torn = v.torn
         /\ w.fatal = v.fatal
<1> DEFINE l == LineOf(target, s, f)
<1>1. v.state \in [Submissions -> States] /\ v.fact \in [Submissions -> Facts \cup {NoFact}]
  BY DEF View
<1>2. target \in States \ {"ABSENT"}
  BY <1>1 DEF TRANSITIONS, States
<1>3. w = ApplyWhole(v, l)
  BY DEF Apply, LineOf
<1>4. l.event = target /\ l.sid = s /\ l.fact = f
  BY DEF LineOf
<1>5. target # "OBSERVED"
  BY <1>2 DEF States
<1>6. w = [v EXCEPT !.state[s] = target,
                    !.reserved = IF target = "HELD" THEN @ \cup {s} ELSE @,
                    !.fact[s]  = IF target \in Terminal THEN f ELSE @]
  BY <1>3, <1>4, <1>5 DEF ApplyWhole
<1>7. w = [state    |-> [v.state EXCEPT ![s] = target],
           reserved |-> IF target = "HELD" THEN v.reserved \cup {s} ELSE v.reserved,
           fact     |-> [v.fact EXCEPT ![s] = IF target \in Terminal THEN f ELSE @],
           torn     |-> v.torn, fatal |-> v.fatal]
  BY <1>6 DEF View
<1>8. w \in View
  BY <1>1, <1>2, <1>7 DEF View
<1> QED BY <1>1, <1>7, <1>8
=============================================================================
