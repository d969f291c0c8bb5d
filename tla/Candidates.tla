----------------------------- MODULE Candidates -----------------------------
(***************************************************************************)
(* From a market to candidate proposals, a selection and the time exits:   *)
(* strategy/engine.py, regime.py, agent/proposer.py and strategy/exits.py, *)
(* over the cycles of the trading days.                                    *)
(*                                                                         *)
(* A cycle observes a market, closes the held structures whose exit is due,*)
(* runs the four vectors, ranks what they propose, lets the proposer       *)
(* select, and the admitted part of the selection is held.  What admission *)
(* and the broker do in between is EntryDispatch's subject.                *)
(***************************************************************************)
EXTENDS Sizing, Structures, Sequences, SequencesExt

CONSTANTS
  Enabled,       \* the vectors switched on: trend, trend_single, catalyst, pead,
                 \* event_macro, gap_any_day, vol_income, breakout
  Markets,       \* what a cycle may observe
  Slots,         \* the cycles of the schedule, as a sequence of <<day, hhmm>>
  SureTime,      \* a cycle at or after this time of a day is never missed
  Cap,           \* [Budgets -> dollars]: the loss cap of one trade
  AtRiskCap,     \* the cap on the loss of the open book
  TakeProfit, StopLoss,  \* [Engines -> percent of the reference amount]
  MaxSelected,   \* agent.max_proposals_per_cycle
  FinalDate, FlattenAt, EarningsDate, NfpDate, StartDate,
  PnlMoves,      \* profits in percent of the reference amount
  Beyond,        \* a price above every strike
  Replies,       \* what the model may answer
  MaxHeld        \* bound: structures held at once

Budgets == {"trend_directional", "trend_income", "trend_single", "pre_event", "pead",
            "event_macro", "gap_addon", "vol_income"}

ASSUME ParametersAssumption ==
  /\ Cap \in [Budgets -> Nat] /\ AtRiskCap \in Nat /\ MaxSelected \in Nat \ {0}
  /\ {FinalDate, FlattenAt, EarningsDate, NfpDate, StartDate, SureTime, Beyond} \subseteq Nat
  /\ \A reply \in Replies : reply = <<"none">> \/ reply \in Seq(Int)

\* The cycles of the schedule follow each other in time, and the day of an event's
\* exit has a cycle that is never missed, unless the schedule ends with it.
ASSUME SlotsAssumption ==
  /\ Slots \in Seq(Nat \X Nat) /\ Slots # <<>>
  /\ \A i \in 1 .. Len(Slots) : \A j \in 1 .. i :
       Slots[j][1] <= Slots[i][1] /\ (Slots[j][1] = Slots[i][1] => Slots[j][2] <= Slots[i][2])
  /\ \A day \in {EarningsDate + 1, NfpDate} :
       (\E i \in 1 .. Len(Slots) : Slots[i][1] > day) =>
         \E i \in 1 .. Len(Slots) :
           Slots[i][1] = day /\ Slots[i][2] >= SureTime /\ Slots[i][2] >= 935

Contracts == [type : {"call", "put"}, strike : 1 .. Beyond - 1, expiry : Int, delta : Int, fair : Int]

\* A chain a feed can quote: out of the money, calls lie above puts.
Quotable(chain) ==
  /\ chain \in SUBSET Contracts /\ IsFiniteSet(chain)
  /\ \A c, p \in chain :
       /\ c.expiry = p.expiry /\ c.type = "call" /\ p.type = "put"
       /\ c.delta < 50 /\ p.delta < 50
       => p.strike <= c.strike

ASSUME MarketsAssumption ==
  \A m \in Markets :
    /\ m.score \in Int /\ m.gap \in Int
    /\ IsFiniteSet(m.signals) /\ \A s \in m.signals : s.score \in Int /\ s.gap \in Int
    /\ \A sym \in m.quoted : Quotable(m.chain[sym])

VARIABLES
  slot,      \* the cycle of the schedule that runs
  phase,     \* what it does next
  market,    \* the MarketState it read
  book,      \* the structures held
  cands,     \* its candidates, in the order found and later in rank
  chosen     \* the proposer's indices

vars == <<slot, phase, market, book, cands, chosen>>

Today == Slots[slot][1]
Clock == Slots[slot][2]

---------------------------------------------------------------------------
(* The regime *)

\* classify: SPY's score in hundredths and its RSI.
Mode(m) ==
  IF m.score > 35 /\ m.rsi >= 38 THEN "risk_on"
  ELSE IF m.score < -35 /\ m.rsi <= 62 THEN "risk_off"
  ELSE "chop"

Confidence(m) ==
  IF Mode(m) = "chop" THEN 50 ELSE 55 + (35 * Lesser(150, Gap(m.score, 0))) \div 150

LongAllowed(m) == Mode(m) = "risk_on" /\ Confidence(m) >= 55
ShortAllowed(m) == Mode(m) = "risk_off" /\ Confidence(m) >= 55

\* _breakout: SPY above the high of its prior sessions.
Breakout(m) == "breakout" \in Enabled /\ m.breakout

\* conviction, in percent: a sigmoid of the score scaled by the regime's strength,
\* as the steps of a table.
Conviction(sig, m) ==
  LET raw == (sig.score * (60 + (40 * Lesser(150, Gap(m.score, 0))) \div 150)) \div 100
  IN  IF raw < 0 THEN 5 ELSE IF raw < 58 THEN 70 ELSE IF raw < 80 THEN 85 ELSE 92

---------------------------------------------------------------------------
(* One engine's proposals.  m is the market; each yields a set of candidates, *)
(* empty where the code returns None.                                         *)

Chain(m, sym) == IF sym \in m.quoted THEN m.chain[sym] ELSE {}

\* The loss of the open groups, as it was when the cycle began: candidates of
\* one cycle are sized against the same book.
LossOf(groups) == SumFunctionOnSet([p \in groups |-> p.loss], groups)
OpenRisk == LossOf(book)

Held(engine) == {p \in book : p.engine = engine}

\* fixed_quantity and _resize; the score ranks, the label names the play.
Sized(props, engine, sym, budget, score, label, exit, m) ==
  {[engine |-> engine, symbol |-> sym, label |-> label, score |-> score,
    structure |-> p.structure, legs |-> p.legs, limit |-> p.limit, expiry |-> p.expiry,
    unit |-> p.loss, budget |-> budget, exit |-> exit,
    qty |-> FixedQuantity(p.loss, EngineLossCap(Cap[budget], m.halved), OpenRisk, AtRiskCap)] :
     p \in {q \in props :
              FixedQuantity(q.loss, EngineLossCap(Cap[budget], m.halved), OpenRisk, AtRiskCap) > 0}}

NoExit == <<0, 0>>

\* _one_trend: a credit vertical first, a debit vertical when there is none.
OneTrend(m, sig, dir, label) ==
  LET ch     == Chain(m, sig.symbol)
      credit == UNION {CreditVertical(ch, e, dir, 20, 5, 5) : e \in PickExpiry(ch, Today, 0, 2)}
      debit  == UNION {DebitVertical(ch, e, dir, 40, 8, 2) : e \in PickExpiry(ch, Today, 0, 2)}
  IN  IF credit # {}
      THEN Sized(credit, "trend_income", sig.symbol, "trend_income", sig.score, label, NoExit, m)
      ELSE Sized(debit, "trend_directional", sig.symbol, "trend_directional", sig.score,
                 label, NoExit, m)

\* The best n signals in the direction, past the threshold and the pullback filter.
Picks(m, dir, n) ==
  LET fit == {s \in m.signals : dir * s.score >= 55 /\ dir \in s.fresh}
  IN  {s \in fit : Cardinality({t \in fit : dir * t.score > dir * s.score}) < n}

SingleOf(m, sig) ==
  LET ch == Chain(m, sig.symbol)
  IN  UNION {Sized(SingleLong(ch, e, 1, 40, 10), "trend_single", sig.symbol, "trend_single",
                   Conviction(sig, m), "trend-single", NoExit, m) :
               e \in PickExpiry(ch, Today, 0, 2)}

\* The trend picks of the regime: longs, else shorts, else one breakout long.
TrendPicks(m) ==
  IF LongAllowed(m) THEN UNION {OneTrend(m, s, 1, "trend") : s \in Picks(m, 1, 3)}
  ELSE IF ShortAllowed(m) THEN UNION {OneTrend(m, s, -1, "trend") : s \in Picks(m, -1, 3)}
  ELSE IF Breakout(m) THEN UNION {OneTrend(m, s, 1, "trend-breakout") : s \in Picks(m, 1, 1)}
  ELSE {}

LongAuthorized(m) == LongAllowed(m) \/ Breakout(m)

\* Slip: the convexity layer does not ask for the regime (the code before v3.1.1).
SlipSinglePicks(m) ==
  IF "trend_single" \in Enabled /\ Held("trend_single") = {}
  THEN UNION {SingleOf(m, s) : s \in {t \in Picks(m, 1, 1) : Conviction(t, m) >= 85}}
  ELSE {}

\* The convexity layer: one single-leg long, where a long is authorized at all.
SinglePicks(m) ==
  IF "trend_single" \in Enabled /\ LongAuthorized(m) /\ Held("trend_single") = {}
  THEN UNION {SingleOf(m, s) : s \in {t \in Picks(m, 1, 1) : Conviction(t, m) >= 85}}
  ELSE {}

Trend(m) == IF "trend" \in Enabled THEN TrendPicks(m) \cup SinglePicks(m) ELSE {}

\* Slip: an expiry on the day of the report is accepted.
SlipEarnings(m) ==
  LET ch  == Chain(m, "LULU")
      exp == {e \in ExpiryAfterEvent(ch, EarningsDate - 1, 4) : e - Today \in 1 .. 3}
      one(e) == IF Straddle(ch, e, 50, 6) # {} THEN Straddle(ch, e, 50, 6)
                                              ELSE Strangle(ch, e, 50, 10)
  IN  IF Today = EarningsDate - 1 /\ Clock <= 1515
      THEN UNION {Sized(one(e), "catalyst", "LULU", "pre_event", 90, "catalyst-straddle",
                        <<EarningsDate + 1, 935>>, m) : e \in exp}
      ELSE {}

\* _earnings_straddle: the day before the report, on the first expiry after it.
Earnings(m) ==
  LET ch  == Chain(m, "LULU")
      exp == {e \in ExpiryAfterEvent(ch, EarningsDate, 4) : e - Today \in 1 .. 3}
      one(e) == IF Straddle(ch, e, 50, 6) # {} THEN Straddle(ch, e, 50, 6)
                                              ELSE Strangle(ch, e, 50, 10)
  IN  IF Today = EarningsDate - 1 /\ Clock <= 1515
      THEN UNION {Sized(one(e), "catalyst", "LULU", "pre_event", 90, "catalyst-straddle",
                        <<EarningsDate + 1, 935>>, m) : e \in exp}
      ELSE {}

\* _pead_vertical: the drift after last week's report, in the direction of the gap.
Pead(m) ==
  LET one(s) == LET ch == Chain(m, s.symbol)
                IN  UNION {Sized(DebitVertical(ch, e, s.gap, 45, 10, 2), "catalyst", s.symbol,
                                 "pead", 80, "catalyst-pead", NoExit, m) :
                             e \in PickExpiry(ch, Today, 1, 3)}
  IN  IF "pead" \in Enabled THEN UNION {one(s) : s \in {t \in m.signals : t.gap # 0}} ELSE {}

Catalyst(m) == IF "catalyst" \in Enabled THEN Earnings(m) \cup Pead(m) ELSE {}

NfpStrangle(m) ==
  IF Today = NfpDate - 1 /\ Clock \in 1005 .. 1515
  THEN Sized(Strangle(Chain(m, "SPY"), Today + 1, 42, 10), "event_macro", "SPY", "event_macro",
             70, "event-nfp-strangle", <<Today + 1, 935>>, m)
  ELSE {}

\* _nfp_gap_play: a 0-DTE single leg in the direction of SPY's gap, 09:30 to 09:50.
GapPlay(m) ==
  IF /\ Today = NfpDate \/ ("gap_any_day" \in Enabled /\ Today \in StartDate .. NfpDate)
     /\ Clock \in 930 .. 950
     /\ m.gap # 0
  THEN Sized(SingleLong(Chain(m, "SPY"), Today, m.gap, 42, 10), "event_macro", "SPY",
             "gap_addon", 65, "event-nfp-gap", NoExit, m)
  ELSE {}

Event(m) == IF "event_macro" \in Enabled THEN NfpStrangle(m) \cup GapPlay(m) ELSE {}

\* _vol: an SPY iron condor when the tape is range-bound and premium is rich.
Vol(m) ==
  LET ch == Chain(m, "SPY")
  IN  IF "vol_income" \in Enabled /\ Mode(m) = "chop" /\ m.rich
      THEN UNION {Sized(IronCondor(ch, e, 16, 4, 5), "vol_income", "SPY", "vol_income", 60,
                        "vol-condor", NoExit, m) : e \in PickExpiry(ch, Today, 0, 2)}
      ELSE {}

\* FinalDayRules.is_entry_frozen and allows_event_candidate.
Frozen == Today = FinalDate

\* What the frozen final date still permits.
Permitted(m) == {c \in Event(m) : c.label = "event-nfp-gap"}

Found(m) ==
  IF Frozen THEN Permitted(m) ELSE Trend(m) \cup Catalyst(m) \cup Event(m) \cup Vol(m)

\* The place of the i-th of s when s is sorted by score, highest first; equal
\* scores stay in the order they were found in.
Place(s, i) ==
  Cardinality({j \in DOMAIN s : s[j].score > s[i].score \/ (s[j].score = s[i].score /\ j <= i)})

\* run: ranked by score.
Ranked(m) ==
  LET s == SetToSeq(Found(m))
  IN  [n \in DOMAIN s |-> s[CHOOSE i \in DOMAIN s : Place(s, i) = n]]

---------------------------------------------------------------------------
(* The proposer *)

Least(n) == Lesser(MaxSelected, n)

\* The engine's own order: no key, no SDK, no usable answer, or --no-llm.
Fallback(n) == [i \in 1 .. Least(n) |-> i]

First(seq, n) == SubSeq(seq, 1, Lesser(n, Len(seq)))

\* Slip: one index past the last candidate is let through.
SlipNamed(window, n) ==
  {k \in DOMAIN window : window[k] \in 1 .. n + 1 /\ \A j \in 1 .. k - 1 : window[j] # window[k]}

\* Where a candidate is named for the first time.
Named(window, n) ==
  {k \in DOMAIN window : window[k] \in 1 .. n /\ \A j \in 1 .. k - 1 : window[j] # window[k]}

\* _validated: of the first 2 * max entries, those that name a candidate, each
\* once and at most max; the fallback when none is left.
Validated(reply, n) ==
  LET window == First(reply, 2 * MaxSelected)
      named  == Named(window, n)
      kept   == [k \in 1 .. Cardinality(named) |->
                   window[CHOOSE j \in named : Cardinality({i \in named : i <= j}) = k]]
  IN  IF kept = <<>> THEN Fallback(n) ELSE First(kept, MaxSelected)

NoAnswer == <<"none">>

Selection(reply, n) == IF n = 0 THEN <<>> ELSE IF reply = NoAnswer THEN Fallback(n)
                       ELSE Validated(reply, n)

---------------------------------------------------------------------------
(* The exits *)

\* Slip: the event exit is asked for only on the expiry date after the time stop.
SlipDecide(p, pnl) ==
  IF pnl >= TakeProfit[p.engine] THEN "take-profit"
  ELSE IF pnl <= -StopLoss[p.engine] THEN "stop-loss"
  ELSE IF p.expiry = Today THEN (IF Clock >= 1515 THEN "zero-DTE time-stop" ELSE "none")
  ELSE IF p.exit[1] = Today /\ Clock >= p.exit[2] THEN "post-event time-stop"
  ELSE IF Today = FinalDate /\ Clock >= FlattenAt THEN "final-day flatten"
  ELSE "none"

\* decide_exit: the reason to close, with the profit in percent of the reference.
DecideExit(p, pnl) ==
  IF pnl >= TakeProfit[p.engine] THEN "take-profit"
  ELSE IF pnl <= -StopLoss[p.engine] THEN "stop-loss"
  ELSE IF p.expiry = Today /\ Clock >= 1515 THEN "zero-DTE time-stop"
  ELSE IF p.exit[1] = Today /\ Clock >= p.exit[2] THEN "post-event time-stop"
  ELSE IF Today = FinalDate /\ Clock >= FlattenAt THEN "final-day flatten"
  ELSE "none"

---------------------------------------------------------------------------
(* The cycles *)

Init ==
  /\ slot = 1 /\ phase = "exits"
  /\ market \in Markets
  /\ book = {} /\ cands = <<>> /\ chosen = <<>>

Skippable(i) == Slots[i][2] < SureTime

\* The next cycle of the schedule that runs.  What expired before its day is gone.
Observe ==
  /\ phase = "idle"
  /\ \E next \in slot + 1 .. Len(Slots) :
       /\ \A i \in slot + 1 .. next - 1 : Skippable(i)
       /\ slot' = next
       /\ book' = {p \in book : p.expiry >= Slots[next][1]}
  /\ market' \in Markets
  /\ phase' = "exits"
  /\ cands' = <<>> /\ chosen' = <<>>

\* _manage_exits: a structure without a price is passed over; a close that is
\* sent is taken to fill.
ManageExits ==
  /\ phase = "exits"
  /\ \E priced \in SUBSET book : \E pnl \in [priced -> PnlMoves] :
       book' = {p \in priced : DecideExit(p, pnl[p]) = "none"}
                 \cup {[p EXCEPT !.missed = TRUE] : p \in book \ priced}
  /\ phase' = "engines"
  /\ UNCHANGED <<slot, market, cands, chosen>>

Generate ==
  /\ phase = "engines"
  /\ cands' = Ranked(market)
  /\ phase' = "proposer"
  /\ UNCHANGED <<slot, market, book, chosen>>

Select ==
  /\ phase = "proposer"
  /\ \E reply \in Replies : chosen' = Selection(reply, Len(cands))
  /\ phase' = "admit"
  /\ UNCHANGED <<slot, market, book, cands>>

\* EntryWindow, with the event vector's own opening time.
EntryOpen(c) == Clock >= (IF c.engine = "event_macro" THEN 930 ELSE 1000) /\ Clock < 1530

Opened(c) ==
  [engine |-> c.engine, label |-> c.label, structure |-> c.structure, symbol |-> c.symbol,
   expiry |-> c.expiry, exit |-> c.exit, loss |-> c.unit * c.qty, day |-> Today, slot |-> slot,
   missed |-> FALSE]

\* Some of the chosen are admitted and fill, in rank, while the at-risk cap holds.
Admit ==
  /\ phase = "admit"
  /\ \E taken \in SUBSET {cands[chosen[k]] : k \in DOMAIN chosen} :
       LET new == {Opened(c) : c \in taken}
       IN  /\ \A c \in taken : EntryOpen(c)
           /\ Cardinality(book \cup new) <= MaxHeld
           /\ OpenRisk + LossOf(new) <= AtRiskCap
           /\ book' = book \cup new
  /\ phase' = "idle"
  /\ UNCHANGED <<slot, market, cands, chosen>>

Next == Observe \/ ManageExits \/ Generate \/ Select \/ Admit

Spec == Init /\ [][Next]_vars

---------------------------------------------------------------------------
(* Properties *)

\* Strikes and a spot on either side of them decide the worst case of a piecewise
\* linear payoff.
Far == {0, Beyond}

Wing(c, type) == LET ks == {l.strike : l \in {j \in c.legs : j.type = type}} IN Max(ks) - Min(ks)

ExtraWing(c) ==
  IF c.structure = "iron_condor" THEN Greater(Wing(c, "call"), Wing(c, "put")) - 5 ELSE 0

\* The loss a candidate declares, which every cap counts, is the worst its legs
\* can do at expiry, whatever strikes the chain had.  A condor found on a sparse
\* chain may lose more, by what its wings are wider than the five points its loss
\* is computed from (structures.py:262).
LossIsDeclared ==
  \A i \in DOMAIN cands :
    WorstLoss(cands[i], Far) <= cands[i].unit + 100 * ExtraWing(cands[i])

\* A candidate has the largest quantity that keeps it inside its engine's cap and
\* the book inside the at-risk cap: none is trimmed or rounded past either.
SizedToTheCap ==
  phase \in {"proposer", "admit"} =>
    \A i \in DOMAIN cands :
      LET c       == cands[i]
          fits(q) == /\ q * c.unit <= EngineLossCap(Cap[c.budget], market.halved)
                     /\ q * c.unit + OpenRisk <= AtRiskCap
      IN  fits(c.qty) /\ ~fits(c.qty + 1)

Direction(c) ==
  LET up == Payoff(c, Beyond)
      down == Payoff(c, 0)
  IN  IF up > down THEN 1 ELSE IF up < down THEN -1 ELSE 0

Directional == {"trend", "trend-breakout", "trend-single"}

\* A trend candidate gains from a rise in risk_on, from a fall in risk_off, and
\* in chop there is none unless a breakout authorizes it, which gains from a rise.
\* The one exception is what engine.py:160 lets through: in risk_off, a breakout
\* authorizes the convexity layer's long.  Direction is read from the payoff of
\* the legs.
WithTheTape ==
  \A i \in DOMAIN cands :
    LET c == cands[i]
    IN  c.label \in Directional =>
          CASE Mode(market) = "risk_on" -> Direction(c) = 1
            [] Mode(market) = "chop" -> Breakout(market) /\ Direction(c) = 1
            [] OTHER -> \/ Direction(c) = -1
                        \/ c.label = "trend-single" /\ Breakout(market) /\ Direction(c) = 1

\* docs/STRATEGY.md:52-53 and 57, engine.py:211: a breakout overrides a chop regime;
\* nothing long is proposed by the trend vector while the regime is risk_off.
NoLongInRiskOff ==
  \A i \in DOMAIN cands :
    Mode(market) = "risk_off" /\ cands[i].label \in Directional => Direction(cands[i]) = -1

\* The selection that is traded names candidates, each once and at most the limit,
\* and is never empty when there is one, whatever the model answered.
SelectionIsSound ==
  /\ Len(chosen) <= MaxSelected
  /\ \A k \in DOMAIN chosen : /\ chosen[k] \in DOMAIN cands
                              /\ \A j \in 1 .. k - 1 : chosen[j] # chosen[k]
  /\ phase = "admit" /\ cands # <<>> => chosen # <<>>

\* An event structure is bought before its event and outlives the event's exit;
\* what is opened on the frozen final date is a single long that dies with it.
EventIsOutlived ==
  \A p \in book :
    /\ p.label = "catalyst-straddle" =>
         p.day < EarningsDate /\ p.expiry > EarningsDate /\ p.expiry >= p.exit[1]
    /\ p.label = "event-nfp-strangle" => p.day < NfpDate /\ p.expiry >= p.exit[1]
    /\ p.day = FinalDate => p.structure = "single_long" /\ p.expiry = FinalDate

Overdue(p) ==
  \/ p.expiry = Today /\ Clock >= 1515
  \/ p.exit # NoExit /\ (Today > p.exit[1] \/ (Today = p.exit[1] /\ Clock >= p.exit[2]))
  \/ Today = FinalDate /\ Clock >= FlattenAt

\* Nothing is held past its time: once the exits of a cycle were asked for, a
\* structure whose expiry stop, event exit or final flatten has come was closed,
\* unless a cycle found no price for it.
OverdueIsUnpriced ==
  phase = "engines" => \A p \in book : Overdue(p) => p.missed
=============================================================================
