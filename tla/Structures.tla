----------------------------- MODULE Structures -----------------------------
(***************************************************************************)
(* strategy/structures.py: the structures the engines build from a chain.  *)
(*                                                                         *)
(* A contract is [type, strike, expiry, delta, fair]: the delta's magnitude*)
(* in percent and the fair value in cents a share, which is dollars a      *)
(* contract.  A builder yields the set of proposals it returns: at most    *)
(* one, and the empty set where the code returns None.                     *)
(***************************************************************************)
EXTENDS Integers, FiniteSetsExt

Gap(a, b) == IF a >= b THEN a - b ELSE b - a

Listed(chain, expiry, type) == {c \in chain : c.expiry = expiry /\ c.type = type}

\* _pick: the closest delta within the tolerance; the first of a tie.
Pick(chain, expiry, type, target, tol) ==
  LET near == {c \in Listed(chain, expiry, type) : Gap(c.delta, target) <= tol}
  IN  IF near = {} THEN {}
      ELSE {CHOOSE c \in near : \A d \in near : Gap(c.delta, target) <= Gap(d.delta, target)}

\* _shift: the n-th strike above or below.
Shift(chain, base, n, up) ==
  LET between(c) == {d \in Listed(chain, base.expiry, base.type) :
                       IF up THEN base.strike < d.strike /\ d.strike <= c.strike
                             ELSE c.strike <= d.strike /\ d.strike < base.strike}
  IN  {c \in Listed(chain, base.expiry, base.type) : Cardinality(between(c)) = n /\ c \in between(c)}

\* _shift_pts: the nearest strike at least pts away.
ShiftPts(chain, base, pts, up) ==
  LET far == {c \in Listed(chain, base.expiry, base.type) :
                IF up THEN c.strike >= base.strike + pts ELSE c.strike <= base.strike - pts}
  IN  {c \in far : \A d \in far : Gap(c.strike, base.strike) <= Gap(d.strike, base.strike)}

Bought(c) == [type |-> c.type, strike |-> c.strike, side |-> 1]
Sold(c) == [type |-> c.type, strike |-> c.strike, side |-> -1]

Proposed(structure, legs, limit, loss, expiry) ==
  [structure |-> structure, legs |-> legs, limit |-> limit, loss |-> loss, expiry |-> expiry]

Debit(structure, legs, debit, floor, expiry) ==
  IF debit <= floor THEN {} ELSE {Proposed(structure, legs, debit, debit, expiry)}

SingleLong(chain, expiry, dir, target, tol) ==
  UNION {Debit("single_long", {Bought(c)}, c.fair, 1, expiry) :
           c \in Pick(chain, expiry, IF dir > 0 THEN "call" ELSE "put", target, tol)}

DebitVertical(chain, expiry, dir, target, tol, strikes) ==
  UNION {UNION {Debit("debit_vertical", {Bought(c), Sold(d)}, c.fair - d.fair, 1, expiry) :
                  d \in Shift(chain, c, strikes, dir > 0)} :
           c \in Pick(chain, expiry, IF dir > 0 THEN "call" ELSE "put", target, tol)}

\* Slip: the credit is declared as the loss.
SlipVertical(chain, expiry, dir, target, tol, pts) ==
  UNION {{Proposed("credit_vertical", {Sold(c), Bought(d)}, d.fair - c.fair,
                   c.fair - d.fair, expiry) :
            d \in {e \in ShiftPts(chain, c, pts, dir <= 0) :
                     c.fair - e.fair > 2 * Gap(c.strike, e.strike)}} :
           c \in Pick(chain, expiry, IF dir > 0 THEN "put" ELSE "call", target, tol)}

\* Refused when the credit is 2% of the width or less.
CreditVertical(chain, expiry, dir, target, tol, pts) ==
  UNION {{Proposed("credit_vertical", {Sold(c), Bought(d)}, d.fair - c.fair,
                   100 * Gap(c.strike, d.strike) - (c.fair - d.fair), expiry) :
            d \in {e \in ShiftPts(chain, c, pts, dir <= 0) :
                     c.fair - e.fair > 2 * Gap(c.strike, e.strike)}} :
           c \in Pick(chain, expiry, IF dir > 0 THEN "put" ELSE "call", target, tol)}

\* Both legs of the strike the call's delta chose.
Straddle(chain, expiry, target, tol) ==
  UNION {UNION {Debit("straddle", {Bought(c), Bought(p)}, c.fair + p.fair, 2, expiry) :
                  p \in {q \in Listed(chain, expiry, "put") : q.strike = c.strike}} :
           c \in Pick(chain, expiry, "call", target, tol)}

Strangle(chain, expiry, target, tol) ==
  UNION {UNION {Debit("strangle", {Bought(c), Bought(p)}, c.fair + p.fair, 2, expiry) :
                  p \in Pick(chain, expiry, "put", target, tol)} :
           c \in Pick(chain, expiry, "call", target, tol)}

\* The width is the one asked for, not that of the wings found.
IronCondor(chain, expiry, target, tol, pts) ==
  LET credit(w) == (w.sc.fair + w.sp.fair) - (w.lc.fair + w.lp.fair)
      wings == UNION {UNION {[sc : {c}, sp : {p}, lc : ShiftPts(chain, c, pts, TRUE),
                              lp : ShiftPts(chain, p, pts, FALSE)] :
                               p \in Pick(chain, expiry, "put", target, tol)} :
                        c \in Pick(chain, expiry, "call", target, tol)}
  IN  {Proposed("iron_condor", {Sold(w.sc), Bought(w.lc), Sold(w.sp), Bought(w.lp)},
                -credit(w), 100 * pts - credit(w), expiry) :
         w \in {v \in wings : credit(v) > 15 * pts}}

\* pick_expiry: the nearest listed expiry in the range.
PickExpiry(chain, today, min, max) ==
  LET near == {c.expiry : c \in {d \in chain : d.expiry - today \in min .. max}}
  IN  {e \in near : \A f \in near : e <= f}

\* _expiry_after_event: the first expiry strictly after the event.
ExpiryAfterEvent(chain, event, days) ==
  LET after == {c.expiry : c \in {d \in chain : d.expiry - event \in 1 .. days}}
  IN  {e \in after : \A f \in after : e <= f}

---------------------------------------------------------------------------
\* What a structure pays at expiry, and what it can lose: the reference the
\* declared loss is compared with.

LegValue(l, spot) ==
  LET inside == IF l.type = "call" THEN spot - l.strike ELSE l.strike - spot
  IN  IF inside > 0 THEN 100 * inside * l.side ELSE 0

Payoff(p, spot) == SumFunctionOnSet([l \in p.legs |-> LegValue(l, spot)], p.legs)

Profit(p, spot) == Payoff(p, spot) - p.limit

\* A piecewise linear payoff is worst at a strike or at an end.
Ends(p) == {l.strike : l \in p.legs}

WorstLoss(p, spots) == Max({-Profit(p, s) : s \in spots \cup Ends(p)})
=============================================================================
