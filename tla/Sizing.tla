------------------------------- MODULE Sizing -------------------------------
(***************************************************************************)
(* strategy/sizing.py: how many contracts of a candidate the caps allow.   *)
(* Amounts are whole dollars per contract; a quantity of 0 is a refusal.   *)
(***************************************************************************)
EXTENDS Integers

Lesser(a, b) == IF a <= b THEN a ELSE b

Greater(a, b) == IF a <= b THEN b ELSE a

\* Manifest.engine_loss_cap: a killed day halves the next day's caps.
EngineLossCap(cap, halved) == IF halved THEN cap \div 2 ELSE cap

\* Slip: the loss of the open book is left out of the headroom.
SlipHeadroom(m, open, atRisk) == atRisk \div m

\* Contracts the portfolio at-risk cap still has room for.
Headroom(m, open, atRisk) == (atRisk - open) \div m

\* fixed_quantity: m is the loss of one contract, open the book's loss so far.
FixedQuantity(m, cap, open, atRisk) ==
  LET q   == Greater(1, cap \div m)
      fit == Headroom(m, open, atRisk)
  IN  IF m <= 0 \/ m > cap THEN 0
      ELSE IF m * q + open <= atRisk THEN q
      ELSE IF fit < 1 THEN 0
      ELSE Lesser(q, fit)
=============================================================================
