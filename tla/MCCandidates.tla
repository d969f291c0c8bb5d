---------------------------- MODULE MCCandidates ----------------------------
(***************************************************************************)
(* Two trading days before the day of the jobs report, which is the final  *)
(* one; LULU reports on day 2.  A chain's strikes are five points apart or *)
(* three, so that a wing may be wider than asked for, and the coarse chain *)
(* may lack the outer strikes a credit vertical needs.                     *)
(***************************************************************************)
EXTENDS Candidates

\* Delta and value by the distance out of the money, in strikes.
MCDelta == <<82, 65, 50, 41, 28, 18, 8, 4>>
MCFair == <<700, 480, 300, 180, 100, 60, 20, 10>>

Contract(type, n, step, e) ==
  [type |-> type, strike |-> IF type = "call" THEN 100 + n * step ELSE 100 - n * step,
   expiry |-> e, delta |-> MCDelta[n + 3], fair |-> MCFair[n + 3]]

MCChain(step, outer, expiries) ==
  {Contract(t, n, step, e) : t \in {"call", "put"}, n \in -2 .. outer, e \in expiries}

Sig(sym, score, fresh, gap) == [symbol |-> sym, score |-> score, fresh |-> fresh, gap |-> gap]

Rising == {Sig("AMD", 82, {1}, 0), Sig("MU", 63, {1, -1}, 1)}
Falling == {Sig("AMD", -82, {-1}, 0), Sig("MU", -63, {1, -1}, -1)}

MCShapes ==
  {[step |-> 5, outer |-> 4, gap |-> 0, halved |-> FALSE, quoted |-> {"SPY", "AMD", "MU", "LULU"}],
   [step |-> 3, outer |-> 5, gap |-> 1, halved |-> TRUE, quoted |-> {"SPY", "AMD", "LULU"}],
   [step |-> 5, outer |-> 3, gap |-> -1, halved |-> FALSE, quoted |-> {"SPY", "MU", "LULU"}]}

MCMarkets ==
  {[score |-> t[1], rsi |-> t[2], breakout |-> t[3], signals |-> g, gap |-> h.gap, rich |-> TRUE,
    halved |-> h.halved, quoted |-> h.quoted,
    chain |-> [SPY |-> MCChain(h.step, h.outer, {1, 2, 3}), AMD |-> MCChain(h.step, h.outer, {3}),
               MU |-> MCChain(h.step, h.outer, {2, 3}), LULU |-> MCChain(h.step, h.outer, {2, 3})]] :
     t \in {<<100, 50, FALSE>>, <<-200, 40, FALSE>>, <<-200, 40, TRUE>>, <<0, 50, FALSE>>,
           <<0, 50, TRUE>>},
     g \in {Rising, Falling, {}}, h \in MCShapes}

MCSlots == <<<<1, 940>>, <<1, 1100>>, <<1, 1530>>, <<2, 1100>>, <<2, 1530>>, <<3, 940>>, <<3, 1045>>>>

MCCap == [trend_directional |-> 300, trend_income |-> 1000, trend_single |-> 400,
          pre_event |-> 1300, pead |-> 400, event_macro |-> 800, gap_addon |-> 400,
          vol_income |-> 900]

MCEngines == {"trend_directional", "trend_income", "trend_single", "catalyst", "event_macro",
              "vol_income"}
MCTakeProfit == [e \in MCEngines |-> 60]
MCStopLoss == [e \in MCEngines |-> IF e \in {"trend_income", "vol_income"} THEN 200 ELSE 50]

MCReplies == {NoAnswer, <<2, 1>>, <<2, 2, 1>>, <<0, 9, 9, 9, 1>>}
=============================================================================
