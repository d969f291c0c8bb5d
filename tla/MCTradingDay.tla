------------------------------ MODULE MCTradingDay -----------------------------
(* Singles, of which the engine allows one, and two-leg spreads; and a proposal *)
(* of no declared shape.  In the second instance only the kill switch moves. *)
EXTENDS TradingDay

Shape(id, asset, class, legs) ==
  [id |-> id, asset |-> asset, class |-> class, type |-> "limit", tif |-> "day", legs |-> legs]
ManifestShapes == <<Shape("single", "us_option", "simple", 1), Shape("two_leg", "us_option", "mleg", 2),
                    Shape("residual", "us_equity", "simple", 1)>>
StrategyShapes == [trend |-> {"two_leg"}, event |-> {"single", "two_leg"}]
TwoKinds == {"single", "spread"}
KindLegs == [single |-> 1, spread |-> 2]
KindLimit == [single |-> 1, spread |-> 9]

Wire(class, legs) == [class |-> class, type |-> "limit", tif |-> "day", legs |-> legs]
Single == [kind |-> "single", engine |-> "event", wire |-> Wire("simple", 1), underlying |-> "U", loss |-> 1]
Spread == [kind |-> "spread", engine |-> "trend", wire |-> Wire("mleg", 2), underlying |-> "U", loss |-> 1]
Flawed == [Single EXCEPT !.engine = "trend"]
SomeProposals == {Single, Spread, Flawed}
OneSpread == {Spread}

GoodFacts ==
  [manifest |-> "loaded", status |-> "ACTIVE", blocked |-> "no", paper |-> TRUE, sandbox |-> TRUE,
   declared |-> "A", account |-> "A", begun |-> TRUE, level |-> 3, equity |-> 0, clock |-> "open",
   phase |-> "inside", barAge |-> 0, quoteAge |-> 0, ledger |-> 0, broker |-> 0, same |-> 0,
   nonOption |-> 0, logWritable |-> TRUE, dispatches |-> 0, closes |-> 0, pendings |-> 0,
   head |-> 1, dirty |-> FALSE, power |-> 9]
Wrong == {<<"manifest", "no_shapes">>, <<"status", "other">>, <<"blocked", "yes">>, <<"blocked", "unknown">>,
          <<"account", "B">>, <<"level", Unknown>>, <<"equity", Unknown>>,
          <<"clock", "closed">>, <<"phase", "before">>, <<"barAge", Unknown>>, <<"quoteAge", 9>>,
          <<"ledger", 1>>, <<"nonOption", Unknown>>, <<"logWritable", FALSE>>, <<"dispatches", Unknown>>,
          <<"closes", 1>>, <<"dirty", TRUE>>, <<"sandbox", FALSE>>}
OnlyClosed == {<<"clock", "closed">>}
=============================================================================
