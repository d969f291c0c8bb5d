------------------------- MODULE MCPositionLifecycle -------------------------
(* A vertical spread and a single call, that share a contract.             *)
EXTENDS PositionLifecycle, TLC

CONSTANTS vertical, single

SharedLegs == [g \in Groups |-> IF g = vertical THEN "low" :> "buy" @@ "high" :> "sell"
                                ELSE "low" :> "buy"]
SizeOne  == [g \in Groups |-> 1]
SizeTwo  == [g \in Groups |-> 2]
OneOfTwo == [g \in Groups |-> IF g = vertical THEN 2 ELSE 1]

\* A structure with a standing reason to close is closed, or quarantined for
\* a person to look at; it is never merely forgotten.
ClosedOrQuarantined ==
  \A g \in Due : (ledger[g].stage = "open")
                   ~> (ledger[g].stage = "closed" \/ ledger[g].quarantined)

\* Every close order a structure waits for is resolved, whatever it filled.
\* Only a contract that another open structure also holds keeps a part-filled
\* close from being proved, and then the structure is left to a person.
Shares(g) == \E h \in Open(ledger) \ {g} : DOMAIN Legs[g] \cap DOMAIN Legs[h] # {}
CloseIsResolved ==
  \A g \in Groups : (ledger[g].close # 0)
                       ~> (ledger[g].close = 0 \/ (ledger[g].quarantined /\ Shares(g)))

\* README.md: everything is flattened before the deadline.
EverythingIsFlattened ==
  \A g \in Due : (ledger[g].stage = "open") ~> (ledger[g].stage = "closed")
=============================================================================
