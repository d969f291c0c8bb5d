--------------------------------- MODULE Gates ---------------------------------
(***************************************************************************)
(* The entry gates (gates/checks.py), how they are run for a subject       *)
(* (gates/evaluation.py), what a red one means (gates/registry.py), the    *)
(* permit they are turned into (gates/safety_gate.py), and the policy      *)
(* facts they ask for (policy/loader.py).  Everything here is a function   *)
(* of its arguments: the facts of a cycle, a proposal, a permit.           *)
(***************************************************************************)
EXTENDS Integers, Sequences, SequencesExt

CONSTANTS Unknown,          \* a fact that could not be read (None)
          OrderShapes,      \* the declared wire shapes, in the order of the manifest
          ShapesOf,         \* engine -> ids of the shapes it may use
          Universe,         \* declared underlyings
          RequiredLevel, EquityFloor, MaxBarAge, MaxQuoteAge,
          MaxPositions, MaxPerUnderlying, PositionLossCap

ASSUME GatesAssumption ==
  /\ {RequiredLevel, EquityFloor, MaxBarAge, MaxQuoteAge} \subseteq Nat
  /\ {MaxPositions, MaxPerUnderlying, PositionLossCap} \subseteq Nat \ {0}
  /\ \A i, j \in DOMAIN OrderShapes : OrderShapes[i].id = OrderShapes[j].id => i = j

Known(x) == x # Unknown

-----------------------------------------------------------------------------
(* policy/loader.py.                                                       *)

\* Manifest.find_shape: the first shape with these wire attributes.
Matches(shape, w) == shape.class = w.class /\ shape.type = w.type /\ shape.tif = w.tif /\ shape.legs = w.legs
NoShape == [id |-> "none", asset |-> "none"]
FindShape(w) ==
  LET hits == SelectSeq(OrderShapes, LAMBDA shape : Matches(shape, w))
  IN IF hits = <<>> THEN NoShape ELSE Head(hits)

\* Manifest.find_shape_for_strategy
FindShapeForStrategy(engine, w) ==
  IF engine \in DOMAIN ShapesOf /\ FindShape(w).id \in ShapesOf[engine] THEN FindShape(w) ELSE NoShape

\* EntryWindow.phase_at, entry_window_for: an engine may open early.
PhaseAt(time, window) ==
  IF time < window.opens THEN "before" ELSE IF time >= window.closes THEN "after" ELSE "inside"
EntryWindowFor(engine, session, early) ==
  [opens |-> IF engine \in DOMAIN early THEN early[engine] ELSE session.opens, closes |-> session.closes]

-----------------------------------------------------------------------------
(* The gates a cycle must pass.  f: the facts of the cycle.                *)

CheckManifestIdentity(f) == f.manifest = "loaded"
CheckBrokerSession(f)    == f.status = "ACTIVE" /\ f.blocked # "yes"
CheckAccountIdentity(f)  == f.paper /\ f.declared # Unknown /\ f.account = f.declared
CheckOptionsLevel(f)     == Known(f.level) /\ f.level >= RequiredLevel
CheckEquityFloor(f)      == Known(f.equity) /\ f.equity >= EquityFloor
CheckMarketOpen(f)       == f.clock = "open"

\* With the market closed the feeds are silent by right.
Fresh(age, limit)        == Known(age) /\ age <= limit
CheckUnderlyingData(f)   == f.clock = "closed" \/ Fresh(f.barAge, MaxBarAge)
CheckOptionChainData(f)  == f.clock = "closed" \/ Fresh(f.quoteAge, MaxQuoteAge)

CheckPositionReconcile(f)  == Known(f.ledger) /\ f.ledger = f.broker
CheckNonOptionPositions(f) == Known(f.nonOption) /\ f.nonOption = 0
CheckDecisionLog(f)        == f.logWritable
NoneOf(count)              == Known(count) /\ count = 0
CheckUnresolvedDispatches(f)            == NoneOf(f.dispatches)
CheckUnresolvedStructureCloses(f)       == NoneOf(f.closes)
CheckUnresolvedEntryReconciliations(f)  == NoneOf(f.pendings)
CheckReleaseIntegrity(f)                == Known(f.head) /\ ~f.dirty

\* GateEvaluator.evaluate for a CycleSubject: the gates that accept it.
Preflight(f) ==
  [manifest_identity   |-> CheckManifestIdentity(f),
   broker_session      |-> CheckBrokerSession(f),
   account_identity    |-> CheckAccountIdentity(f),
   options_level       |-> CheckOptionsLevel(f),
   equity_floor        |-> CheckEquityFloor(f),
   market_open         |-> CheckMarketOpen(f),
   underlying_data     |-> CheckUnderlyingData(f),
   option_chain_data   |-> CheckOptionChainData(f),
   position_reconcile  |-> CheckPositionReconcile(f),
   non_option_positions |-> CheckNonOptionPositions(f),
   decision_log        |-> CheckDecisionLog(f),
   unresolved_dispatches |-> CheckUnresolvedDispatches(f),
   unresolved_structure_closes |-> CheckUnresolvedStructureCloses(f),
   unresolved_entry_reconciliations |-> CheckUnresolvedEntryReconciliations(f),
   release_integrity   |-> CheckReleaseIntegrity(f)]

-----------------------------------------------------------------------------
(* The gates a proposal must pass.  p: the proposal.                       *)

CheckCompetitionWindow(f)  == f.account # f.declared \/ f.begun
CheckEntryWindow(f)        == f.clock = "open" /\ f.phase = "inside"
CheckOrderShapeDeclared(p) == FindShapeForStrategy(p.engine, p.wire) # NoShape
CheckSymbolDeclared(p)     == p.underlying \in Universe
\* Slip: the cap is asked of the underlying only.
SlipPositionCaps(f)        == f.same < MaxPerUnderlying
CheckPositionCaps(f)       == f.broker < MaxPositions /\ f.same < MaxPerUnderlying
CheckPerTradeRisk(p)       == Known(p.loss) /\ p.loss > 0 /\ p.loss <= PositionLossCap
CheckBuyingPower(f, p)     == Known(f.power) /\ f.power >= p.loss

Pretrade(f, p) ==
  [competition_window   |-> CheckCompetitionWindow(f),
   entry_window         |-> CheckEntryWindow(f),
   order_shape_declared |-> CheckOrderShapeDeclared(p),
   symbol_declared      |-> CheckSymbolDeclared(p),
   position_caps        |-> CheckPositionCaps(f),
   per_trade_risk       |-> CheckPerTradeRisk(p),
   buying_power         |-> CheckBuyingPower(f, p)]

-----------------------------------------------------------------------------
(* gates/registry.py and gates/safety_gate.py.                             *)

\* Slip: a gate whose severity is not BLOCKING never stops an entry.
SlipAttention == {"release_integrity", "option_chain_data"}
Attention == {"release_integrity"}
SeverityOf(name) == IF name \in Attention THEN "ATTENTION" ELSE "BLOCKING"
Blockers(results) == {name \in DOMAIN results : ~results[name] /\ SeverityOf(name) = "BLOCKING"}

\* The permit's status and its list of red gates say the same: READY when the
\* list is empty.  The age of a permit is counted in cycles' intervals of 45 minutes.
MaxAge == 2
SchemaVersion == 1
NoPermit == [schema |-> 0, ready |-> FALSE, at |-> 0, head |-> 0, sha |-> 0]

WritePermit(results, head, sha, now) ==
  [schema |-> SchemaVersion, ready |-> Blockers(results) = {},
   at |-> now, head |-> head, sha |-> sha]

\* Slip: yesterday's permission is kept.
SlipAnyAge(permit, head, sha, now) ==
  permit.schema = SchemaVersion /\ permit.head = head /\ permit.sha = sha /\ permit.ready

\* evaluate: every path that is not an explicit yes is a no.
PermitAllows(permit, head, sha, now) ==
  /\ permit.schema = SchemaVersion
  /\ permit.head = head /\ permit.sha = sha
  /\ now - permit.at <= MaxAge
  /\ permit.ready

\* Executor._refuse_unless_authorized: asked again at the broker's door.
Authorized(f) == f.sandbox /\ f.declared # Unknown /\ f.account = f.declared /\ f.begun
=============================================================================
