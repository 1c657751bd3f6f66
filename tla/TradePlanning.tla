---------------------------- MODULE TradePlanning ----------------------------
(* From scout reports to a trade plan and its simulated outcome:                *)
(* agents/setup_validator.py (the frozen V1 decision and its explanation),      *)
(* agents/target_planner.py and trade_planner.py (the planning policies),       *)
(* core/rr_contract.py and core/fx_policy.py (grid rounding, exact R:R, the FX  *)
(* stop clamp), floor/orchestrator.py run, and the fill and exit walk of        *)
(* replay/engine.py.                                                            *)
(*                                                                              *)
(* Prices are natural numbers finer than the instrument grid, whose step is     *)
(* Step; ratios are compared by cross multiplication, as the exact Decimals     *)
(* are.  A report is reduced to what a check looks at.                          *)
EXTENDS Integers, Sequences, FiniteSets, FiniteSetsExt

CONSTANTS
    Step,        \* price_increment
    Entries,     \* 5m closes to plan from
    Levels,      \* prices of invalidations and swings
    Pip,         \* pip_size of the FX symbol
    FxStop,      \* FX_SL_MIN_PIPS = FX_SL_MAX_PIPS
    Opens,       \* prices of the bars after the slot
    None         \* an absent value

VARIABLES
    inp,       \* what the checks of the validator look at
    setup,     \* the assessment with its explanation
    plan,      \* the plan and what it was made from
    trade      \* the simulated trade

planVars == <<inp, setup, plan, trade>>

Long == "LONG"
Short == "SHORT"

---------------------------------------------------------------------------
(* core/rr_contract.py                                                          *)

Floor(p) == (p \div Step) * Step
Ceiling(p) == ((p + Step - 1) \div Step) * Step

(* Defect: prices go to the nearest grid point.                                 *)
NormalizeUp_Nearest(p) == ((p + Step \div 2) \div Step) * Step

NormalizeUp(p) == IF Ceiling(p) > 0 THEN Ceiling(p) ELSE None
NormalizeDown(p) == IF Floor(p) > 0 THEN Floor(p) ELSE None

(* Ordered levels, with their risk and reward.                                  *)
Geometry(side, entry, stop, target) ==
    IF target # None /\ target > 0
       /\ IF side = Long THEN stop < entry /\ entry < target ELSE target < entry /\ entry < stop
    THEN {[risk |-> IF side = Long THEN entry - stop ELSE stop - entry,
           reward |-> IF side = Long THEN target - entry ELSE entry - target]}
    ELSE {}

(* Planned floor and ceiling of each policy, and the floor at the fill, in      *)
(* halves of R; 0 is no ceiling.                                                *)
Limits == [V1 |-> <<6, 0>>, V2_D |-> <<4, 10>>, V2_F3 |-> <<6, 6>>, FX |-> <<4, 4>>]
FillLimits == [V1 |-> <<6, 0>>, V2_D |-> <<4, 10>>, V2_F3 |-> <<5, 0>>, FX |-> <<3, 0>>]

ClassifyRR(g, limits) ==
    CASE 2 * g.reward < limits[1] * g.risk -> "RR_BELOW_FLOOR"
    []   limits[2] # 0 /\ 2 * g.reward > limits[2] * g.risk -> "OUT_OF_POLICY_EXTENDED_TARGET"
    []   OTHER -> "WITHIN_POLICY"

(* core/fx_policy.py clamp_stop with equal bounds.                              *)
ClampStop(side, entry, stop) ==
    LET bound == FxStop * Pip
    IN  IF side = Long THEN entry - bound ELSE entry + bound

---------------------------------------------------------------------------
(* The validator: the checks in the order V1 makes them; it stops at the first  *)
(* that does not pass.                                                          *)
Cases ==
    [present : BOOLEAN, lineage : BOOLEAN,
     macro : {"absent", "bad_lineage", "future", "ERROR", "high_active", "calm"},
     scouts : {"available", "unavailable", "no_evidence"},
     aligned : {Long, Short, "mixed"}, confirmed : {"bos", "retracement", "no"},
     liquidity : BOOLEAN, level : {None} \cup Levels]

Checks == <<"timeframes_present", "scout_lineage", "macro_lineage", "macro_timestamp",
            "scouts_available", "macro_available", "no_high_impact_active_window",
            "scout_evidence_present", "timeframe_alignment", "structure_confirmation",
            "liquidity_confirmation", "invalidation_level">>

MacroChecks == {"macro_lineage", "macro_timestamp", "macro_available", "no_high_impact_active_window"}

(* Decision of V1: the reason it stopped at, the status and the side it says.   *)
EvaluarSetupV1(i) ==
    LET say(status, side, reason) == [status |-> status, side |-> side, reason |-> reason]
    IN  CASE ~i.present -> say("NO_SETUP", None, "missing_timeframe")
        []   i.present /\ ~i.lineage -> say("NO_SETUP", None, "scout_lineage_invalid")
        []   OTHER ->
        CASE i.macro = "bad_lineage" -> say("NO_SETUP", None, "macro_lineage_invalid")
        []   i.macro = "future" -> say("NO_SETUP", None, "macro_future_timestamp")
        []   i.macro \notin {"bad_lineage", "future"} /\ i.scouts = "unavailable" ->
                 say("NO_SETUP", None, "scout_unavailable")
        []   OTHER ->
        CASE i.macro = "ERROR" -> say("NO_SETUP", None, "macro_error")
        []   i.macro = "high_active" -> say("WATCH", None, "high_impact_active_window")
        []   i.macro \in {"absent", "calm"} /\ i.scouts = "no_evidence" ->
                 say("NO_SETUP", None, "missing_evidence")
        []   OTHER ->
        CASE i.aligned = "mixed" -> say("WATCH", None, "timeframe_incompatibility")
        []   i.aligned # "mixed" /\ i.confirmed = "no" ->
                 say("WATCH", i.aligned, "structure_confirmation_missing")
        []   i.aligned # "mixed" /\ i.confirmed # "no" /\ ~i.liquidity ->
                 say("WATCH", i.aligned, "liquidity_confirmation_missing")
        []   i.aligned # "mixed" /\ i.confirmed # "no" /\ i.liquidity /\ i.level = None ->
                 say("NO_SETUP", None, "invalidation_missing")
        []   OTHER -> say("VALID_SETUP", i.aligned, "all_checks_passed")

(* DECIDING_CHECK: reason -> the check and how it came out.                     *)
Deciding ==
    [missing_timeframe |-> <<"timeframes_present", "MISSING">>,
     scout_lineage_invalid |-> <<"scout_lineage", "FAILED">>,
     macro_lineage_invalid |-> <<"macro_lineage", "FAILED">>,
     macro_future_timestamp |-> <<"macro_timestamp", "FAILED">>,
     scout_unavailable |-> <<"scouts_available", "MISSING">>,
     macro_error |-> <<"macro_available", "MISSING">>,
     high_impact_active_window |-> <<"no_high_impact_active_window", "FAILED">>,
     missing_evidence |-> <<"scout_evidence_present", "MISSING">>,
     timeframe_incompatibility |-> <<"timeframe_alignment", "FAILED">>,
     structure_confirmation_missing |-> <<"structure_confirmation", "FAILED">>,
     liquidity_confirmation_missing |-> <<"liquidity_confirmation", "FAILED">>,
     invalidation_missing |-> <<"invalidation_level", "MISSING">>]

(* Symbol, side, invalidation and the 15m anchor name a valid setup.            *)
SetupIdentity(a, i) ==
    IF a.status = "VALID_SETUP" THEN <<a.side, i.level, i.confirmed>> ELSE None

(* Defect: the macro checks are listed after the scout checks.                  *)
Explain_Order(a, i) ==
    LET order == <<"timeframes_present", "scout_lineage", "scouts_available", "macro_lineage", "macro_timestamp",
                   "macro_available", "no_high_impact_active_window",
                   "scout_evidence_present", "timeframe_alignment", "structure_confirmation",
                   "liquidity_confirmation", "invalidation_level">>
        deciding == IF a.status = "VALID_SETUP" THEN Len(order) + 1
                    ELSE CHOOSE k \in DOMAIN order : order[k] = Deciding[a.reason][1]
        group(k) == IF i.macro = "absent" /\ order[k] \in MacroChecks THEN "NOT_APPLICABLE"
                    ELSE IF k < deciding THEN "PASSED"
                    ELSE IF k = deciding THEN Deciding[a.reason][2] ELSE "NOT_EVALUATED"
    IN  [groups |-> [c \in MacroChecks \cup {order[k] : k \in DOMAIN order} |->
                        group(CHOOSE k \in DOMAIN order : order[k] = c)],
         setupId |-> SetupIdentity(a, i)]

(* The explanation, derived from the check V1 stopped at.                       *)
Explain(a, i) ==
    LET deciding == IF a.status = "VALID_SETUP" THEN Len(Checks) + 1
                    ELSE CHOOSE k \in DOMAIN Checks : Checks[k] = Deciding[a.reason][1]
        group(k) == IF i.macro = "absent" /\ Checks[k] \in MacroChecks THEN "NOT_APPLICABLE"
                    ELSE IF k < deciding THEN "PASSED"
                    ELSE IF k = deciding THEN Deciding[a.reason][2] ELSE "NOT_EVALUATED"
    IN  [groups |-> [c \in {Checks[k] : k \in DOMAIN Checks} |->
                        group(CHOOSE k \in DOMAIN Checks : Checks[k] = c)],
         setupId |-> SetupIdentity(a, i)]

(* _bar_ref: a reference is valid for an aligned bar closed by as_of.           *)
RefState(bar) ==
    CASE bar = "closed" -> "VALID"
    []   bar = "missing" -> "UNAVAILABLE"
    []   bar \in {"misaligned", "unclosed"} -> "INVALID"

---------------------------------------------------------------------------
(* The planners.                                                                *)

Conservative(side, entry, stop) ==
    IF side = Long THEN [entry |-> NormalizeUp(entry), stop |-> NormalizeDown(stop)]
    ELSE [entry |-> NormalizeDown(entry), stop |-> NormalizeUp(stop)]

Protective(side, g) ==
    /\ g.entry # None /\ g.stop # None
    /\ IF side = Long THEN g.stop < g.entry ELSE g.stop > g.entry

NoPlan(status) == [status |-> status]

(* The levels policy D may aim at: confirmed swings of a referenced timeframe   *)
(* that, rounded against the trade, still lie beyond the entry.                 *)
Candidates(side, entry, evidence) ==
    {t \in {[tf |-> e.tf, raw |-> e.price,
             price |-> IF side = Long THEN NormalizeDown(e.price) ELSE NormalizeUp(e.price)] :
                e \in {x \in evidence : RefState(x.bar) = "VALID" /\ ~x.future}} :
        t.price # None /\ IF side = Long THEN t.price > entry ELSE t.price < entry}

Distance(a, b) == IF a > b THEN a - b ELSE b - a

(* Defect: the first obstacle within the policy, not the first obstacle.        *)
PlanPolicyD_Prettier(side, rawEntry, rawStop, evidence) ==
    LET g == Conservative(side, rawEntry, rawStop)
        good == {c \in Candidates(side, g.entry, evidence) :
                    \E s \in Geometry(side, g.entry, g.stop, c.price) : ClassifyRR(s, Limits.V2_D) = "WITHIN_POLICY"}
    IN  IF ~Protective(side, g) THEN NoPlan("INVALID_GEOMETRY")
        ELSE IF good = {} THEN NoPlan("NO_VALID_TARGET")
        ELSE LET t == CHOOSE c \in good : \A d \in good : Distance(c.price, g.entry) <= Distance(d.price, g.entry)
             IN  [status |-> "PLAN_READY", entry |-> g.entry, stop |-> g.stop, target |-> t.price, rawTarget |-> t.raw]

(* Policy D: stop first, then the first eligible obstacle, then its ratio.      *)
PlanPolicyD(side, rawEntry, rawStop, evidence) ==
    LET g == Conservative(side, rawEntry, rawStop)
        trustworthy == \E e \in evidence : RefState(e.bar) = "VALID"
        eligible == Candidates(side, g.entry, evidence)
        first == CHOOSE c \in eligible : \A d \in eligible : Distance(c.price, g.entry) <= Distance(d.price, g.entry)
        shapes == Geometry(side, g.entry, g.stop, first.price)
        outcome == ClassifyRR(CHOOSE s \in shapes : TRUE, Limits.V2_D)
    IN  IF ~Protective(side, g) THEN NoPlan("INVALID_GEOMETRY")
        ELSE IF ~trustworthy THEN NoPlan("INSUFFICIENT_TARGET_EVIDENCE")
        ELSE IF eligible = {} THEN NoPlan("NO_VALID_TARGET")
        ELSE IF shapes = {} THEN NoPlan("INVALID_GEOMETRY")
        ELSE IF outcome # "WITHIN_POLICY" THEN NoPlan(outcome)
        ELSE [status |-> "PLAN_READY", entry |-> g.entry, stop |-> g.stop, target |-> first.price,
              rawTarget |-> first.raw]

(* The fixed multiples (3R, and 2R of the clamped stop for FX): the target is   *)
(* on the grid because the risk is.                                             *)
PlanFixedRR(policy, side, rawEntry, rawStop) ==
    LET g == Conservative(side, rawEntry, rawStop)
        clamped == ClampStop(side, g.entry, g.stop)
        stop == IF policy # "FX" THEN g.stop
                ELSE IF clamped <= 0 THEN None
                ELSE IF side = Long THEN NormalizeDown(clamped) ELSE NormalizeUp(clamped)
        settled == [entry |-> g.entry, stop |-> stop]
        multiple == Limits[policy][1] \div 2
        target == IF side = Long THEN g.entry + multiple * (g.entry - stop)
                  ELSE g.entry - multiple * (stop - g.entry)
        shapes == Geometry(side, g.entry, stop, target)
    IN  IF ~Protective(side, g) \/ ~Protective(side, settled) THEN NoPlan("INVALID_GEOMETRY")
        ELSE IF target <= 0 \/ target % Step # 0 \/ shapes = {} THEN NoPlan("INVALID_GEOMETRY")
        ELSE [status |-> "PLAN_READY", entry |-> g.entry, stop |-> stop, target |-> target, rawTarget |-> target]

(* V1: no grid, always 3R.                                                      *)
CrearTradePlan(side, entry, stop) ==
    LET target == IF side = Long THEN entry + 3 * (entry - stop) ELSE entry - 3 * (stop - entry)
    IN  IF IF side = Long THEN stop < entry ELSE stop > entry
        THEN [status |-> "PLAN_READY", entry |-> entry, stop |-> stop, target |-> target, rawTarget |-> target]
        ELSE NoPlan("PLAN_UNAVAILABLE")

---------------------------------------------------------------------------
(* The fill and the exit walk of the replay.                                    *)

FillRejected(policy, side, price, stop, target) ==
    LET shapes == Geometry(side, price, stop, target)
    IN  shapes = {} \/ \E s \in shapes : ClassifyRR(s, FillLimits[policy]) # "WITHIN_POLICY"

(* Defect: a bar that reaches both levels counts as a win.                      *)
ExitOn_TargetFirst(side, b, stop, target) ==
    LET gapStop   == IF side = Long THEN b.open <= stop ELSE b.open >= stop
        gapTarget == IF side = Long THEN b.open >= target ELSE b.open <= target
        stopHit   == IF side = Long THEN b.low <= stop ELSE b.high >= stop
        targetHit == IF side = Long THEN b.high >= target ELSE b.low <= target
    IN  CASE gapStop -> {[outcome |-> "STOP", price |-> b.open]}
        []   ~gapStop /\ gapTarget -> {[outcome |-> "TARGET", price |-> b.open]}
        []   ~gapStop /\ ~gapTarget /\ targetHit -> {[outcome |-> "TARGET", price |-> target]}
        []   ~gapStop /\ ~gapTarget /\ ~targetHit /\ stopHit -> {[outcome |-> "STOP", price |-> stop]}
        []   OTHER -> {}

(* How a bar ends the trade: a gap beyond either level at the open, else the    *)
(* stop before the target.                                                      *)
ExitOn(side, b, stop, target) ==
    LET gapStop   == IF side = Long THEN b.open <= stop ELSE b.open >= stop
        gapTarget == IF side = Long THEN b.open >= target ELSE b.open <= target
        stopHit   == IF side = Long THEN b.low <= stop ELSE b.high >= stop
        targetHit == IF side = Long THEN b.high >= target ELSE b.low <= target
    IN  CASE gapStop -> {[outcome |-> "STOP", price |-> b.open]}
        []   ~gapStop /\ gapTarget -> {[outcome |-> "TARGET", price |-> b.open]}
        []   ~gapStop /\ ~gapTarget /\ stopHit -> {[outcome |-> "STOP", price |-> stop]}
        []   ~gapStop /\ ~gapTarget /\ ~stopHit /\ targetHit -> {[outcome |-> "TARGET", price |-> target]}
        []   OTHER -> {}

Bars == {b \in [open : Opens, high : Opens, low : Opens] : b.low <= b.open /\ b.open <= b.high}

---------------------------------------------------------------------------
PlanningInit ==
    /\ inp = None /\ setup = None /\ plan = None /\ trade = None

(* The scouts have reported and the validator decides.                          *)
Validate(i) ==
    /\ inp' = i
    /\ LET a == EvaluarSetupV1(i)
       IN  setup' = [status |-> a.status, side |-> a.side, explanation |-> Explain(a, i)]
    /\ UNCHANGED <<plan, trade>>

(* The planner chosen by policy and symbol; with no plan the floor ends with    *)
(* PLAN_UNAVAILABLE.  Each timeframe contributes one swing at most.             *)
SwingAt(tf, x) == IF x = None THEN {} ELSE {[tf |-> tf, price |-> x.price, bar |-> x.bar, future |-> x.future]}

Evidence ==
    LET swing == {None} \cup {x \in [price : Levels, bar : {"closed", "unclosed"}, future : BOOLEAN] :
                                x.bar = "unclosed" => ~x.future}
    IN  {SwingAt("15m", x) \cup SwingAt("1h", y) : x, y \in swing}

MakePlan ==
    /\ setup # None /\ setup.status = "VALID_SETUP" /\ plan = None
    /\ \E policy \in DOMAIN Limits, rawEntry \in Entries :
       \E evidence \in (IF policy = "V2_D" THEN Evidence ELSE {{}}) :
          plan' = [policy |-> policy, rawEntry |-> rawEntry, rawStop |-> inp.level, evidence |-> evidence,
                   made |-> CASE policy = "V1" -> CrearTradePlan(setup.side, rawEntry, inp.level)
                            []   policy = "V2_D" -> PlanPolicyD(setup.side, rawEntry, inp.level, evidence)
                            []   policy \in {"V2_F3", "FX"} -> PlanFixedRR(policy, setup.side, rawEntry, inp.level)]
    /\ UNCHANGED <<inp, setup, trade>>

(* The first bar after the slot fills at its open, or its gate refuses.         *)
Fill ==
    /\ plan # None /\ plan.made.status = "PLAN_READY" /\ trade = None
    /\ \E price \in Opens :
          trade' = IF FillRejected(plan.policy, setup.side, price, plan.made.stop, plan.made.target)
                   THEN [fill |-> "FILL_REJECTED"]
                   ELSE [fill |-> "FILLED", price |-> price, outcome |-> "OPEN"]
    /\ UNCHANGED <<inp, setup, plan>>

(* A later bar; the one that ends the trade is kept with the outcome.           *)
WalkBar ==
    /\ trade # None /\ trade.fill = "FILLED" /\ trade.outcome = "OPEN"
    /\ \E b \in Bars : \E x \in ExitOn(setup.side, b, plan.made.stop, plan.made.target) :
          trade' = [fill |-> "FILLED", price |-> trade.price, outcome |-> x.outcome, exit |-> x.price, bar |-> b]
    /\ UNCHANGED <<inp, setup, plan>>

PlanningNext == (setup = None /\ \E i \in Cases : Validate(i)) \/ MakePlan \/ Fill \/ WalkBar

PlanningSpec == PlanningInit /\ [][PlanningNext]_planVars
---------------------------------------------------------------------------
(* The explanation tells the truth about checks it did not recompute: a check   *)
(* listed as passed holds of the reports, one listed as failed or missing does  *)
(* not, and a setup is valid exactly when every applicable check holds          *)
(* (setup_validator.py explain, which only knows the reason V1 stopped at).     *)
CheckHolds(i) ==
    [timeframes_present |-> i.present, scout_lineage |-> i.lineage,
     macro_lineage |-> i.macro # "bad_lineage", macro_timestamp |-> i.macro # "future",
     scouts_available |-> i.scouts # "unavailable", macro_available |-> i.macro # "ERROR",
     no_high_impact_active_window |-> i.macro # "high_active",
     scout_evidence_present |-> i.scouts # "no_evidence", timeframe_alignment |-> i.aligned # "mixed",
     structure_confirmation |-> i.confirmed # "no", liquidity_confirmation |-> i.liquidity,
     invalidation_level |-> i.level # None]

ExplanationIsTrue ==
    setup # None =>
        LET says == setup.explanation.groups
            holds == CheckHolds(inp)
        IN  /\ \A c \in DOMAIN says : says[c] = "PASSED" => holds[c]
            /\ \A c \in DOMAIN says : says[c] \in {"FAILED", "MISSING"} => ~holds[c]
            /\ setup.status = "VALID_SETUP" <=> \A c \in DOMAIN holds : holds[c]

(* Rounding never manufactures a trade: a plan's levels are ordered, its grid   *)
(* stop is no nearer than the structural one unless FX fixes it, its ratio is   *)
(* within the policy, and under policy D the ratio of the unrounded prices is   *)
(* at least the policy's floor and no trusted level at least one step beyond    *)
(* the entry lies before the target (target_planner.py:3-17).                   *)
PlanIsHonest ==
    plan # None /\ plan.made.status = "PLAN_READY" =>
        LET m == plan.made
            away(x, y) == IF setup.side = Long THEN y - x ELSE x - y
        IN  /\ away(m.stop, m.entry) > 0 /\ away(m.entry, m.target) > 0
            /\ plan.policy # "FX" => away(m.stop, plan.rawStop) >= 0
            /\ 2 * away(m.entry, m.target) >= Limits[plan.policy][1] * away(m.stop, m.entry)
            /\ plan.policy = "V2_D" =>
                  /\ away(plan.rawEntry, m.rawTarget) >= 2 * away(plan.rawStop, plan.rawEntry)
                  /\ \A e \in plan.evidence :
                        e.bar = "closed" /\ ~e.future /\ away(m.entry, e.price) >= Step
                            => away(m.target, e.price) >= 0

(* A simulated win is worth at least the fill floor of its policy and needs a   *)
(* bar that did not also reach the stop first; a loss costs at least the risk   *)
(* taken at the fill (replay/engine.py simulate).                               *)
OutcomeIsHonest ==
    trade # None /\ trade.fill = "FILLED" /\ trade.outcome # "OPEN" =>
        LET m == plan.made
            gain == IF setup.side = Long THEN trade.exit - trade.price ELSE trade.price - trade.exit
            risk == IF setup.side = Long THEN trade.price - m.stop ELSE m.stop - trade.price
            stopTouched == IF setup.side = Long THEN trade.bar.low <= m.stop ELSE trade.bar.high >= m.stop
        IN  /\ trade.outcome = "TARGET" => 2 * gain >= FillLimits[plan.policy][1] * risk
            /\ trade.outcome = "TARGET" => ~stopTouched \/ trade.bar.open = trade.exit
            /\ trade.outcome = "STOP" => gain <= -risk

(* The floor's plans can be trusted from the reports to the outcome.            *)
PlanningSound == ExplanationIsTrue /\ PlanIsHonest /\ OutcomeIsHonest
=============================================================================
