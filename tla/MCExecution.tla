----------------------------- MODULE MCExecution -----------------------------
(* Small instances, for TLC, of the modules on the way of an order: the drift   *)
(* blocks of BrokerDemoRouter, the three of RiskLimits, the two of BrokerSide,  *)
(* PullbackTrade (a limit order of four units over a week of four ticks), and   *)
(* two that stand beside them.  The parts do not share state here: Init chooses *)
(* one, and only that one moves, so the state graph is the disjoint union of    *)
(* theirs.  The last two keep their variables in x1, ..., x4, in the order of   *)
(* their declarations.                                                          *)
EXTENDS BrokerDemoRouter, RiskLimits, BrokerSide, PullbackTrade

VARIABLES part, x1, x2, x3, x4

Ask(path, run, sym, setup, sound) == [path |-> path, run |-> run, sym |-> sym, setup |-> setup, sound |-> sound]
Requests == {Ask("conflict", "r1", "x", "a", TRUE), Ask("conflict", "r1", "y", "b", FALSE),
             Ask("risk", "r2", "y", "b", TRUE)}

ClosedBars == {[o |-> 2, h |-> 3, l |-> 2, c |-> 2], [o |-> 2, h |-> 3, l |-> 1, c |-> 3],
               [o |-> 3, h |-> 3, l |-> 1, c |-> 1], [o |-> 2, h |-> 2, l |-> 2, c |-> 2]}

-----------------------------------------------------------------------------
\* Prices on both sides of a grid of 3.
Planning == INSTANCE TradePlanning WITH
    Step <- 3, Entries <- {11, 13}, Levels <- {5, 7, 10, 14, 20, 31}, Pip <- 2,
    FxStop <- 3, Opens <- {4, 9, 11, 13, 21, 28}, None <- None, inp <- x1, setup <- x2,
    plan <- x3, trade <- x4

\* One run with a catch-up of two bars.
Oracle == INSTANCE RunReproduction WITH
    Bars <- ClosedBars, MaxBars <- 2, StartEquity <- 3, RiskShare <- 3, MinRR <- 3,
    ledger <- x1, run <- x2, rec <- x3, odd <- x4

-----------------------------------------------------------------------------
slots == <<x1, x2, x3, x4>>
beside == <<part, vars, limitsVars, sideVars, pullbackVars>>

ExecutionInit ==
    /\ Init /\ LimitsInit /\ SideInit /\ PullbackInit
    /\ \/ /\ part \in {"router", "loss", "reserve", "opposite", "sends", "reports", "pullback"}
          /\ x1 = "-" /\ x2 = "-" /\ x3 = "-" /\ x4 = "-"
       \/ part = "planning" /\ Planning!PlanningInit
       \/ part = "oracle" /\ Oracle!ReInit
    /\ part # "reserve" => ~HasOutcome(Legacy)
    /\ part # "sends" => \A i \in Ids : held[i] = "none"
    /\ part # "reports" => ~rich
    /\ part # "pullback" => time = 0

ExecutionNext ==
    \/ part = "router" /\ Next /\ UNCHANGED <<part, limitsVars, sideVars, pullbackVars, slots>>
    \/ part = "loss" /\ LossNext /\ UNCHANGED <<part, vars, oppositeVars, reserveVars, sideVars, pullbackVars, slots>>
    \/ part = "reserve" /\ ReserveNext /\ UNCHANGED <<part, vars, oppositeVars, lossVars, sideVars, pullbackVars, slots>>
    \/ part = "opposite" /\ OppositeNext /\ UNCHANGED <<part, vars, lossVars, reserveVars, sideVars, pullbackVars, slots>>
    \/ part = "sends" /\ SendsNext /\ UNCHANGED <<part, vars, limitsVars, alertVars, pullbackVars, slots>>
    \/ part = "reports" /\ BrokerAlertsNext /\ UNCHANGED <<part, vars, limitsVars, sendVars, pullbackVars, slots>>
    \/ part = "pullback" /\ PullbackNext /\ UNCHANGED <<part, vars, limitsVars, sideVars, slots>>
    \/ part = "planning" /\ Planning!PlanningNext /\ UNCHANGED beside
    \/ part = "oracle" /\ Oracle!ReNext /\ UNCHANGED beside

executionVars == <<beside, slots>>
ExecutionSpec == ExecutionInit /\ [][ExecutionNext]_executionVars

-----------------------------------------------------------------------------
\* A plan keeps its stop, target and obstacle on the right sides of its entry whatever the
\* grid rounds (TradePlanning), and the oracle reproduces the run of a plan exactly when
\* nothing it does not cover happened in it (RunReproduction).
PlansKept ==
    /\ part = "planning" => Planning!PlanningSound
    /\ part = "oracle" => Oracle!OracleExact
=============================================================================
