------------------------------ MODULE RiskLimits ------------------------------
(***************************************************************************)
(* The limits an order passes on its way: the demo router's daily loss and *)
(* drawdown halts (DailyLossLimit), the risk reserved on the paper state   *)
(* (RiskReservation) and the reversal of a paper position (OppositePolicy).*)
(* Each reads and writes rows of its own; their steps interleave.          *)
(***************************************************************************)
EXTENDS OppositePolicy, DailyLossLimit, RiskReservation

limitsVars == <<oppositeVars, lossVars, reserveVars>>
LimitsInit == OppositeInit /\ LossInit /\ ReserveInit
LimitsNext ==
    \/ OppositeNext /\ UNCHANGED <<lossVars, reserveVars>>
    \/ LossNext /\ UNCHANGED <<oppositeVars, reserveVars>>
    \/ ReserveNext /\ UNCHANGED <<oppositeVars, lossVars>>
LimitsSpec == LimitsInit /\ [][LimitsNext]_limitsVars

\* The reference of the day, the latched halt, the risk reserved for orders that are not
\* filled yet and the flat account an abandoned opposite order leaves: no interleaving of
\* entries, midnights, restarts and lost calls puts more at risk than the limits allow.
RiskLimitsKept ==
    /\ ReferenceKept /\ HaltHolds
    /\ RiskWithinLimit /\ OneOutcomePerRun
    /\ AbandonedStaysFlat
=============================================================================
