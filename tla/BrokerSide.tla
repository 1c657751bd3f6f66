------------------------------ MODULE BrokerSide ------------------------------
(***************************************************************************)
(* The two ways out of the trader's process: what its adapter sends to the *)
(* broker (BrokerSends) and what its alerts tell the owner (BrokerAlerts). *)
(* They keep nothing in common; their steps interleave.                    *)
(***************************************************************************)
EXTENDS BrokerSends, BrokerAlerts

sideVars == <<sendVars, alertVars>>
SideInit == SendsInit /\ BrokerAlertsInit
SideNext ==
    \/ SendsNext /\ UNCHANGED alertVars
    \/ BrokerAlertsNext /\ UNCHANGED sendVars
SideSpec == SideInit /\ [][SideNext]_sideVars

\* Once the trader is stopped at most the attempt that had passed its guard still leaves, a
\* refusal the adapter calls definite is true, and no report to the owner is swallowed by
\* another trade's or handed over twice.
BrokerTold == StopIsHeard /\ DefiniteIsTrue /\ ReportedOnce
=============================================================================
