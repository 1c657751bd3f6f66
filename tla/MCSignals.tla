------------------------------ MODULE MCSignals ------------------------------
(* Small instances, for TLC, of the two modules whose steps must be served in   *)
(* the end: the halt gate and the alert pipeline, which is here twice.  As in   *)
(* MCExecution the parts share no state and Init chooses the one that moves.    *)
(* AlertPipeline itself is one summary between two workers that share the       *)
(* ledger; the second one keeps its variables in y1, y2, ..., in the order of   *)
(* its declarations.                                                            *)
EXTENDS HaltGate, AlertPipeline

VARIABLES part, y1, y2, y3, y4, y5, y6, y7, y8, y9, y10

\* Two rows through a queue of one; one fault.
Queue == INSTANCE AlertPipeline WITH
    Event <- {"e1", "d1"}, Summary <- {"d1"}, Worker <- {"w1"}, Own <- "w1",
    MaxQueue <- 1, MaxTries <- 2, MaxClaims <- 2, MaxFaults <- 1, journal <- y1,
    captured <- y2, delivery <- y3, posted <- y4, runner <- y5, queue <- y6, saved <- y7,
    ledger <- y8, worker <- y9, faults <- y10

queueVars == <<y1, y2, y3, y4, y5, y6, y7, y8, y9, y10>>
signalVars == <<haltVars, part, alertVars, queueVars>>

SignalsInit ==
    /\ HaltInit /\ AlertInit /\ Queue!AlertInit
    /\ part \in {"halt", "rivals", "queue"}

InHalt(A) == part = "halt" /\ A /\ UNCHANGED <<part, alertVars, queueVars>>
InRivals(A) == part = "rivals" /\ A /\ UNCHANGED <<part, haltVars, queueVars>>
InQueue(A) == part = "queue" /\ A /\ UNCHANGED <<part, haltVars, alertVars>>

SignalsNext == InHalt(HaltNext) \/ InRivals(AlertNext) \/ InQueue(Queue!AlertNext)

\* The fairness of HaltSpec and of AlertSpec.
SignalsFairness ==
    /\ WF_signalVars(InHalt(MainStep))
    /\ WF_signalVars(InRivals(RunnerStep)) /\ WF_signalVars(InRivals(TakeQueued))
    /\ \A e \in Event : WF_signalVars(InRivals(GrowOld(e)))
    /\ \A w \in Worker : WF_signalVars(InRivals(WorkerStep(w)))
    /\ WF_signalVars(InQueue(Queue!RunnerStep)) /\ WF_signalVars(InQueue(Queue!TakeQueued))
    /\ \A e \in {"e1", "d1"} : WF_signalVars(InQueue(Queue!GrowOld(e)))
    /\ WF_signalVars(InQueue(Queue!WorkerStep("w1")))
SignalsSpec == SignalsInit /\ [][SignalsNext]_signalVars /\ SignalsFairness

-----------------------------------------------------------------------------
\* No start-up section writes after T_h, and a stop request ends the process (HaltGate).
HaltObeyed == StartupBeforeHalt /\ HaltServed

\* A daily summary that was written is attempted, or known to be ambiguous, in the end, and
\* an alert whose snapshot was saved is delivered or refused (AlertPipeline).
AlertsServed ==
    /\ SummaryServed /\ AlertServed
    /\ Queue!SummaryServed
=============================================================================
