---------------------------- MODULE MCObservation ----------------------------
(* Small instances, for TLC, of the paper ledger and of the modules that read,  *)
(* record, review and show: as in MCExecution the parts share no state and Init *)
(* chooses the one that moves.  The ledger, the market evidence, the AI review, *)
(* the demo reads and the macro calendar have their own variables; the other    *)
(* parts, one at a time, keep theirs in x1, x2, ..., in the order of their      *)
(* declarations.                                                                *)
EXTENDS PaperLedger, MarketEvidence, AiReview, DemoReadCache, MacroFeed

CONSTANT None

VARIABLES part, x1, x2, x3, x4, x5, x6, x7

Shapes == {[open |-> 2, high |-> 3, low |-> 2, close |-> 3],
           [open |-> 3, high |-> 3, low |-> 1, close |-> 1],
           [open |-> 3, high |-> 5, low |-> 3, close |-> 4]}

Barra(o, h, l, c, v) == [o |-> o, h |-> h, l |-> l, c |-> c, v |-> v]
MCBarras == {Barra(10, 14, 9, 13, 3), Barra(10, 11, 6, 7, 2), Barra(16, 17, 12, None, 3)}
MCVentanas == [media |-> 2, ema_corta |-> 1, ema_larga |-> 2, rsi |-> 1, rapido |-> 1, lento |-> 2,
               senal |-> 2, atr |-> 2, volumen |-> 2, rango |-> 2]
MCEstrategia == [minimo_favorables |-> 3, maximo_desfavorables |-> 2, requeridas |-> {"tendencia"}]
MCRiesgo == [riesgo_por_operacion_pct |-> 10, atr_multiplicador |-> 1, ratio_objetivo |-> 1,
             maximo_capital_pct |-> 50]
MCTickers == <<"aapl", "AAPL", "blank">>
MCNormal == [aapl |-> "AAPL", AAPL |-> "AAPL", blank |-> ""]

-----------------------------------------------------------------------------
\* Two lives of the runner and two troubles around a save.
Rex == INSTANCE RunEvidence WITH
    Genesis <- 0, Digests <- {0, 1}, RunIds <- {"r1", "r2"}, None <- None, MaxLives <- 2,
    MaxSaves <- 1, MaxTrouble <- 2, digest <- x1, rexLog <- x2, process <- x3, rec <- x4,
    trouble <- x5, commits <- x6

\* Collections up to moment 3, one cut short.
Health == INSTANCE SystemHealth WITH
    FailedAfter <- 2, HeartbeatLimit <- 1, ProgressLimit <- 1, MaxRows <- 2,
    MaxClock <- 3, Cut <- 1, MaxCalls <- 1, trading <- x1, sidecar <- x2, raised <- x3,
    now <- x4, calls <- x5

\* Five bars of three shapes, two cycles.
Scouts == INSTANCE MarketScouts WITH
    Shape <- Shapes, Window <- 6, ChartBars <- 3, MaxAge <- 2, MaxLag <- 1, MaxBars <- 5,
    MaxCycles <- 2, feed <- x1, bars <- x2, memo <- x3, health <- x4, report <- x5,
    candles <- x6, cycles <- x7

\* Every history of up to five bars of three kinds, half of it for training.
Backtest == INSTANCE StrategyBacktest WITH
    None <- None, Ventanas <- MCVentanas, Estrategia <- MCEstrategia, Barras <- MCBarras,
    MaxBarras <- 5, Tickers <- MCTickers, Normal <- MCNormal, Historial <- 2,
    Horizontes <- {1}, Reparto <- <<1, 2>>, Capital <- 100, Porcentaje <- 50,
    Salida <- 1, Coste <- 2, Riesgo <- MCRiesgo, Lote <- 20, clase <- x1, todo <- x2,
    resultados <- x3, ultimo <- x4

-----------------------------------------------------------------------------
\* The slots from the k-th on, and what they hold where the part does not use them.
From7 == <<x7>>
Off7 == x7 = "-"
From6 == <<x6, From7>>
Off6 == x6 = "-" /\ Off7
From5 == <<x5, From6>>
Off5 == x5 = "-" /\ Off6
From1 == <<x1, x2, x3, x4, From5>>
Off1 == x1 = "-" /\ x2 = "-" /\ x3 = "-" /\ x4 = "-" /\ Off5

\* The parts that choose how they start do so only where they move.  The calendar: one HIGH
\* event, a failed request and a restart, over two cache times.
ObservationInit ==
    /\ part \in {"ledger", "evidence", "review", "reads", "macro", "rex", "health", "scouts", "backtest"}
    /\ LedgerInit /\ EvidenceInit /\ AiInit /\ DemoInit /\ MacroInit
    /\ part # "ledger" => \A s \in Symbol : position[s] = Flat /\ Pending(s) = {}
    /\ part # "macro" => mode = "finnhub" /\ listed = {} /\ \A e \in Event : at[e] = 2
    /\ CASE part = "rex" -> Rex!RexInit /\ Off7
         [] part = "health" -> Health!HealthInit /\ Off6
         [] part = "scouts" -> Scouts!ScoutsInit
         [] part = "backtest" -> Backtest!BacktestInit /\ Off5
         [] OTHER -> Off1

Parts == UNCHANGED <<part, ledgerVars, evidenceVars, aiVars, demoVars, macroVars>>
ObservationNext ==
    \/ part = "ledger" /\ LedgerNext /\ UNCHANGED <<part, evidenceVars, aiVars, demoVars, macroVars, From1>>
    \/ part = "evidence" /\ EvidenceNext /\ UNCHANGED <<part, ledgerVars, aiVars, demoVars, macroVars, From1>>
    \/ part = "review" /\ AiNext /\ UNCHANGED <<part, ledgerVars, evidenceVars, demoVars, macroVars, From1>>
    \/ part = "reads" /\ DemoNext /\ UNCHANGED <<part, ledgerVars, evidenceVars, aiVars, macroVars, From1>>
    \/ part = "macro" /\ MacroNext /\ UNCHANGED <<part, ledgerVars, evidenceVars, aiVars, demoVars, From1>>
    \/ part = "rex" /\ Rex!RexNext /\ Parts /\ UNCHANGED From7
    \/ part = "health" /\ Health!HealthNext /\ Parts /\ UNCHANGED From6
    \/ part = "scouts" /\ Scouts!ScoutsNext /\ Parts
    \/ part = "backtest" /\ Backtest!BacktestNext /\ Parts /\ UNCHANGED From5

observationVars == <<ledgerVars, evidenceVars, aiVars, demoVars, macroVars, part, From1>>
ObservationSpec == ObservationInit /\ [][ObservationNext]_observationVars

-----------------------------------------------------------------------------
\* A revision gate only clears on genuine final decisions, and a sealed process only starts
\* on the account its evidence leads to (MarketEvidence, RunEvidence).
ReviewedAndSealed == [][ClearStep /\ (part = "rex" => Rex!SealedStep)]_observationVars

\* The status shown is the one recorded: a health record agrees with its log, a run that is
\* certified has all its writes in the evidence, and a trouble-free one is certified
\* (SystemHealth, RunEvidence).
StatusHonest ==
    /\ part = "health" => Health!RecordIsOfItsLog
    /\ part = "rex" => Rex!CertifiedIsEvidenced /\ Rex!CleanIsCertified

\* No report looks ahead: the scouts' reports are made of closed bars and confirmed swings
\* (MarketScouts), and the V1 backtest has no look-ahead, no leak and balanced books
\* (StrategyBacktest).
NoLookAhead ==
    /\ part = "scouts" => Scouts!ReportsHold
    /\ part = "backtest" => Backtest!BacktestHonesto
=============================================================================
