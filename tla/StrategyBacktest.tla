--------------------------- MODULE StrategyBacktest ---------------------------
(* The V1 backtest: evaluations bar by bar (backtest.py), signals               *)
(* (estrategia.py), the two simulators (simulador.py) with the risk plan of     *)
(* riesgo.py, metrics, the chronological split into training and test           *)
(* (validacion_historica.py, validacion_fuera_muestra.py,                       *)
(* evaluacion_estrategia.py) and the loops over tickers                         *)
(* (ejecutar_estrategia.py, investigacion.py).                                  *)
(*                                                                              *)
(* A bar's date is its position.  Money is in whole units and quantities in     *)
(* 1/Lote of a share: a quotient is rounded down where the code rounds to the   *)
(* nearest double.                                                              *)
EXTENDS MarketAnalysis, FiniteSetsExt

CONSTANTS
    Barras,      \* the bars a download may hold
    MaxBarras,   \* bound: bars of a download
    Tickers,     \* the tickers asked for, in order, as typed
    Normal,      \* the typed ticker stripped and upper-cased; "" for blank, None for no string
    Historial,   \* minimo_historial
    Horizontes,  \* horizons of the research, in bars
    Reparto,     \* <<a, b>>: the training share is a / b
    Capital,     \* capital_inicial
    Porcentaje,  \* porcentaje_capital_por_operacion
    Salida,      \* periodo_salida
    Coste,       \* coste_porcentual
    Riesgo,      \* riesgo_por_operacion_pct, atr_multiplicador, ratio_objetivo, maximo_capital_pct
    Lote         \* parts of a share a quantity is counted in

VARIABLES
    clase,      \* which loop is running
    todo,       \* the tickers still to do
    resultados, \* outcome by normalised ticker
    ultimo      \* the last bars downloaded and what was made of them

backtestVars == <<clase, todo, resultados, ultimo>>

Clases == {"estrategia", "riesgo", "investigacion", "fuera_muestra"}

---------------------------------------------------------------------------
(* backtest.py: each bar with history is evaluated from the bars up to it.      *)

(* Defect: the evaluation of a bar reads the following one too.                 *)
Conocido_Siguiente(datos, t) == SubSeq(datos, 1, IF t < Len(datos) THEN t + 1 ELSE t)

Conocido(datos, t) == SubSeq(datos, 1, t)

GenerarEvaluaciones(datos) ==
    LET con == {t \in Historial..Len(datos) : LimpiarPrecios(Conocido(datos, t)) # <<>>}
    IN  [t \in con |-> [condiciones |-> EvaluarEntrada(Conocido(datos, t)),
                        cierre |-> LET p == LimpiarPrecios(Conocido(datos, t)) IN p[Len(p)],
                        atr |-> CalcularAtr(Conocido(datos, t))]]

(* The change after each horizon, in hundredths; None past the data or when     *)
(* the close is missing.                                                        *)
CalcularFuturos(datos, evaluaciones) ==
    [t \in DOMAIN evaluaciones |->
        [h \in Horizontes |->
            IF t + h > Len(datos) \/ datos[t + h].c = None THEN None
            ELSE (100 * (datos[t + h].c - evaluaciones[t].cierre)) \div evaluaciones[t].cierre]]

(* Counts, sum and (twice the) median of the returns of a group at a horizon.   *)
Estadistica(grupo, futuros, h) ==
    LET con == {t \in grupo : futuros[t][h] # None}
        orden == SortSeq([i \in 1..Cardinality(con) |-> futuros[SetToSeq(con)[i]][h]], <)
        signo(P(_)) == Cardinality({t \in con : P(futuros[t][h])})
        n == Len(orden)
    IN  [muestras |-> n, suma |-> Suma(orden),
         mediano |-> IF n = 0 THEN None ELSE orden[(n + 1) \div 2] + orden[(n + 2) \div 2],
         positivos |-> signo(LAMBDA x : x > 0), negativos |-> signo(LAMBDA x : x < 0)]

EstadisticasPorFavorables(evaluaciones, futuros) ==
    LET favorables(t) == Contar(evaluaciones[t].condiciones, "favorable")
        grupo(n) == {t \in DOMAIN futuros : favorables(t) = n}
    IN  [n \in {favorables(t) : t \in DOMAIN futuros} |->
            [h \in Horizontes |-> Estadistica(grupo(n), futuros, h)]]

EstadisticasPorCondicion(evaluaciones, futuros) ==
    [k \in Condiciones |->
        LET grupo(e) == {t \in DOMAIN futuros : evaluaciones[t].condiciones[k] = e}
        IN  [e \in {x \in Estados : grupo(x) # {}} |->
                [h \in Horizontes |-> Estadistica(grupo(e), futuros, h)]]]

(* The dates of the evaluations that meet the strategy.                         *)
GenerarEventos(evaluaciones) ==
    {t \in DOMAIN evaluaciones : CumpleEstrategia(evaluaciones[t].condiciones)}

---------------------------------------------------------------------------
(* simulador.py: both simulators walk the bars once, carrying the realised      *)
(* capital, the open position if any and the points of the equity curve.        *)
Inicio == [capital |-> Capital, abierta |-> {}, operaciones |-> <<>>, curva |-> <<Capital>>,
           salida |-> 0, error |-> FALSE]

(* Defect: a signal buys at the open of its own bar.                            *)
Senal_MismaBarra(eventos, p) == eventos \cap {p}

(* Only a signal of the bar before can enter.                                   *)
Senal(eventos, p) == eventos \cap {p - 1}

(* V1: the whole share of the capital at the open.                              *)
Comprar(s, datos, eventos, p) ==
    IF s.abierta = {} /\ s.capital > 0 /\ p > 1 /\ Senal(eventos, p) # {} /\ datos[p].o # None
    THEN LET usado == (s.capital * Porcentaje) \div 100
         IN  {[entrada |-> p, precio |-> datos[p].o, cantidad |-> (usado * Lote) \div datos[p].o,
               antes |-> s.capital, usado |-> usado, limite |-> p + Salida]}
    ELSE s.abierta

Cerrar(s, a, p, precio, bruto, motivo) ==
    LET neto == bruto - (a.usado * Coste) \div 100
        capital == a.antes + neto
    IN  [s EXCEPT !.capital = capital, !.abierta = {}, !.salida = p,
            !.operaciones = Append(@, [entrada |-> a.entrada, precio |-> a.precio, cantidad |-> a.cantidad,
                                       salida |-> p, neto |-> neto, motivo |-> motivo]),
            !.curva = Append(@, capital)]

(* V1: sold at the close Salida bars later; a missing close while a position is *)
(* open is an error.                                                            *)
PasoV1(s, datos, eventos, p) ==
    LET abierta == Comprar(s, datos, eventos, p)
        valor(a) == (a.cantidad * datos[p].c) \div Lote
    IN  IF s.error THEN s
        ELSE IF abierta = {} THEN [s EXCEPT !.curva = Append(@, s.capital)]
        ELSE LET a == CHOOSE x \in abierta : TRUE
             IN  IF datos[p].c = None THEN [s EXCEPT !.error = TRUE]
                 ELSE IF p = a.limite THEN Cerrar(s, a, p, datos[p].c, valor(a) - a.usado, "tiempo")
                 ELSE [s EXCEPT !.abierta = abierta, !.curva = Append(@, a.antes - a.usado + valor(a))]

(* riesgo.py calcular_plan_riesgo: stop and target from the ATR of the signal,  *)
(* the quantity from the risk, capped by the capital.                           *)
CalcularPlan(capital, precio, atr) ==
    LET distancia == (atr * Riesgo.atr_multiplicador) \div Ventanas.atr
        porRiesgo == (capital * Riesgo.riesgo_por_operacion_pct * Lote) \div (100 * distancia)
        porCapital == (capital * Riesgo.maximo_capital_pct * Lote) \div (100 * precio)
        cantidad == IF porRiesgo < porCapital THEN porRiesgo ELSE porCapital
    IN  IF capital <= 0 \/ precio = None \/ distancia <= 0 \/ precio - distancia <= 0 THEN {}
        ELSE {[precio |-> precio, cantidad |-> cantidad, usado |-> (cantidad * precio) \div Lote,
               stop |-> precio - distancia, target |-> precio + distancia * Riesgo.ratio_objetivo]}

(* A signal on the bar of the last exit, or before it, is not taken.            *)
ComprarConRiesgo(s, datos, evaluaciones, eventos, p) ==
    IF s.abierta = {} /\ p > 1 /\ \E t \in Senal(eventos, p) : t > s.salida
    THEN {x @@ [entrada |-> p, antes |-> s.capital, limite |-> p + Salida] :
            x \in CalcularPlan(s.capital, datos[p].o,
                               LET t == CHOOSE t \in Senal(eventos, p) : TRUE IN evaluaciones[t].atr)}
    ELSE s.abierta

(* How the bar takes a position out, the worst first: a gap, the stop, the      *)
(* target, then the time limit at a close that exists.                          *)
SalidaDe(a, b, p) ==
    CASE b.o # None /\ (b.o <= a.stop \/ b.o >= a.target) ->
             <<b.o, IF b.o <= a.stop THEN "stop" ELSE "target">>
    []   ~(b.o # None /\ (b.o <= a.stop \/ b.o >= a.target)) /\ b.l # None /\ b.l <= a.stop -> <<a.stop, "stop">>
    []   OTHER -> IF b.h # None /\ b.h >= a.target THEN <<a.target, "target">>
                  ELSE IF p >= a.limite /\ b.c # None THEN <<b.c, "tiempo">> ELSE <<>>

(* A position is not taken out on the bar it entered, and is valued at the      *)
(* realised capital while the close is missing.                                 *)
PasoConRiesgo(s, datos, evaluaciones, eventos, p) ==
    LET abierta == ComprarConRiesgo(s, datos, evaluaciones, eventos, p)
    IN  IF abierta = {} THEN [s EXCEPT !.curva = Append(@, s.capital)]
        ELSE LET a == CHOOSE x \in abierta : TRUE
                 salida == IF p > a.entrada THEN SalidaDe(a, datos[p], p) ELSE <<>>
             IN  IF salida # <<>>
                 THEN Cerrar(s, a, p, salida[1], (a.cantidad * salida[1]) \div Lote - a.usado, salida[2])
                 ELSE [s EXCEPT !.abierta = abierta,
                          !.curva = Append(@, IF datos[p].c = None THEN s.capital
                                              ELSE s.capital - a.usado + (a.cantidad * datos[p].c) \div Lote)]

Simular(conRiesgo, datos, evaluaciones, eventos) ==
    LET s[p \in 0..Len(datos)] ==
            IF p = 0 THEN Inicio
            ELSE IF conRiesgo THEN PasoConRiesgo(s[p - 1], datos, evaluaciones, eventos, p)
                 ELSE PasoV1(s[p - 1], datos, eventos, p)
    IN  s[Len(datos)]

(* metricas_estrategia.py: what the operations and the curve add up to; the     *)
(* profit factor has no value without a loss.                                   *)
CalcularMetricas(sim) ==
    LET ops == sim.operaciones
        netos == [i \in DOMAIN ops |-> ops[i].neto]
        ganancia == Suma(SelectSeq(netos, LAMBDA x : x > 0))
        perdida == -Suma(SelectSeq(netos, LAMBDA x : x < 0))
        cima(i) == Max({sim.curva[j] : j \in 1..i})
    IN  [numero |-> Len(ops), aciertos |-> Len(SelectSeq(netos, LAMBDA x : x > 0)), neto |-> Suma(netos),
         factor |-> IF perdida = 0 THEN None ELSE (100 * ganancia) \div perdida,
         retorno |-> sim.curva[Len(sim.curva)] - Capital,
         drawdown |-> Min({((sim.curva[i] - cima(i)) * 100) \div cima(i) : i \in DOMAIN sim.curva}),
         motivos |-> [m \in {"stop", "target", "tiempo"} |->
                        Len(SelectSeq(ops, LAMBDA x : x.motivo = m))]]

---------------------------------------------------------------------------
(* evaluar_estrategia_en_datos and evaluar_segmento: evaluations of the whole   *)
(* data, of which only the wanted dates are kept.                               *)
DeFechas(evaluaciones, indices) == [t \in (DOMAIN evaluaciones) \cap indices |-> evaluaciones[t]]

Medir(eventos, sim) ==
    [eventos |-> eventos, simulacion |-> sim,
     metricas |-> IF sim.error THEN None ELSE CalcularMetricas(sim)]

Operar(conRiesgo, datos, evaluaciones, eventos) ==
    Medir(eventos, Simular(conRiesgo, datos, evaluaciones, eventos))

EvaluarEstrategia(conRiesgo, datos, evaluaciones) ==
    Operar(conRiesgo, datos, evaluaciones, GenerarEventos(evaluaciones))

Resumir(evaluaciones, futuros) ==
    [evaluaciones |-> evaluaciones, futuros |-> futuros,
     favorables |-> EstadisticasPorFavorables(evaluaciones, futuros),
     condiciones |-> EstadisticasPorCondicion(evaluaciones, futuros)]

EvaluarSegmento(datos, evaluaciones) == Resumir(evaluaciones, CalcularFuturos(datos, evaluaciones))

DeOperaciones(c) == c \in {"estrategia", "riesgo"}

EvaluarCon(c, datos, evaluaciones) ==
    IF DeOperaciones(c) THEN EvaluarEstrategia(c = "riesgo", datos, evaluaciones)
    ELSE EvaluarSegmento(datos, evaluaciones)

Evaluar(c, datos, indices) == EvaluarCon(c, datos, DeFechas(GenerarEvaluaciones(datos), indices))

(* Defect: the training segment keeps every bar.                                *)
Entrenamiento_Todo(datos) == datos

(* dividir_datos_cronologicamente: the first bars train, the rest test.         *)
Corte(datos) == (Len(datos) * Reparto[1]) \div Reparto[2]
Entrenamiento(datos) == SubSeq(datos, 1, Corte(datos))
Divisible(datos) == 0 < Corte(datos) /\ Corte(datos) < Len(datos)

(* preparar_segmento_prueba_con_contexto: the test sees the training bars as    *)
(* context and answers for its own dates only.                                  *)
IndicesPrueba(datos) == (Corte(datos) + 1)..Len(datos)

Validacion(c, datos) ==
    [entrenamiento |-> Evaluar(c, Entrenamiento(datos), DOMAIN datos),
     prueba |-> Evaluar(c, datos, IndicesPrueba(datos))]

(* comparar_metricas_estrategia: test minus training, where both have a figure. *)
Resta(prueba, entrenamiento) ==
    IF prueba = None \/ entrenamiento = None THEN None ELSE prueba - entrenamiento

CompararMetricas(v) ==
    [m \in {"neto", "factor", "retorno", "drawdown"} |->
        Resta(v.prueba.metricas[m], v.entrenamiento.metricas[m])]

(* comparar_estadisticas_condiciones: the states seen in both segments; the     *)
(* difference of the means is kept over the product of the counts.              *)
CompararCondiciones(v) ==
    LET en(segmento, k, e, h) == v[segmento].condiciones[k][e][h]
    IN  [k \in Condiciones |->
            [e \in (DOMAIN v.entrenamiento.condiciones[k]) \cap (DOMAIN v.prueba.condiciones[k]) |->
                [h \in Horizontes |->
                    LET a == en("entrenamiento", k, e, h)
                        b == en("prueba", k, e, h)
                    IN  [medio |-> IF a.muestras = 0 \/ b.muestras = 0 THEN None
                                   ELSE b.suma * a.muestras - a.suma * b.muestras,
                         mediano |-> Resta(b.mediano, a.mediano)]]]]

Comparar(c, v) == IF c = "fuera_muestra" THEN CompararCondiciones(v) ELSE CompararMetricas(v)

ConError(c, v) ==
    DeOperaciones(c)
    /\ (v.entrenamiento.simulacion.error \/ v.prueba.simulacion.error)

---------------------------------------------------------------------------
(* The loops: a ticker that is no string, blank or done already is skipped.     *)
Nuevo(t) == Normal[t] \notin {None, ""} /\ Normal[t] \notin DOMAIN resultados
Turno == todo # <<>> /\ ultimo = {}

(* The bars and the frames made of them go out of scope between two tickers.    *)
Siguiente ==
    /\ ultimo # {}
    /\ ultimo' = {}
    /\ UNCHANGED <<clase, todo, resultados>>

Omitir ==
    /\ Turno /\ ~Nuevo(Head(todo))
    /\ todo' = Tail(todo)
    /\ UNCHANGED <<clase, resultados, ultimo>>

(* obtener_datos_historicos answers None without bars or without one close.     *)
Anotar(estado, u) ==
    /\ resultados' = resultados @@ (Normal[Head(todo)] :> estado)
    /\ ultimo' = u
    /\ todo' = Tail(todo)
    /\ UNCHANGED clase

SinDatos ==
    /\ Turno /\ Nuevo(Head(todo))
    /\ Anotar("no_disponible", {})

Descargas == {d \in UNION {[1..n -> Barras] : n \in 1..MaxBarras} : LimpiarPrecios(d) # <<>>}

(* ejecutar_investigacion: the whole download is one segment.                   *)
Investigar(datos) ==
    /\ clase = "investigacion"
    /\ Anotar("ok", {[datos |-> datos, resultado |-> Evaluar(clase, datos, DOMAIN datos)]})

Concluir(datos, v) ==
    IF ConError(clase, v) THEN Anotar("no_disponible", {})
    ELSE Anotar("ok", {[datos |-> datos, resultado |-> v, diferencia |-> Comparar(clase, v)]})

(* A download that cannot be split, or a simulator that cannot value a          *)
(* position, leaves the ticker unavailable and the loop goes on.                *)
ConDatos(datos) ==
    /\ clase # "investigacion"
    /\ IF ~Divisible(datos) THEN Anotar("no_disponible", {})
       ELSE Concluir(datos, Validacion(clase, datos))

Ejecutar ==
    /\ Turno /\ Nuevo(Head(todo))
    /\ \E datos \in Descargas : Investigar(datos) \/ ConDatos(datos)

BacktestInit ==
    /\ clase \in Clases
    /\ todo = Tickers
    /\ resultados = <<>>
    /\ ultimo = {}

BacktestNext == Siguiente \/ Omitir \/ SinDatos \/ Ejecutar

BacktestSpec == BacktestInit /\ [][BacktestNext]_backtestVars

---------------------------------------------------------------------------
(* A bar put in place of another, with the same open.                           *)
Cambios(datos) ==
    {[datos EXCEPT ![c[1]] = c[2]] : c \in {x \in (DOMAIN datos) \X Barras : datos[x[1]].o = x[2].o}}

Diferencia(d, e) == Min({p \in DOMAIN d : d[p] # e[p]})

Entradas(sim, p) ==
    {<<x.entrada, x.precio, x.cantidad>> :
        x \in {y \in ToSet(sim.operaciones) \cup sim.abierta : y.entrada <= p}}

(* What a simulation had settled when bar p opened.                             *)
Antes(sim, p) ==
    <<Entradas(sim, p), SelectSeq(sim.operaciones, LAMBDA x : x.salida < p), SubSeq(sim.curva, 1, p)>>

(* No trade knows the future: two histories that first differ in bar p, which   *)
(* opens alike in both, enter the same trades at the same price and size up to  *)
(* that open, and have closed and valued the same ones before it.               *)
EntradaCausal ==
    DeOperaciones(clase) =>
    \A u \in ultimo : \A otra \in Cambios(u.datos) \ {u.datos} :
    \A sim \in {Evaluar(clase, otra, IndicesPrueba(otra)).simulacion} :
        LET p == Diferencia(u.datos, otra)
        IN  ~sim.error => Antes(sim, p) = Antes(u.resultado.prueba.simulacion, p)

(* The training figures cannot see the test bars: they are the same whatever    *)
(* bar follows the split, and no test trade starts from a training signal.      *)
FueraDeMuestra ==
    clase # "investigacion" =>
    \A u \in ultimo :
        /\ \A otra \in Cambios(u.datos) \ {u.datos} :
              Diferencia(u.datos, otra) > Corte(u.datos) =>
                  Evaluar(clase, Entrenamiento(otra), DOMAIN otra) = u.resultado.entrenamiento
        /\ clase # "fuera_muestra" =>
              \A x \in ToSet(u.resultado.prueba.simulacion.operaciones) :
                  x.entrada - 1 \in IndicesPrueba(u.datos)

(* The books close: trades do not overlap, the realised capital is the initial  *)
(* capital plus every net result, and the curve has one point per bar.          *)
CuentasCuadran ==
    DeOperaciones(clase) =>
    \A u \in ultimo : \A s \in {u.resultado.entrenamiento.simulacion, u.resultado.prueba.simulacion} :
        /\ s.capital = Capital + Suma([i \in DOMAIN s.operaciones |-> s.operaciones[i].neto])
        /\ \A i \in 2..Len(s.operaciones) : s.operaciones[i - 1].salida < s.operaciones[i].entrada
        /\ s.abierta = {} => s.curva[Len(s.curva)] = s.capital

(* The backtest is honest: no look-ahead, no leak from test to training,        *)
(* balanced books, and one answer for every ticker asked for.                   *)
BacktestHonesto ==
    /\ EntradaCausal /\ FueraDeMuestra /\ CuentasCuadran
    /\ todo = <<>> => DOMAIN resultados = {Normal[t] : t \in ToSet(Tickers)} \ {None, ""}
=============================================================================
