---------------------------- MODULE MarketAnalysis ----------------------------
(* What V1 reads in the bars known so far: the indicators of tecnico.py, the    *)
(* five conditions of validador_entrada.py and the rule of estrategia.py that   *)
(* turns an evaluation into a signal.                                           *)
(*                                                                              *)
(* Prices and volumes are natural numbers, None where the download left a NaN.  *)
(* Averages are compared as exact fractions: the exponential ones keep their    *)
(* numerator over the power of (n + 1) that clears the weight 2 / (n + 1).      *)
EXTENDS Integers, Sequences, FiniteSets, SequencesExt

CONSTANTS
    None,        \* a missing value (NaN)
    Ventanas,    \* windows: media, ema_corta, ema_larga, rsi, rapido, lento, senal, atr, volumen, rango
    Estrategia   \* minimo_favorables, maximo_desfavorables, requeridas

Condiciones == {"tendencia", "rsi", "macd", "volumen", "estructura_precio"}
Estados == {"favorable", "desfavorable", "no_disponible"}

Ultimos(s, n) == SubSeq(s, Len(s) - n + 1, Len(s))
Suma(s) == FoldSeq(LAMBDA x, y : x + y, 0, s)

(* _limpiar_precios and _limpiar_columnas: rows with a missing value go away.   *)
LimpiarPrecios(barras) == SelectSeq([i \in DOMAIN barras |-> barras[i].c], LAMBDA c : c # None)
LimpiarColumnas(barras, columnas) ==
    SelectSeq(barras, LAMBDA b : \A k \in columnas : b[k] # None)

Estado(disponible, favorable) ==
    IF ~disponible THEN "no_disponible" ELSE IF favorable THEN "favorable" ELSE "desfavorable"

---------------------------------------------------------------------------
(* Numerators of ewm(span=n, adjust=False).mean() after each price; the t-th    *)
(* is over (n + 1)^(t - 1).                                                     *)
Ema(p, n) ==
    LET e[t \in DOMAIN p] ==
            IF t = 1 THEN p[1] ELSE 2 * p[t] * (n + 1)^(t - 2) + (n - 1) * e[t - 1]
    IN  e

(* The last close against the mean of the window.                               *)
DeterminarTendencia(p) ==
    LET n == Ventanas.media
        resto == n * p[Len(p)] - Suma(Ultimos(p, n))
    IN  IF Len(p) < n THEN None
        ELSE CASE resto > 0 -> "alcista" [] resto < 0 -> "bajista" [] OTHER -> "neutral"

CondicionTendencia(p) ==
    LET t == Len(p) - 1
        corta == Ema(p, Ventanas.ema_corta)[Len(p)] * (Ventanas.ema_larga + 1)^t
        larga == Ema(p, Ventanas.ema_larga)[Len(p)] * (Ventanas.ema_corta + 1)^t
    IN  Estado(Len(p) >= Ventanas.media /\ Len(p) >= Ventanas.ema_corta /\ Len(p) >= Ventanas.ema_larga,
               DeterminarTendencia(p) = "alcista" /\ corta > larga)

(* RSI = 100 g / (g + l) over the last changes, 50 when nothing moved; the      *)
(* condition wants it between 50 and 70.                                        *)
CondicionRsi(p) ==
    LET cambios == Ultimos([i \in 1..(Len(p) - 1) |-> p[i + 1] - p[i]], Ventanas.rsi)
        ganado == Suma(SelectSeq(cambios, LAMBDA d : d > 0))
        perdido == -Suma(SelectSeq(cambios, LAMBDA d : d < 0))
    IN  Estado(Len(p) >= Ventanas.rsi + 1,
               /\ ganado >= perdido
               /\ 100 * ganado <= 70 * (ganado + perdido))

(* The MACD line is above its signal exactly when the histogram is positive.    *)
CondicionMacd(p) ==
    LET f == Ventanas.rapido + 1
        s == Ventanas.lento + 1
        k == Ventanas.senal + 1
        rapida == Ema(p, Ventanas.rapido)
        lenta == Ema(p, Ventanas.lento)
        linea == [t \in DOMAIN p |-> rapida[t] * s^(t - 1) - lenta[t] * f^(t - 1)]
        senal[t \in DOMAIN p] ==
            IF t = 1 THEN linea[1]
            ELSE 2 * linea[t] * k^(t - 2) + (k - 2) * f * s * senal[t - 1]
        t == Len(p)
    IN  Estado(t >= Ventanas.lento + Ventanas.senal - 1, linea[t] * k^(t - 1) > senal[t])

CondicionVolumen(barras) ==
    LET v == LimpiarColumnas(barras, {"v"})
        n == Ventanas.volumen
        total == Suma([i \in 1..n |-> Ultimos(v, n)[i].v])
    IN  IF Len(v) < n THEN "no_disponible"
        ELSE Estado(total # 0, v[Len(v)].v * n >= total)

(* Where the last close lies in the range of the window: 50% to 90%.            *)
CondicionEstructura(barras) ==
    LET r == LimpiarColumnas(barras, {"h", "l", "c"})
        u == Ultimos(r, Ventanas.rango)
        alto == CHOOSE x \in {u[i].h : i \in DOMAIN u} : \A i \in DOMAIN u : x >= u[i].h
        bajo == CHOOSE x \in {u[i].l : i \in DOMAIN u} : \A i \in DOMAIN u : x <= u[i].l
        lugar == 100 * (u[Len(u)].c - bajo)
    IN  IF Len(r) < Ventanas.rango THEN "no_disponible"
        ELSE Estado(TRUE, alto = bajo \/ (50 * (alto - bajo) <= lugar /\ lugar <= 90 * (alto - bajo)))

(* The mean true range of the window, as its sum; 0 when it is unavailable.     *)
CalcularAtr(barras) ==
    LET r == LimpiarColumnas(barras, {"h", "l", "c"})
        n == Ventanas.atr
        Lejos(x, y) == IF x > y THEN x - y ELSE y - x
        Mayor(x, y) == IF x > y THEN x ELSE y
        rangos == [i \in DOMAIN r |->
                     IF i = 1 THEN r[i].h - r[i].l
                     ELSE Mayor(r[i].h - r[i].l, Mayor(Lejos(r[i].h, r[i - 1].c), Lejos(r[i].l, r[i - 1].c)))]
    IN  IF Len(r) < n THEN 0 ELSE Suma(Ultimos(rangos, n))

---------------------------------------------------------------------------
(* analizar_mercado and evaluar_entrada: the state of each condition.           *)
EvaluarEntrada(barras) ==
    LET p == LimpiarPrecios(barras)
    IN  [tendencia |-> CondicionTendencia(p), rsi |-> CondicionRsi(p), macd |-> CondicionMacd(p),
         volumen |-> CondicionVolumen(barras), estructura_precio |-> CondicionEstructura(barras)]

Contar(condiciones, estado) == Cardinality({k \in Condiciones : condiciones[k] = estado})

CumpleEstrategia(condiciones) ==
    /\ Contar(condiciones, "favorable") >= Estrategia.minimo_favorables
    /\ Contar(condiciones, "desfavorable") <= Estrategia.maximo_desfavorables
    /\ \A k \in Estrategia.requeridas : condiciones[k] = "favorable"
=============================================================================
