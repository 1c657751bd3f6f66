----------------------------- MODULE MarketScouts -----------------------------
(* From the market-data provider to the structure and liquidity reports of one  *)
(* symbol and timeframe: data/twelve_data_provider.py and massive_provider.py   *)
(* (requests, retries, the cache of one slot's frame), runtime/gates.py         *)
(* fresh_snapshot, agents/structure_agent.py, agents/liquidity_agent.py and the *)
(* chart cache of runtime/candle_cache.py.                                      *)
(*                                                                              *)
(* Bar i opens at time i - 1 and closes at time i.  A cycle decides for its     *)
(* slot, but the request is answered later, with bars that closed after the     *)
(* slot and with the bar still forming, whose shown values are not its final    *)
(* ones.  The provider does not revise a closed bar (MarketEvidence covers      *)
(* revisions).                                                                  *)
EXTENDS Integers, Sequences, FiniteSets, FiniteSetsExt

CONSTANTS
    Shape,       \* bars: [open, high, low, close]
    Window,      \* outputsize: bars of one answer
    ChartBars,   \* candle_cache MAX_BARS
    MaxAge,      \* fresh_snapshot: most bars the last start may lie behind
    MaxLag,      \* how much later than the slot an answer may come
    MaxBars,     \* bound on time
    MaxCycles    \* bound on cycles

VARIABLES
    feed,      \* the configured provider
    bars,      \* the market: the bars closed so far
    memo,      \* the Twelve Data cache: slot of the frame -> frame
    health,    \* health_by_asset of the symbol
    report,    \* the last report
    candles,   \* the chart cache: bar -> close
    cycles

scoutVars == <<feed, bars, memo, health, report, candles, cycles>>

Now == Len(bars)
NoReport == [status |-> "none"]

---------------------------------------------------------------------------
(* The provider.                                                                *)

(* Defect: the forming bar is handed on with the closed ones.                   *)
ClosedBy_Forming(answer, slot) == [i \in {k \in DOMAIN answer : k - 1 <= slot} |-> answer[i]]

(* Of an answer, the rows closed by the slot; they are what is marked           *)
(* is_closed.                                                                   *)
ClosedBy(answer, slot) == [i \in {k \in DOMAIN answer : k <= slot} |-> answer[i]]

(* An answer given at time now: the last Window rows up to a last row the       *)
(* provider already has, the bar still forming (shown as any shape) included.   *)
Answers(now, world) ==
    {[i \in {k \in 1..last : k > last - Window} |-> IF i <= Len(world) THEN world[i] ELSE partial] :
        last \in {now, now + 1} \cup {k \in {now - 1} : k >= 1}, partial \in Shape}

Latest(frame) == Max(DOMAIN frame)

(* The scouts' own mask: closed rows that start by the slot.                    *)
ClosedFrame(frame, slot) == [i \in {k \in DOMAIN frame : k - 1 <= slot} |-> frame[i]]

---------------------------------------------------------------------------
(* The structure scout, on a frame of consecutive closed bars.                  *)

First(frame) == Min(DOMAIN frame)

(* Bars with both neighbours in the frame.                                      *)
Inner(frame) == {i \in DOMAIN frame : i - 1 \in DOMAIN frame /\ i + 1 \in DOMAIN frame}

(* Defect: the last bar counts as a swing before the next one closed.           *)
SwingHighs_Unconfirmed(frame) ==
    {i \in DOMAIN frame : i - 1 \in DOMAIN frame /\ frame[i].high > frame[i - 1].high
                          /\ (i + 1 \in DOMAIN frame => frame[i].high > frame[i + 1].high)}

SwingHighs(frame) ==
    {i \in Inner(frame) : frame[i].high > frame[i - 1].high /\ frame[i].high > frame[i + 1].high}

SwingLows(frame) ==
    {i \in Inner(frame) : frame[i].low < frame[i - 1].low /\ frame[i].low < frame[i + 1].low}

Prior(S, i) == Max({k \in S : k < i})
HasPrior(S, i) == \E k \in S : k < i

(* HH with HL is bullish, LH with LL bearish.                                   *)
Classify(frame) ==
    LET H == SwingHighs(frame)
        L == SwingLows(frame)
        two == Cardinality(H) >= 2 /\ Cardinality(L) >= 2
        higherHigh == frame[Max(H)].high > frame[Prior(H, Max(H))].high
        higherLow  == frame[Max(L)].low > frame[Prior(L, Max(L))].low
    IN  CASE two /\ higherHigh /\ higherLow -> "bullish"
        []   two /\ ~higherHigh /\ ~higherLow -> "bearish"
        []   OTHER -> "neutral"

(* The first close beyond each swing after its confirmation, and of those the   *)
(* latest break; on the same bar a high goes before a low, a later swing        *)
(* before an earlier one.                                                       *)
BreakBar(frame, i, bull) ==
    LET beyond == {j \in DOMAIN frame : j > i + 1 /\ IF bull THEN frame[j].close > frame[i].high
                                                            ELSE frame[j].close < frame[i].low}
    IN  IF beyond = {} THEN 0 ELSE Min(beyond)

BreakOfStructure(frame) ==
    LET breaks == {b \in {[bull |-> TRUE, swing |-> i, at |-> BreakBar(frame, i, TRUE)] : i \in SwingHighs(frame)}
                         \cup {[bull |-> FALSE, swing |-> i, at |-> BreakBar(frame, i, FALSE)] : i \in SwingLows(frame)} :
                      b.at # 0}
        latest == {b \in breaks : \A c \in breaks : c.at <= b.at}
        sided  == IF \E b \in latest : b.bull THEN {b \in latest : b.bull} ELSE latest
    IN  {b \in sided : \A c \in sided : c.swing <= b.swing}

(* Price between the last higher low and the last higher high (bullish), else   *)
(* between the last lower low and the last lower high.                          *)
Retracement(frame) ==
    LET H == SwingHighs(frame)
        L == SwingLows(frame)
        close == frame[Latest(frame)].close
        upH == {i \in H : HasPrior(H, i) /\ frame[i].high > frame[Prior(H, i)].high}
        upL == {i \in L : HasPrior(L, i) /\ frame[i].low > frame[Prior(L, i)].low}
        dnH == {i \in H : HasPrior(H, i) /\ frame[i].high < frame[Prior(H, i)].high}
        dnL == {i \in L : HasPrior(L, i) /\ frame[i].low < frame[Prior(L, i)].low}
    IN  CASE upH # {} /\ upL # {} /\ frame[Max(upL)].low < close /\ close < frame[Max(upH)].high ->
                 [direction |-> "bullish", impulse |-> Max(upH), protected |-> Max(upL)]
        []   ~(upH # {} /\ upL # {} /\ frame[Max(upL)].low < close /\ close < frame[Max(upH)].high)
             /\ dnH # {} /\ dnL # {} /\ frame[Max(dnL)].low < close /\ close < frame[Max(dnH)].high ->
                 [direction |-> "bearish", impulse |-> Max(dnL), protected |-> Max(dnH)]
        []   OTHER -> [direction |-> "none"]

(* Body of at least 0.6 of the range.                                           *)
Displacement(b) ==
    LET body == IF b.close > b.open THEN b.close - b.open ELSE b.open - b.close
    IN  IF b.high > b.low /\ 10 * body >= 6 * (b.high - b.low)
        THEN IF b.close > b.open THEN "bullish" ELSE "bearish"
        ELSE "none"

StructureReport(frame) ==
    LET H == SwingHighs(frame)
        L == SwingLows(frame)
    IN  [bias |-> Classify(frame), highs |-> H, lows |-> L,
         support |-> {frame[i].low : i \in {k \in L : \A m \in L : frame[k].low <= frame[m].low}},
         resistance |-> {frame[i].high : i \in {k \in H : \A m \in H : frame[k].high >= frame[m].high}},
         displacement |-> Displacement(frame[Latest(frame)]),
         retracement |-> Retracement(frame), bos |-> BreakOfStructure(frame)]

---------------------------------------------------------------------------
(* The liquidity scout: adjacent pivots within 0.1% of the earlier one, and a   *)
(* last bar that went beyond every earlier extreme and closed back inside.      *)
Near(a, b) == 1000 * (IF a > b THEN a - b ELSE b - a) <= a

LiquidityReport(frame) ==
    LET H == SwingHighs(frame)
        L == SwingLows(frame)
        last == frame[Latest(frame)]
        earlier == DOMAIN frame \ {Latest(frame)}
        top == Max({frame[i].high : i \in earlier})
        bottom == Min({frame[i].low : i \in earlier})
    IN  [above |-> {i \in H : HasPrior(H, i) /\ Near(frame[Prior(H, i)].high, frame[i].high)},
         below |-> {i \in L : HasPrior(L, i) /\ Near(frame[Prior(L, i)].low, frame[i].low)},
         sweeps |-> (IF last.high > top /\ last.close < top THEN {"high"} ELSE {})
                    \cup (IF last.low < bottom /\ last.close > bottom THEN {"low"} ELSE {})]

---------------------------------------------------------------------------
ScoutsInit ==
    /\ feed \in {"twelve_data", "massive"}
    /\ bars \in [1..1 -> Shape]
    /\ memo = [s \in {} |-> {}]
    /\ health = "NOT_CONFIGURED"
    /\ report = NoReport
    /\ candles = [i \in {} |-> 0]
    /\ cycles = 0

(* The market closes a bar.                                                     *)
CloseBar(b) ==
    /\ Now < MaxBars /\ bars' = Append(bars, b)
    /\ UNCHANGED <<feed, memo, health, report, candles, cycles>>

(* The gate and the reports on the frame of a slot; the chart cache takes the   *)
(* closes of the frame and keeps the last ChartBars.                            *)
Recorded(frame, slot) ==
    LET closed == {i \in DOMAIN frame : i <= slot}
        all    == DOMAIN candles \cup closed
        kept   == {i \in all : Cardinality({k \in all : k > i}) < ChartBars}
    IN  [i \in kept |-> IF i \in closed THEN frame[i].close ELSE candles[i]]

Analysed(frame, slot) ==
    IF DOMAIN frame = {} \/ slot - (Latest(frame) - 1) > MaxAge
    THEN report' = [status |-> "STALE_DATA"] /\ UNCHANGED candles
    ELSE /\ candles' = Recorded(frame, slot)
         /\ report' = IF Cardinality(DOMAIN frame) < 3 THEN [status |-> "PARTIAL"]
                      ELSE [status |-> "OK", slot |-> slot, from |-> First(frame),
                            structure |-> StructureReport(ClosedFrame(frame, slot)),
                            liquidity |-> LiquidityReport(ClosedFrame(frame, slot))]

Counted == cycles < MaxCycles /\ cycles' = cycles + 1

(* A cycle for a slot answered by Twelve Data: from the cache when that slot's  *)
(* frame is there, else by a request; a frame that reaches the slot is cached.  *)
CycleTwelveData(slot) ==
    /\ feed = "twelve_data" /\ Counted
    /\ IF slot \in DOMAIN memo
       THEN /\ Analysed(memo[slot], slot)
            /\ UNCHANGED <<memo, health>>
       ELSE \E answer \in Answers(Now, bars) :
              LET frame == ClosedBy(answer, slot)
                  reached == DOMAIN frame # {} /\ Latest(frame) >= slot
              IN  /\ Analysed(frame, slot)
                  /\ health' = IF DOMAIN frame = {} THEN "ERROR" ELSE IF reached THEN "READY" ELSE "STALE"
                  /\ memo' = IF reached THEN [s \in DOMAIN memo \cup {slot} |-> IF s = slot THEN frame ELSE memo[s]]
                             ELSE memo
    /\ UNCHANGED <<feed, bars>>

(* A cycle answered by Massive: no cache; an answer marked DELAYED leaves the   *)
(* symbol STALE for good.                                                       *)
CycleMassive(slot) ==
    /\ feed = "massive" /\ Counted
    /\ \E answer \in Answers(Now, bars), delayed \in BOOLEAN :
          /\ Analysed(ClosedBy(answer, slot), slot)
          /\ health' = IF delayed \/ health = "STALE" THEN "STALE" ELSE "READY"
    /\ UNCHANGED <<feed, bars, memo>>

(* The request fails, for good or after its retries (429, 5xx, no connection):  *)
(* the cycle has no snapshot.                                                   *)
NoSnapshot ==
    /\ Counted
    /\ health' \in {"ERROR", "ENTITLEMENT_ERROR"}
    /\ report' = [status |-> "PROVIDER_FAILURE"]
    /\ UNCHANGED <<feed, bars, memo, candles>>

TwelveDataFails == feed = "twelve_data" /\ NoSnapshot
MassiveFails == feed = "massive" /\ NoSnapshot

ScoutsNext ==
    \/ \E b \in Shape : CloseBar(b)
    \/ \E slot \in {k \in (Now - MaxLag)..Now : k >= 1} : CycleTwelveData(slot) \/ CycleMassive(slot)
    \/ TwelveDataFails \/ MassiveFails

ScoutsSpec == ScoutsInit /\ [][ScoutsNext]_scoutVars

---------------------------------------------------------------------------
(* A report is about final, closed bars and nothing later than its slot: every  *)
(* swing is an extreme of the market between two bars closed by the slot, the   *)
(* reported break is the first close beyond its swing and no swing of the       *)
(* window was broken later, and a bullish or bearish bias has its swings.  So   *)
(* no report is ever retracted by a later one, however late the answer came,    *)
(* whatever was forming and whether it came from the cache                      *)
(* (structure_agent.py:3-5, liquidity_agent.py, twelve_data_provider.py).       *)
Peak(i) == bars[i].high > bars[i - 1].high /\ bars[i].high > bars[i + 1].high
Trough(i) == bars[i].low < bars[i - 1].low /\ bars[i].low < bars[i + 1].low
Beyond(b, j) == IF b.bull THEN bars[j].close > bars[b.swing].high ELSE bars[j].close < bars[b.swing].low

ReportIsFinal ==
    report.status = "OK" =>
        LET s == report.structure
            settled == (report.from + 1)..(report.slot - 1)
            laterBreak(b, swings, bull) ==
                \E i \in swings, j \in (b.at + 1)..report.slot :
                    LET c == [bull |-> bull, swing |-> i]
                    IN  j > i + 1 /\ Beyond(c, j) /\ \A k \in (i + 2)..(j - 1) : ~Beyond(c, k)
        IN  /\ s.highs \subseteq {i \in settled : Peak(i)}
            /\ s.lows \subseteq {i \in settled : Trough(i)}
            /\ \A b \in s.bos :
                  /\ b.swing \in (IF b.bull THEN s.highs ELSE s.lows) /\ b.at \in (b.swing + 2)..report.slot
                  /\ Beyond(b, b.at) /\ \A j \in (b.swing + 2)..(b.at - 1) : ~Beyond(b, j)
                  /\ ~laterBreak(b, s.highs, TRUE) /\ ~laterBreak(b, s.lows, FALSE)
            /\ s.bias # "neutral" => Cardinality(s.highs) >= 2 /\ Cardinality(s.lows) >= 2
            /\ report.liquidity.above \subseteq s.highs /\ report.liquidity.below \subseteq s.lows

(* The chart cache holds final closes of bars closed at the time, so an alert   *)
(* draws what the market did (candle_cache.py:44-70).                           *)
ChartIsFinal == \A i \in DOMAIN candles : i <= Now /\ candles[i] = bars[i].close

(* What the scouts and the chart show is settled.                               *)
ReportsHold == ReportIsFinal /\ ChartIsFinal
=============================================================================
