---------------------------- MODULE PullbackTrade ----------------------------
(* One EURUSD pullback trade: the limit planned half a stop away from the   *)
(* signal, its GTD, the fill, and the scale-out of the filled trade (a third *)
(* at +0.5R, a third at +1R with the stop to breakeven, then a 1R trail),    *)
(* with the week's Friday close.  Prices are counted in halves of the fixed  *)
(* 25-pip stop, so that R = 2, the limit offset is 1 and the target 2R = 4;  *)
(* the limit price is 0.                                                     *)
EXTENDS Integers, Sequences

CONSTANTS
    Units,      \* units of the order
    TTL,        \* GTD of the limit, in ticks
    Week,       \* ticks of a week
    BanFrom,    \* Friday flatten: entries are refused from here to the week's end
    MaxTime,    \* bound: ticks
    MaxFaults,  \* bound: lost answers and crashes
    MaxClears   \* bound: operator releases

ASSUME PullbackAssumption == Units \in Nat \ {0} /\ TTL \in Nat /\ Week \in Nat \ {0} /\ BanFrom \in 0..Week

VARIABLES
    time,    \* the clock
    px,      \* the price
    trade,   \* the order and trade at the broker
    row,     \* the local row of the order
    job,     \* the management steps still to send in this tick
    lost,    \* a request whose answer was lost and that may still arrive
    faults,  \* faults so far
    clears,  \* operator releases so far
    resent   \* an action may be sent again with its first answer unknown

pullbackVars == <<time, px, trade, row, job, lost, faults, clears, resent>>

R == 2
Offset == 1
NoRequest == [kind |-> "none"]
Tighter(side, new, old) == IF side = "LONG" THEN new > old ELSE new < old
Reached(side, price, level) == IF side = "LONG" THEN price >= level ELSE price <= level
Level(side, m) == IF side = "LONG" THEN m ELSE -m

-----------------------------------------------------------------------------
(* Planning.                                                                *)

InBan(t) == t % Week >= BanFrom
WeekStart(t) == t - (t % Week)
NextBan(t) == (WeekStart(t) + BanFrom) + (IF InBan(t) THEN Week ELSE 0)
\* The GTD never lets a limit rest into the time entries are refused.
\* Mutant: the GTD is the 24 hours alone.
LimitExpiry_Uncapped(t) == t + TTL
LimitExpiry(t) == IF InBan(t) THEN t ELSE IF t + TTL <= NextBan(t) THEN t + TTL ELSE NextBan(t)

\* The fixed stop and target around the limit; the structural stop only says
\* whether the limit is already through it.
LimitLevels(side, structural) ==
    IF ~Tighter(side, 0, structural) THEN [why |-> "limit_through_stop"]
    ELSE [why |-> "ok", stop |-> Level(side, -R), target |-> Level(side, 2 * R)]
\* What the closed H1 bars say against their EMA; unusable bars are no data.
Trends == {"LONG", "SHORT", "flat", "no_data"}
\* The trend must agree with the side.
PlanPullback(side, trend, structural) ==
    CASE trend = "no_data" -> [why |-> "h1_no_data"]
      [] trend = "flat" -> [why |-> "trend_flat"]
      [] trend \in {"LONG", "SHORT"} \ {side} -> [why |-> "trend_filter"]
      [] OTHER -> LimitLevels(side, structural)

-----------------------------------------------------------------------------
(* The scale-out.                                                           *)

Third == Units \div 3
CanPartial(left) == Third >= 1 /\ left - Third >= 1
TrailStop(side, price) == IF side = "LONG" THEN (IF price - R > 0 THEN price - R ELSE 0)
                          ELSE (IF price + R < 0 THEN price + R ELSE 0)
Partial(stage, left) == [kind |-> "PARTIAL", stage |-> stage, units |-> Third, left |-> left]

\* The steps due at a price, in the order they must be sent.
ManagementSteps(side, stage, left, price, stop) ==
    LET new == TrailStop(side, price)
        half == stage = "NONE" /\ Reached(side, price, Level(side, 1)) /\ CanPartial(left)
        stage1 == IF half THEN "HALF" ELSE stage
        left1 == IF half THEN left - Third ELSE left
        one == stage1 = "HALF" /\ Reached(side, price, Level(side, R)) /\ CanPartial(left1)
        stage2 == IF one THEN "ONE" ELSE stage1
        left2 == IF one THEN left1 - Third ELSE left1
        ready == /\ Reached(side, price, Level(side, R))
                 /\ \/ stage2 = "ONE"
                    \/ stage2 = "NONE" /\ Third < 1
                    \/ stage2 = "HALF" /\ ~CanPartial(left2)
        stopStep == IF Tighter(side, new, stop) THEN [kind |-> "STOP", stage |-> "TRAIL", stop |-> new]
                    ELSE [kind |-> "MARK", stage |-> "TRAIL"]
    IN  IF stage = "TRAIL"
        THEN IF Tighter(side, new, stop) THEN <<[kind |-> "STOP", stage |-> "TRAIL", stop |-> new]>> ELSE <<>>
        ELSE (IF half THEN <<Partial("HALF", left1)>> ELSE <<>>)
             \o (IF one THEN <<Partial("ONE", left2)>> ELSE <<>>)
             \o (IF ready THEN <<stopStep>> ELSE <<>>)

-----------------------------------------------------------------------------
(* The broker (external): what a request that arrives does.                 *)

Arrives(request, b) ==
    IF b.state # IF request.kind = "CANCEL" THEN "resting" ELSE "open" THEN b
    ELSE CASE request.kind = "CANCEL" -> [b EXCEPT !.state = "gone"]
           [] request.kind = "PARTIAL" -> IF request.units > b.units THEN b
                                          ELSE IF request.units = b.units THEN [b EXCEPT !.state = "closed", !.by = "partial", !.units = 0]
                                          ELSE [b EXCEPT !.units = @ - request.units]
           [] request.kind = "STOP" -> [b EXCEPT !.stop = request.stop]
           [] request.kind = "CLOSE" -> [b EXCEPT !.state = "closed", !.by = "close"]
           [] OTHER -> b

\* Stop, target, fill and GTD are carried out by the broker as the price moves.
AtPrice(b, p, t) ==
    CASE b.state = "resting" -> IF t >= b.expires THEN [b EXCEPT !.state = "gone"]
                                ELSE IF ~Tighter(b.side, p, 0) THEN [b EXCEPT !.state = "open", !.filled = t] ELSE b
      [] b.state = "open" -> IF ~Tighter(b.side, p, b.stop) \/ ~Tighter(b.side, b.target, p)
                             THEN [b EXCEPT !.state = "closed", !.by = "level"] ELSE b
      [] OTHER -> b

PriceMoves ==
    /\ row.status # "none"
    /\ \E p \in {px - 2, px - 1, px + 1, px + 2} \cap (-4..4) :
          /\ px' = p
          /\ trade' = AtPrice(trade, p, time)
    /\ UNCHANGED <<time, row, job, lost, faults, clears, resent>>
\* An order past its GTD may still be in the book when it is read.
TickPasses ==
    /\ time < MaxTime
    /\ time' = time + 1
    /\ trade' \in {AtPrice(trade, px, time + 1)} \cup (IF trade.state = "resting" THEN {trade} ELSE {})
    /\ UNCHANGED <<px, row, job, lost, faults, clears, resent>>
LostArrives ==
    /\ lost # NoRequest
    /\ lost' = NoRequest
    /\ trade' \in {Arrives(lost, trade), trade}
    /\ UNCHANGED <<time, px, row, job, faults, clears, resent>>

-----------------------------------------------------------------------------
(* The router.                                                              *)

PullbackInit ==
    /\ time \in 0..(Week - 1)
    /\ px = 0
    /\ trade = [state |-> "none", side |-> "LONG", units |-> 0, stop |-> 0, target |-> 0, filled |-> 0,
                expires |-> 0, by |-> "none"]
    /\ row = [status |-> "none", side |-> "LONG", stage |-> "NONE", left |-> Units, stop |-> 0, action |-> "none",
              expires |-> 0, opened |-> 0]
    /\ job = <<>>
    /\ lost = NoRequest
    /\ faults = 0
    /\ clears = 0
    /\ resent = FALSE

\* A signal: nothing is sent in the entry ban or when the plan is a reason.
RouteLimit ==
    /\ row.status = "none"
    /\ ~InBan(time)
    /\ \E side \in {"LONG", "SHORT"}, trend \in Trends, structural \in {-3, -1, 0, 1, 3} :
          LET plan == PlanPullback(side, trend, structural)
              expires == LimitExpiry(time)
          IN  /\ plan.why = "ok"
              /\ px' = Level(side, Offset)
              /\ trade' = [trade EXCEPT !.state = "resting", !.side = side, !.units = Units, !.stop = plan.stop,
                                        !.target = plan.target, !.expires = expires]
              /\ row' = [row EXCEPT !.status = "PENDING_LIMIT", !.side = side, !.stop = plan.stop, !.expires = expires]
    /\ UNCHANGED <<time, job, lost, faults, clears, resent>>

\* What a read of the broker says of the row.
RowRead ==
    CASE row.status = "PENDING_LIMIT" /\ trade.state = "open" -> [row EXCEPT !.status = "OPEN", !.opened = trade.filled, !.action = "none"]
      [] row.status = "PENDING_LIMIT" /\ trade.state = "closed" -> [row EXCEPT !.status = "CLOSED_AT_BROKER"]
      [] row.status = "PENDING_LIMIT" /\ trade.state = "gone" -> [row EXCEPT !.status = "CANCELLED"]
      [] row.status = "OPEN" /\ trade.state = "closed" ->
             [row EXCEPT !.status = IF row.action = "CLOSE" THEN "CLOSED" ELSE "CLOSED_AT_BROKER", !.action = "none"]
      [] OTHER -> row

\* The week rule: due at the ban after the fill, or at once for a fill in it.
WeekDue(r) == time >= IF InBan(r.opened) THEN r.opened ELSE NextBan(r.opened)

Overdue(r) == r.status = "PENDING_LIMIT" /\ (time >= r.expires \/ InBan(time))
FridayClose(r) == r.status = "OPEN" /\ InBan(time)
\* What a tick has to send: the cancel of a limit that is overdue or rests in
\* the ban, the close of a trade that is due (the Friday window sends it without
\* a quote once the market is closed), or the scale-out steps of this price.
\* An open action sends nothing.
Work(r, quoted) ==
    IF r.action # "none" THEN <<>>
    ELSE IF Overdue(r) THEN <<[kind |-> "CANCEL"]>>
    ELSE IF FridayClose(r) \/ (r.status = "OPEN" /\ quoted /\ WeekDue(r)) THEN <<[kind |-> "CLOSE"]>>
    ELSE IF r.status = "OPEN" /\ quoted THEN ManagementSteps(r.side, r.stage, r.left, px, r.stop)
    ELSE <<>>
\* One tick: reconcile, then its work.
Tick ==
    /\ row.status \in {"PENDING_LIMIT", "OPEN"}
    /\ job = <<>>
    /\ row' = RowRead
    /\ \E quoted \in BOOLEAN : job' = Work(row', quoted)
    /\ UNCHANGED <<time, px, trade, lost, faults, clears, resent>>

\* What the broker's adapter answers before anything is sent: a stop on the
\* wrong side of the market or wider than the broker's own is refused.
\* Mutant: a wider stop is sent.
Declined_Widen(step) ==
    \/ trade.state # (IF step.kind = "CANCEL" THEN "resting" ELSE "open")
    \/ step.kind = "STOP" /\ ~Tighter(trade.side, px, step.stop)
    \/ step.kind = "PARTIAL" /\ step.units > trade.units
Declined(step) ==
    \/ trade.state # (IF step.kind = "CANCEL" THEN "resting" ELSE "open")
    \/ /\ step.kind = "STOP"
       /\ \/ ~Tighter(trade.side, px, step.stop)
          \/ Tighter(trade.side, trade.stop, step.stop)
    \/ step.kind = "PARTIAL" /\ step.units > trade.units

\* Mutant: a lost answer is a failure, to be retried at the next tick.
Latched_Retry(step) == row
Latched(step) == [row EXCEPT !.action = step.kind]

\* The row after a step the broker accepted.
Saved(step) ==
    CASE step.kind = "PARTIAL" -> [row EXCEPT !.left = step.left, !.stage = step.stage]
      [] step.kind = "STOP" -> [row EXCEPT !.stop = step.stop, !.stage = step.stage]
      [] step.kind = "MARK" -> [row EXCEPT !.stage = step.stage]
      [] step.kind = "CANCEL" -> [row EXCEPT !.status = "CANCELLED"]
      [] step.kind = "CLOSE" -> [row EXCEPT !.status = "CLOSED"]

\* A step is accepted and saved; refused, which ends the tick; or sent with
\* its answer lost, which latches the row.
Accepted ==
    /\ job # <<>>
    /\ Head(job).kind = "MARK" \/ ~Declined(Head(job))
    /\ trade' = Arrives(Head(job), trade)
    /\ row' = Saved(Head(job))
    /\ job' = Tail(job)
    /\ UNCHANGED <<time, px, lost, faults, clears, resent>>
RefusedStep ==
    /\ job # <<>>
    /\ Head(job).kind # "MARK"
    /\ Declined(Head(job))
    /\ row' = IF trade.state # "open"
                 /\ Head(job).kind \notin {"STOP", "CANCEL"} THEN [row EXCEPT !.status = "CLOSED_AT_BROKER"] ELSE row
    /\ job' = <<>>
    /\ UNCHANGED <<time, px, trade, lost, faults, clears, resent>>
Lost ==
    /\ job # <<>>
    /\ Head(job).kind # "MARK"
    /\ ~Declined(Head(job))
    /\ faults < MaxFaults
    /\ faults' = faults + 1
    /\ lost' = Head(job)
    /\ row' = Latched(Head(job))
    /\ job' = <<>>
    /\ UNCHANGED <<time, px, trade, clears, resent>>
\* The process dies after the broker carried out a step and before it is saved:
\* nothing local knows of it, and the next tick sends it again.
TradeCrash ==
    /\ job # <<>>
    /\ faults < MaxFaults
    /\ faults' = faults + 1
    /\ \/ UNCHANGED <<trade, resent>>
       \/ /\ Head(job).kind # "MARK"
          /\ ~Declined(Head(job))
          /\ trade' = Arrives(Head(job), trade)
          /\ resent' = (resent \/ Head(job).kind = "PARTIAL")
    /\ job' = <<>>
    /\ UNCHANGED <<time, px, row, lost, clears>>
\* The operator releases the latch: the action may be sent again.
ReleaseLatch ==
    /\ row.status = "OPEN" /\ row.action # "none"
    /\ clears < MaxClears
    /\ clears' = clears + 1
    /\ resent' = (resent \/ row.action \in {"PARTIAL", "STOP"})
    /\ row' = [row EXCEPT !.action = "none"]
    /\ UNCHANGED <<time, px, trade, job, lost, faults>>

PullbackNext ==
    \/ PriceMoves \/ TickPasses \/ LostArrives \/ RouteLimit \/ Tick
    \/ Accepted \/ RefusedStep \/ Lost \/ TradeCrash \/ ReleaseLatch
PullbackSpec == PullbackInit /\ [][PullbackNext]_pullbackVars

-----------------------------------------------------------------------------
(* Unless a partial close is sent a second time (after a crash between the  *)
(* broker's answer and the row, or a release by the operator), the row and  *)
(* the broker agree on the units still open whenever no action is open, the *)
(* partials alone never close the trade, and so the runner is left to the   *)
(* trail (_apply_pullback_step, management_steps); and no limit fills while  *)
(* entries are refused (limit_expiry).                                       *)
ScaledByThirds ==
    /\ ~resent =>
          /\ trade.by # "partial"
          /\ row.status = "OPEN" /\ row.action = "none" /\ trade.state = "open" => trade.units = row.left
          /\ row.left = CASE row.stage = "NONE" -> Units
                          [] row.stage = "HALF" -> Units - Third
                          [] OTHER -> IF Third = 0 THEN Units
                                      ELSE IF Units - 2 * Third >= 1 THEN Units - 2 * Third ELSE Units - Third
    /\ trade.state \in {"open", "closed"} => ~InBan(trade.filled)

(* Unless the operator releases a stop change whose request may still       *)
(* arrive, the stop at the broker only ever moves towards the profit,       *)
(* whatever the row remembers after lost answers and crashes (_modify_stop, *)
(* "would_widen_stop").                                                     *)
StopTightens ==
    trade.state = "open" /\ trade'.state = "open" /\ ~resent
        => ~Tighter(trade.side, trade.stop, trade'.stop)

(* The stop of a managed trade only ever moves towards the profit.          *)
StopOnlyTightens == [][StopTightens]_pullbackVars
=============================================================================
