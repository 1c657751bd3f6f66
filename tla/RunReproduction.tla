--------------------------- MODULE RunReproduction ---------------------------
(***************************************************************************)
(* One cycle of the paper runtime with its REX record on, from the session *)
(* gate to the order (runtime/service._run_cycle), and the offline oracle  *)
(* that derives the run again from that record alone (replay/rex_oracle).  *)
(*                                                                         *)
(* The two sides are written apart, as they are in the code: the runtime   *)
(* acts and notes its stages, the oracle reads the notes. Money and prices *)
(* are small integers; a stage is a sequence that is empty until noted.    *)
(***************************************************************************)
EXTENDS Integers, Sequences, FiniteSets

CONSTANTS
    Bars,           \* closed 5m bars [o, h, l, c]
    MaxBars,        \* bound: bars of one catch-up
    StartEquity,
    RiskShare,      \* a fill may risk this part of the equity (1% in the code)
    MinRR           \* fill R:R (3)

VARIABLES
    ledger,     \* the durable paper state: position and order of the symbol, realized result
    run,        \* the cycle under way
    rec,        \* REX_RUN and REX_WRITE rows of the run
    odd         \* what happened in the run that the oracle does not cover (observed)

reVars == <<ledger, run, rec, odd>>

NoPos == [side |-> "NONE", entry |-> 0, stop |-> 0, target |-> 0, last |-> 0, at |-> 0]
NoOrder == [status |-> "NONE", asOf |-> 0]
Long == [side |-> "LONG", entry |-> 2, stop |-> 1, target |-> 3, last |-> 2, at |-> 0]
Short == [side |-> "SHORT", entry |-> 2, stop |-> 3, target |-> 1, last |-> 2, at |-> 0]
\* A pending order: LONG, SL 1 and TP 5 around an entry at 2.
OrderStop == 1
OrderTarget == 5

Paths == {"CATCH_UP", "SNAPSHOT", "LEGACY"}
NoRec == [session |-> <<>>, exit |-> <<>>, data |-> <<>>, st2 |-> <<>>, st3 |-> <<>>, st4 |-> <<>>, f1b |-> <<>>,
          seen |-> <<>>, st5 |-> <<>>, st6 |-> <<>>, st7 |-> <<>>, pending |-> <<>>, st8 |-> <<>>, recheck |-> <<>>,
          st10 |-> <<>>, error |-> <<>>, halt |-> <<>>, writes |-> <<>>, returned |-> "NONE"]

ReInit ==
    /\ ledger \in {[pos |-> p, order |-> o, realized |-> 0] :
                     p \in {NoPos, Long, Short}, o \in {NoOrder, [status |-> "PENDING", asOf |-> 0]}}
    /\ ledger.pos # NoPos => ledger.order = NoOrder
    /\ run \in {[pc |-> "session", path |-> p, enabled |-> e, blocked |-> "NONE", left |-> MaxBars, bar |-> CHOOSE b \in Bars : TRUE,
                 retried |-> FALSE] : p \in Paths, e \in BOOLEAN}
    /\ rec = NoRec /\ odd = {}

Go(pc) == run' = [run EXCEPT !.pc = pc]
Returns(v, r) == run' = [run EXCEPT !.pc = "done"] /\ rec' = [r EXCEPT !.returned = v]
Write(r, stage, ctx, pre, post, events) ==
    [r EXCEPT !.writes = Append(@, [stage |-> stage, ctx |-> ctx, pre |-> pre, post |-> post, events |-> events])]

-----------------------------------------------------------------------------
\* The runtime's rules.

Unrealized(p) == IF p.side = "LONG" THEN p.last - p.entry ELSE p.entry - p.last
Equity(s) == StartEquity + s.realized + (IF s.pos = NoPos THEN 0 ELSE Unrealized(s.pos))

Beyond(side, price, level) == IF side = "LONG" THEN price <= level ELSE price >= level
\* TradeManager.process_bar: an exit at the open behind a level, else at the stop before the target.
ProcessBar(s, bar, t) ==
    LET p == s.pos
        worst == IF p.side = "LONG" THEN bar.l ELSE bar.h
        best == IF p.side = "LONG" THEN bar.h ELSE bar.l
        gapStop == Beyond(p.side, bar.o, p.stop)
        gapTarget == IF p.side = "LONG" THEN bar.o >= p.target ELSE bar.o <= p.target
        targetHit == IF p.side = "LONG" THEN best >= p.target ELSE best <= p.target
        out(price, why) == [s |-> [s EXCEPT !.pos = NoPos,
                                            !.realized = @ + (IF p.side = "LONG" THEN price - p.entry ELSE p.entry - price)],
                            events |-> <<why, "POSITION_CLOSED">>]
    IN CASE p = NoPos \/ t <= p.at -> [s |-> s, events |-> <<>>]
         [] OTHER ->
            IF gapStop THEN out(bar.o, "STOP_HIT") ELSE IF gapTarget THEN out(bar.o, "TARGET_HIT")
            ELSE IF Beyond(p.side, worst, p.stop) THEN out(p.stop, "STOP_HIT")
            ELSE IF targetHit THEN out(p.target, "TARGET_HIT")
            ELSE [s |-> [s EXCEPT !.pos.last = bar.c, !.pos.at = t], events |-> <<>>]

\* PaperBroker.process_next_bar, the frozen V1 fill gate.
FillRejected(s, price) ==
    \/ Equity(s) <= 0
    \/ price - OrderStop <= 0
    \/ OrderTarget - price <= 0
    \/ OrderTarget - price < MinRR * (price - OrderStop)
    \/ (price - OrderStop) * RiskShare > Equity(s)
ProcessNextBar(s, bar, t) ==
    IF s.order.status # "PENDING" \/ t <= s.order.asOf THEN [s |-> s, events |-> <<>>]
    ELSE IF FillRejected(s, bar.o) THEN [s |-> [s EXCEPT !.order.status = "REJECTED"], events |-> <<"ORDER_REJECTED">>]
    ELSE [s |-> [s EXCEPT !.order.status = "FILLED",
                          !.pos = [side |-> "LONG", entry |-> bar.o, stop |-> OrderStop, target |-> OrderTarget,
                                   last |-> bar.o, at |-> t]],
          events |-> <<"ORDER_FILLED", "POSITION_OPENED">>]

\* riesgo.evaluar_trade_plan under V1: gates, then the smaller of the risk and capital sizes.
Evaluate(plan, eq) ==
    IF eq <= 0 \/ ~plan.ordered \/ plan.declared < MinRR \/ plan.declared # plan.rr THEN [status |-> "REJECTED", q |-> 0]
    ELSE LET q == IF eq < plan.cap THEN eq ELSE plan.cap IN
         IF q <= 0 THEN [status |-> "REJECTED", q |-> 0] ELSE [status |-> "APPROVED", q |-> q]
\* floor/orchestrator.run; the setup and the planner are inputs.
FloorStatus(setup, risk) ==
    CASE setup \in {"NO_SETUP", "WATCH"} -> setup
      [] setup = "NO_PLAN" -> "PLAN_UNAVAILABLE"
      [] setup = "PLAN" -> IF risk.status = "APPROVED" THEN "PLAN_READY" ELSE "RISK_REJECTED"
Increment_Nearest(status, risk, step) ==   \* mutant: rounds to the nearest increment
    IF risk.status # "APPROVED" THEN [status |-> status, risk |-> risk]
    ELSE LET rounded == ((risk.q + step \div 2) \div step) * step IN
         IF rounded <= 0 THEN [status |-> "RISK_REJECTED", risk |-> [status |-> "REJECTED", q |-> 0]]
         ELSE [status |-> status, risk |-> [risk EXCEPT !.q = rounded]]
\* apply_paper_quantity_increment: down to whole increments, never up; raises without an increment.
Increment(status, risk, step) ==
    IF risk.status # "APPROVED" THEN [status |-> status, risk |-> risk]
    ELSE LET rounded == (risk.q \div step) * step IN
         IF rounded <= 0 THEN [status |-> "RISK_REJECTED", risk |-> [status |-> "REJECTED", q |-> 0]]
         ELSE [status |-> status, risk |-> [risk EXCEPT !.q = rounded]]
\* ai/orchestrator._final_status; a status the AI contracts do not know is an error.
AiStatus(status, objects) ==
    IF status \notin {"NO_SETUP", "WATCH", "RISK_REJECTED", "PLAN_READY"} THEN "ERROR"
    ELSE IF status = "PLAN_READY" /\ objects THEN "AI_CAUTION" ELSE status
Blocking == {"AI_CAUTION", "ERROR", "RISK_REJECTED"}

-----------------------------------------------------------------------------
\* Exits: noted first, then the run's lifecycle is written; a halt refuses that write, and the
\* write itself may fail.

NotedExit ==
    /\ run.pc = "exit"
    /\ LET at == rec.exit[1].at  v == rec.exit[1].value IN
       \/ Returns(v, rec) /\ UNCHANGED odd
       \/ /\ Returns("HALTED", [rec EXCEPT !.halt = <<[kind |-> "run_lifecycle", stage |-> "persistence"]>>])
          /\ odd' = IF at = "gate" THEN odd \cup {"halt_at_gate_exit"} ELSE odd
       \/ Returns("ERROR", [rec EXCEPT !.error = <<"exit">>]) /\ odd' = odd \cup {"error_at_exit"}
    /\ UNCHANGED ledger
Exit(r, at, value) == run' = [run EXCEPT !.pc = "exit"] /\ rec' = [r EXCEPT !.exit = <<[at |-> at, value |-> value]>>]

\* An exception between two stages (slot ownership lost, a raising agent or store).
Fails ==
    /\ run.pc \notin {"exit", "done", "doctored"}
    /\ Returns("ERROR", [rec EXCEPT !.error = <<run.pc>>])
    /\ odd' = IF run.pc = "st9" THEN odd \cup {"error_at_submit"} ELSE odd
    /\ UNCHANGED ledger
\* Read 1 of an admission, or the lifecycle at the beginning and at the end, after T_h; the halt
\* may not be confirmed (_halt_run).
Halted ==
    /\ \/ run.pc = "session" \/ run.pc = "finish"
       \/ run.pc \in {"manage", "st7"} /\ run.enabled
       \/ run.pc = "st9"
    /\ LET kind == CASE run.pc \in {"session", "finish"} -> "run_lifecycle" [] run.pc = "manage" -> "management"
                     [] run.pc = "st7" -> "pending_fill" [] run.pc = "st9" -> "submit"
           r == [rec EXCEPT !.halt = <<[kind |-> kind, stage |-> "read1"]>>] IN
       \/ Returns("HALTED", r) /\ UNCHANGED odd
       \/ Returns("HALT_UNCONFIRMED", r) /\ odd' = odd \cup {"unconfirmed"}
    /\ UNCHANGED ledger
HaltAtRead2(r, kind) == Returns("HALTED", [r EXCEPT !.halt = <<[kind |-> kind, stage |-> "read2"]>>])

-----------------------------------------------------------------------------
\* The stages.

\* EXIT_SESSION, EXIT_NO_PROVIDER / EXIT_PROVIDER_ERROR, then the data verdict.
Session ==
    /\ run.pc = "session"
    /\ \/ Exit([rec EXCEPT !.session = <<"out">>], "session", "SESSION_SKIPPED")
       \/ Exit(rec, "provider", "NO_DATA")
       \/ Go("data") /\ UNCHANGED rec
    /\ UNCHANGED <<ledger, odd>>
\* ST1 and DATA; an ingestion that failed blocks the paper economics in scope only.
Data ==
    /\ run.pc = "data"
    /\ \/ Exit([rec EXCEPT !.data = <<FALSE>>], "data", "STALE_DATA")
       \/ /\ rec' = [rec EXCEPT !.data = <<TRUE>>]
          /\ \E b \in (IF run.path = "CATCH_UP" THEN {"NONE", "EVIDENCE_UNAVAILABLE"} ELSE {"NONE"}),
                newest \in (IF run.enabled THEN Bars ELSE {run.bar}) :
               run' = [run EXCEPT !.pc = "manage", !.blocked = b, !.bar = newest]
    /\ UNCHANGED <<ledger, odd>>

\* _enforce_trade_duration closes the position before the management: a write of no stage.
Duration ==
    /\ run.pc = "manage" /\ run.enabled /\ run.blocked = "NONE" /\ ledger.pos # NoPos /\ rec.st2 = <<>>
    /\ ledger' = [ledger EXCEPT !.realized = @ + Unrealized(ledger.pos), !.pos = NoPos]
    /\ rec' = Write(rec, "NONE", <<>>, ledger, ledger', <<"POSITION_CLOSED">>)
    /\ odd' = odd \cup {"duration"} /\ UNCHANGED run

\* ST2L: manage_positions on the newest bar, saved when a position was open.
ManageLegacy ==
    /\ run.pc = "manage" /\ run.path = "LEGACY"
    /\ LET had == ledger.pos # NoPos
           r == [rec EXCEPT !.st2 = <<[had |-> had, enabled |-> run.enabled]>>]
           done == ProcessBar(ledger, run.bar, MaxBars) IN
       IF run.enabled /\ had
       THEN \/ /\ ledger' = done.s /\ Go("st3") /\ UNCHANGED odd
               /\ rec' = Write(r, "ST2L", [bar |-> run.bar, t |-> MaxBars], ledger, done.s, done.events)
            \/ HaltAtRead2(r, "management") /\ odd' = odd \cup {"halt_at_management"} /\ UNCHANGED ledger
       ELSE Go("st3") /\ rec' = r /\ UNCHANGED <<ledger, odd>>
\* ST2C: catch_up_position, one observation and one write for each bar.
ManageBar ==
    /\ run.pc = "manage" /\ run.path # "LEGACY" /\ run.enabled
    /\ run.path = "CATCH_UP" => run.blocked = "NONE"
    /\ ledger.pos # NoPos /\ run.left > 0
    /\ \E bar \in (IF run.left = 1 THEN {run.bar} ELSE Bars) :
         LET t == MaxBars - run.left + 1
             r == [rec EXCEPT !.st2 = Append(@, [bar |-> bar, t |-> t])]
             done == ProcessBar(ledger, bar, t) IN
         \/ /\ ledger' = done.s /\ run' = [run EXCEPT !.left = @ - 1] /\ UNCHANGED odd
            /\ rec' = Write(r, "ST2C", [bar |-> bar, t |-> t], ledger, done.s, done.events)
         \/ HaltAtRead2(r, "catch_up_bar") /\ UNCHANGED <<ledger, odd>>
ManageDone == run.pc = "manage" /\ run.path # "LEGACY" /\ Go("st3") /\ UNCHANGED <<ledger, rec, odd>>

\* ST3, ST4 and F1B: the decision equity, the floor and the quantity adapter.
Plans == [ordered : {TRUE}, rr : {MinRR}, declared : {MinRR, MinRR + 1}, cap : {3}, fx : {FALSE}]
         \cup [ordered : {TRUE}, rr : {2}, declared : {2}, cap : {3}, fx : {TRUE}]
NoPlan == [ordered |-> FALSE, rr |-> 0, declared |-> 0, cap |-> 0, fx |-> FALSE]
NoRisk == [status |-> "NONE", q |-> 0]
Floor ==
    /\ run.pc = "st3"
    /\ \E setup \in {"WATCH", "NO_PLAN", "PLAN"} : \E plan \in (IF setup = "PLAN" THEN Plans ELSE {NoPlan}) :
         LET eq == Equity(ledger)
             risk == CASE setup # "PLAN" -> NoRisk
                       [] plan.fx -> [status |-> "APPROVED", q |-> 2]         \* DEC-FX-SL-1
                       [] OTHER -> Evaluate(plan, eq)
             status == FloorStatus(setup, risk)
             r == [rec EXCEPT !.st3 = <<[eq |-> eq, pending |-> ledger.order.status = "PENDING"]>>,
                              !.st4 = <<[setup |-> setup, plan |-> plan, risk |-> risk, status |-> status, step |-> 0]>>] IN
         /\ \E step \in (IF risk.status = "APPROVED" THEN {0, 2, 4} ELSE {2}) :
              IF risk.status = "APPROVED" /\ step = 0
              THEN Returns("ERROR", [r EXCEPT !.error = <<"f1b">>])
              ELSE rec' = [r EXCEPT !.f1b = <<Increment(status, risk, step)>>, !.st4[1].step = step] /\ Go("ai")
         /\ odd' = IF plan.fx THEN odd \cup {"fx"} ELSE odd
    /\ UNCHANGED ledger

\* ST5: the AI floor with one observation of each agent's request, the reviewers' objections, and
\* the retry of a macro review without data, which observes every request a second time.
Matters(status) == status = "PLAN_READY" \/ ledger.order.status = "PENDING"
Ai ==
    /\ run.pc = "ai"
    /\ \E macro \in {"OK", "ERROR", "NO_DATA"}, trade \in {"OK", "ERROR"}, objects \in BOOLEAN, again \in BOOLEAN, usable \in BOOLEAN :
         LET status == rec.f1b[1].status
             plan == rec.st4[1].setup = "PLAN"
             final == AiStatus(status, objects)
             retry == macro = "NO_DATA" /\ Matters(status) IN
         /\ usable \/ macro = "NO_DATA"
         /\ ~plan => trade = "OK"
         /\ objects => plan /\ trade = "OK"
         /\ again => retry
         /\ rec' = [rec EXCEPT !.seen = <<[emitted |-> usable, times |-> IF again THEN 2 ELSE 1]>>,
                               !.st5 = <<[macro |-> macro, trade |-> trade, objects |-> objects, called |-> usable,
                                          plan |-> plan, status |-> final]>>]
         /\ run' = [run EXCEPT !.pc = "gate", !.retried = retry]
         /\ odd' = odd \cup (IF again THEN {"macro_retry"} ELSE {}) \cup (IF retry THEN {"macro_unhealthy"} ELSE {})
    /\ UNCHANGED ledger

\* ST6: freshness and session again, after the AI took its time.
Gate ==
    /\ run.pc = "gate"
    /\ \E open, fresh \in BOOLEAN :
         LET r == [rec EXCEPT !.st6 = <<[open |-> open, fresh |-> open /\ fresh,
                                         state |-> IF ~open THEN "SESSION_SKIPPED" ELSE IF fresh THEN "CURRENT" ELSE "STALE_DATA"]>>] IN
         IF open /\ fresh THEN Go("st7") /\ rec' = r ELSE Exit(r, "gate", r.st6[1].state)
    /\ UNCHANGED <<ledger, odd>>

Healthy(st5) == st5.macro = "OK"
NoteSt7(r, blocked) ==
    [r EXCEPT !.st7 = <<[path |-> IF run.path = "CATCH_UP" THEN "CATCH_UP" ELSE "LEGACY", enabled |-> run.enabled,
                         before |-> run.blocked, blocked |-> blocked, healthy |-> Healthy(rec.st5[1]),
                         status |-> rec.st5[1].status]>>]
\* ST7 outside the catch-up scope: pending orders on the newest bar, when the AI is healthy.
PendingLegacy ==
    /\ run.pc = "st7" /\ run.path # "CATCH_UP"
    /\ IF run.enabled /\ run.blocked = "NONE" /\ Healthy(rec.st5[1]) /\ rec.st5[1].status \notin Blocking
       THEN LET r == [rec EXCEPT !.pending = <<[kind |-> "orders", eq |-> Equity(ledger), passed |-> TRUE]>>]
                done == ProcessNextBar(ledger, run.bar, MaxBars) IN
            IF done.events = <<>> THEN Go("st8") /\ rec' = NoteSt7(r, run.blocked) /\ UNCHANGED ledger
            ELSE \/ /\ ledger' = done.s /\ Go("st8")
                    /\ rec' = NoteSt7(Write(r, "ST7", [bar |-> run.bar, t |-> MaxBars], ledger, done.s, done.events), run.blocked)
                 \/ HaltAtRead2(r, "pending_fill") /\ UNCHANGED ledger
       ELSE Go("st8") /\ rec' = NoteSt7(rec, run.blocked) /\ UNCHANGED ledger
    /\ UNCHANGED odd
\* ST7 in scope: the committed bar, CurrentCycleGate and gate_pending_orders.
PendingGated ==
    /\ run.pc = "st7" /\ run.path = "CATCH_UP"
    /\ LET passed == Healthy(rec.st5[1]) /\ rec.st5[1].status \notin Blocking
           noted(kind) == [rec EXCEPT !.pending = <<[kind |-> kind, eq |-> Equity(ledger), passed |-> passed]>>]
           st8(r, blocked) == run' = [run EXCEPT !.pc = "st8", !.blocked = blocked] /\ rec' = NoteSt7(r, blocked)
           done == ProcessNextBar(ledger, run.bar, MaxBars) IN
       IF ~run.enabled \/ run.blocked # "NONE" THEN st8(rec, run.blocked) /\ UNCHANGED <<ledger, odd>>
       ELSE \/ st8(rec, "EVIDENCE_UNAVAILABLE") /\ UNCHANGED <<ledger, odd>>           \* no committed bar
            \/ ledger.order.status # "PENDING" /\ st8(noted("gate"), "NONE") /\ UNCHANGED <<ledger, odd>>
            \/ /\ ledger.order.status = "PENDING"
               /\ \/ st8(noted("not_evaluated"), "NONE") /\ UNCHANGED <<ledger, odd>> /\ ~passed
                  \/ /\ passed /\ done.events # <<>> /\ UNCHANGED odd
                     /\ \/ /\ ledger' = done.s
                           /\ st8(Write(noted("pending_gate"), "ST7", [bar |-> run.bar, t |-> MaxBars], ledger, done.s, done.events), "NONE")
                        \/ HaltAtRead2(noted("pending_gate"), "pending_gate") /\ UNCHANGED ledger
                  \/ /\ passed /\ done.events = <<>> /\ st8(noted("pending_gate"), "NONE") /\ UNCHANGED <<ledger, odd>>
                  \/ /\ st8(noted("gate"), "EVIDENCE_UNAVAILABLE")                       \* unreadable after the gate
                     /\ odd' = odd \cup {"evidence_at_gate"} /\ UNCHANGED ledger

\* Another writer of the same database.
ForeignWrite ==
    /\ run.pc \in {"st7", "st9"} /\ ledger.realized < 1 /\ ledger' = [ledger EXCEPT !.realized = @ + 1]
    /\ odd' = IF run.pc = "st7" THEN odd \cup {"foreign"} ELSE odd
    /\ UNCHANGED <<run, rec>>

\* ST8: paper_policy and the branches of the admission, in the code's order.
PaperPolicy(f1b, st5) ==
    st5.status = "PLAN_READY" /\ f1b.risk.status = "APPROVED" /\ st5.plan /\ Healthy(st5) /\ st5.trade = "OK"
Finish(r, status, reason) ==
    run' = [run EXCEPT !.pc = "finish"] /\ rec' = [r EXCEPT !.st10 = <<[status |-> status, reason |-> reason]>>]
Admission ==
    /\ run.pc = "st8"
    /\ LET f1b == rec.f1b[1]  st5 == rec.st5[1]
           eligible == PaperPolicy(f1b, st5)
           pend == ledger.order.status = "PENDING"  open == ledger.pos # NoPos
           r == [rec EXCEPT !.st8 = <<[eligible |-> eligible, enabled |-> run.enabled, blocked |-> run.blocked,
                                       pend |-> pend, open |-> open]>>]
           ready == f1b.status = "PLAN_READY" IN
       IF eligible /\ ~run.enabled THEN Finish(r, "SKIPPED", "PAPER_DIAGNOSTIC_BLOCKED") /\ UNCHANGED odd
       ELSE IF eligible /\ run.blocked # "NONE" THEN Finish(r, "SKIPPED", run.blocked) /\ UNCHANGED odd
       ELSE IF eligible /\ "duration" \in odd THEN Finish(r, "SKIPPED", "TRADE_DURATION_EXIT") /\ UNCHANGED odd
       ELSE \/ ready /\ Finish(r, "SKIPPED", "FRIDAY_FLATTEN_WINDOW") /\ odd' = odd \cup {"friday"}
            \/ /\ ready /\ run.enabled /\ run.blocked = "NONE" /\ open /\ ~pend        \* the opposite policy, if set
               /\ Finish(r, "SKIPPED", "OPPOSITE_POLICY") /\ odd' = odd \cup {"opposite"}
            \/ /\ UNCHANGED odd
               /\ IF eligible /\ ~pend /\ ~open THEN Go("st9") /\ rec' = r
                  ELSE Finish(r, "SKIPPED",
                              IF st5.status = "AI_CAUTION" THEN "AI_CAUTION"
                              ELSE IF eligible THEN IF pend THEN "PENDING_ORDER" ELSE "EXISTING_POSITION"
                              ELSE IF st5.status # "PLAN_READY" THEN st5.status
                              ELSE IF run.retried THEN "AI_REVIEW_UNHEALTHY" ELSE "POLICY_REVIEW_UNAVAILABLE")
    /\ UNCHANGED ledger
\* ST9: submit on a fresh load; refused when the state is not the one that was sized.
Submit ==
    /\ run.pc = "st9"
    /\ LET eq == Equity(ledger)
           stale == ledger.order.status = "PENDING" \/ ledger.pos # NoPos \/ eq # rec.st3[1].eq
           r == [rec EXCEPT !.recheck = <<[pend |-> ledger.order.status = "PENDING", open |-> ledger.pos # NoPos,
                                           eq |-> eq, decision |-> rec.st3[1].eq]>>]
           done == [ledger EXCEPT !.order = [status |-> "PENDING", asOf |-> MaxBars]] IN
       IF stale THEN Finish(r, "SKIPPED", "STALE_PAPER_STATE") /\ UNCHANGED ledger
       ELSE IF eq <= 0 \/ rec.f1b[1].risk.q <= 0 THEN Finish(r, "SKIPPED", "BROKER_DECLINED_PLAN") /\ UNCHANGED ledger
       ELSE \/ /\ ledger' = done
               /\ Finish(Write(r, "ST9", <<>>, ledger, done, <<"ORDER_SUBMITTED">>), "SUBMITTED", "ORDER_SUBMITTED")
            \/ HaltAtRead2(r, "submit") /\ UNCHANGED ledger
    /\ UNCHANGED odd
\* The run's lifecycle, or a store that could not write it.
Finished ==
    /\ run.pc = "finish" /\ \E v \in {rec.st5[1].status, "ERROR"} : Returns(v, rec)
    /\ UNCHANGED <<ledger, odd>>

-----------------------------------------------------------------------------
\* The oracle: rules written again from the record, then check_run.

One(stage) == Len(stage) = 1
\* manage_bar: levels are tried in the order gap stop, gap target, stop, target.
OManage(s, bar, t) ==
    LET p == s.pos
        far == IF p.side = "LONG" THEN <<bar.o <= p.stop, bar.o >= p.target, bar.l <= p.stop, bar.h >= p.target>>
                                  ELSE <<bar.o >= p.stop, bar.o <= p.target, bar.h >= p.stop, bar.l <= p.target>>
        price == <<bar.o, bar.o, p.stop, p.target>>
        event == <<"STOP_HIT", "TARGET_HIT", "STOP_HIT", "TARGET_HIT">>
        hits == {i \in 1..4 : far[i]} IN
    IF p = NoPos \/ t <= p.at THEN [s |-> s, events |-> <<>>]
    ELSE IF hits = {} THEN [s |-> [s EXCEPT !.pos.last = bar.c, !.pos.at = t], events |-> <<>>]
    ELSE LET i == CHOOSE x \in hits : \A y \in hits : x <= y IN
         [s |-> [s EXCEPT !.pos = NoPos,
                          !.realized = IF p.side = "LONG" THEN @ + price[i] - p.entry ELSE @ + p.entry - price[i]],
          events |-> <<event[i], "POSITION_CLOSED">>]
\* fill_gate, clause by clause.
OFill(s, bar, t) ==
    LET risk == bar.o - OrderStop  reward == OrderTarget - bar.o
        clauses == <<Equity(s) <= 0, risk <= 0, reward <= 0, reward < MinRR * risk, risk * RiskShare > Equity(s)>> IN
    IF s.order.status # "PENDING" \/ t <= s.order.asOf THEN [s |-> s, events |-> <<>>]
    ELSE IF \E i \in 1..5 : clauses[i] THEN [s |-> [s EXCEPT !.order.status = "REJECTED"], events |-> <<"ORDER_REJECTED">>]
    ELSE [s |-> [s EXCEPT !.order.status = "FILLED",
                          !.pos = [side |-> "LONG", entry |-> bar.o, stop |-> OrderStop, target |-> OrderTarget,
                                   last |-> bar.o, at |-> t]],
          events |-> <<"ORDER_FILLED", "POSITION_OPENED">>]
\* risk_v1, floor_status, quantity_adapter, ai_final_status, paper_policy.
ORisk(plan, eq) ==
    LET q == CHOOSE x \in {eq, plan.cap} : x <= eq /\ x <= plan.cap IN
    IF plan.ordered /\ plan.declared >= MinRR /\ plan.declared = plan.rr /\ eq > 0 /\ q > 0
    THEN [status |-> "APPROVED", q |-> q] ELSE [status |-> "REJECTED", q |-> 0]
OFloor(st4) ==
    IF st4.setup \in {"NO_SETUP", "WATCH"} THEN st4.setup
    ELSE IF st4.plan = NoPlan THEN "PLAN_UNAVAILABLE"
    ELSE IF st4.risk.status = "APPROVED" THEN "PLAN_READY" ELSE "RISK_REJECTED"
OAdapter(st4) ==
    IF st4.risk.status # "APPROVED" THEN [status |-> st4.status, risk |-> st4.risk]
    ELSE LET units == CHOOSE u \in 0..st4.risk.q : u * st4.step <= st4.risk.q /\ (u + 1) * st4.step > st4.risk.q IN
         IF units = 0 THEN [status |-> "RISK_REJECTED", risk |-> [status |-> "REJECTED", q |-> 0]]
         ELSE [status |-> st4.status, risk |-> [st4.risk EXCEPT !.q = units * st4.step]]
OFinal(f1b, st5) ==
    IF f1b.status = "PLAN_UNAVAILABLE" THEN "ERROR"
    ELSE IF f1b.status = "PLAN_READY" /\ st5.objects THEN "AI_CAUTION" ELSE f1b.status
OEligible(f1b, st5, final) ==
    /\ final = "PLAN_READY" /\ f1b.risk.status = "APPROVED" /\ st5.plan
    /\ \A got \in {st5.macro, st5.trade} : got = "OK"

WritesIn(stage) == SelectSeq(rec.writes, LAMBDA w : w.stage = stage)
\* _check_write_transition: the recorded post-state and events are those of the rule.
Transition(w, rule) ==
    LET got == IF rule = "manage" THEN OManage(w.pre, w.ctx.bar, w.ctx.t) ELSE OFill(w.pre, w.ctx.bar, w.ctx.t)
    IN  w.post = got.s /\ w.events = got.events

CheckManagement ==
    IF run.path = "LEGACY"
    THEN /\ rec.st2 = <<>> => WritesIn("ST2L") = <<>>
         /\ rec.st2 # <<>> => (WritesIn("ST2L") # <<>>) = (rec.st2[1].enabled /\ rec.st2[1].had)
         /\ \A i \in DOMAIN WritesIn("ST2L") :
              LET w == WritesIn("ST2L")[i] IN rec.st2[1].had = (w.pre.pos # NoPos) /\ Transition(w, "manage")
    ELSE LET ws == WritesIn("ST2C")
             refused == rec.halt # <<>> /\ rec.halt[1] = [kind |-> "catch_up_bar", stage |-> "read2"] IN
         /\ Len(rec.st2) = Len(ws) + (IF refused THEN 1 ELSE 0)
         /\ \A i \in DOMAIN ws : ws[i].ctx = rec.st2[i] /\ Transition(ws[i], "manage")
\* _check_provenance: every response has its one observed request, skipped only without evidence.
CheckProvenance(st5) ==
    /\ One(rec.seen) /\ rec.seen[1].times = 1 /\ rec.seen[1].emitted = st5.called
    /\ ~st5.called => st5.macro = "NO_DATA"
    /\ st5.plan = (rec.st4[1].plan # NoPlan)
CheckPending(final, healthy) ==
    LET st7 == rec.st7[1]  ws == WritesIn("ST7")
        may == st7.enabled /\ st7.before = "NONE" IN
    /\ \A i \in DOMAIN ws : Transition(ws[i], "fill")
    /\ IF st7.path = "LEGACY"
       THEN IF may /\ healthy /\ final \notin Blocking
            THEN One(rec.pending) /\ \A i \in DOMAIN ws : Equity(ws[i].pre) = rec.pending[1].eq
            ELSE rec.pending = <<>> /\ ws = <<>>
       ELSE IF ~may THEN rec.pending = <<>> /\ ws = <<>>
       ELSE IF rec.pending = <<>> THEN st7.blocked = "EVIDENCE_UNAVAILABLE" /\ ws = <<>>
       ELSE LET note == rec.pending[1] IN
            /\ note.passed = (healthy /\ final \notin Blocking)
            /\ note.kind = "gate" => ~rec.st3[1].pending /\ ws = <<>>
            /\ note.kind = "pending_gate" => note.passed
            /\ note.kind = "not_evaluated" => ~note.passed /\ ws = <<>>
\* _check_admission.
CheckAdmission(final, eligible, ended) ==
    LET st8 == rec.st8[1]  f1b == rec.f1b[1]  ws == WritesIn("ST9")
        submits == eligible /\ st8.enabled /\ st8.blocked = "NONE" /\ ~st8.pend /\ ~st8.open
        reason == IF eligible /\ ~st8.enabled THEN "PAPER_DIAGNOSTIC_BLOCKED"
                  ELSE IF eligible /\ st8.blocked # "NONE" THEN st8.blocked
                  ELSE IF final = "AI_CAUTION" THEN "AI_CAUTION"
                  ELSE IF eligible THEN IF st8.pend THEN "PENDING_ORDER" ELSE "EXISTING_POSITION"
                  ELSE IF final # "PLAN_READY" THEN final ELSE "POLICY_REVIEW_UNAVAILABLE"
        told(status, why) == rec.st10 = <<>> \/ rec.st10[1] = [status |-> status, reason |-> why] IN
    /\ ended \/ One(rec.st10)
    /\ IF ~submits THEN ws = <<>> /\ rec.recheck = <<>> /\ told("SKIPPED", reason)
       ELSE IF rec.recheck = <<>> THEN ws = <<>> /\ rec.halt # <<>> /\ rec.halt[1].kind = "submit"
       ELSE LET re == rec.recheck[1]
                refused == re.pend \/ re.open \/ re.eq # re.decision
                declined == re.eq <= 0 \/ f1b.risk.q <= 0 IN
            IF ws = <<>> THEN /\ told("SKIPPED", IF refused THEN "STALE_PAPER_STATE" ELSE "BROKER_DECLINED_PLAN")
                              /\ (refused \/ declined \/ rec.st10 = <<>>)
            ELSE /\ ~refused /\ told("SUBMITTED", "ORDER_SUBMITTED") /\ ~declined
                 /\ \A i \in DOMAIN ws : /\ Equity(ws[i].pre) = re.eq
                                        /\ ws[i].post = [ws[i].pre EXCEPT !.order = [status |-> "PENDING", asOf |-> MaxBars]]
                                        /\ ws[i].events = <<"ORDER_SUBMITTED">>

Ended == rec.error # <<>> \/ rec.halt # <<>>
Terminal == IF rec.halt # <<>> THEN "HALTED" ELSE "ERROR"
Cut == Ended /\ rec.returned = Terminal
\* _check_run from ST3 on; a stage may be missing only in a run that was cut.
CheckDecision ==
    IF rec.st3 = <<>> \/ rec.st4 = <<>> THEN Cut
    ELSE LET st4 == rec.st4[1] IN
    /\ \A i \in DOMAIN rec.writes : i = Len(rec.writes) => Equity(rec.writes[i].post) = rec.st3[1].eq
    /\ st4.status = OFloor(st4)
    /\ st4.plan # NoPlan => ~st4.plan.fx /\ st4.risk = ORisk(st4.plan, rec.st3[1].eq)
    /\ IF st4.risk.status = "APPROVED" /\ st4.step = 0 THEN rec.f1b = <<>> /\ rec.error # <<>> /\ rec.returned = "ERROR"
       ELSE /\ One(rec.f1b) /\ rec.f1b[1] = OAdapter(st4)
            /\ IF rec.st5 = <<>> THEN Cut
               ELSE LET f1b == rec.f1b[1]  st5 == rec.st5[1]  final == OFinal(f1b, st5)
                        eligible == OEligible(f1b, st5, final)  healthy == st5.macro = "OK" IN
               /\ CheckProvenance(st5) /\ st5.status = final
               /\ IF rec.st6 = <<>> THEN Cut
                  ELSE LET st6 == rec.st6[1] IN
                  /\ ~st6.open => st6.state = "SESSION_SKIPPED" /\ ~st6.fresh
                  /\ IF ~st6.fresh
                     THEN One(rec.exit) /\ rec.returned = st6.state /\ WritesIn("ST7") = <<>> /\ WritesIn("ST9") = <<>>
                     ELSE IF rec.st7 = <<>> THEN Cut
                     ELSE /\ rec.st7[1].healthy = healthy /\ rec.st7[1].status = final /\ CheckPending(final, healthy)
                          /\ IF rec.st8 = <<>> THEN Cut
                             ELSE /\ rec.st8[1].eligible = eligible
                                  /\ CheckAdmission(final, eligible, Ended)
                                  /\ ~Ended => rec.returned \in {final, "ERROR"}
CheckRun ==
    /\ ~(rec.error # <<>> /\ rec.halt # <<>>)
    /\ rec.halt # <<>> => rec.returned = "HALTED"
    /\ \A i \in DOMAIN rec.writes : rec.writes[i].stage \in {"ST2L", "ST2C", "ST7", "ST9"}    \* _check_unconsumed
    /\ IF rec.exit # <<>> /\ rec.exit[1].at \in {"session", "provider"}
       THEN rec.returned = (IF rec.halt # <<>> THEN "HALTED" ELSE rec.exit[1].value) /\ rec.writes = <<>>
       ELSE IF rec.data = <<>> THEN Cut /\ rec.writes = <<>>
       ELSE IF ~rec.data[1]
       THEN One(rec.exit) /\ rec.returned = (IF rec.halt # <<>> THEN "HALTED" ELSE rec.exit[1].value) /\ rec.writes = <<>>
       ELSE CheckManagement /\ CheckDecision

-----------------------------------------------------------------------------
\* A record that says something other than what happened: a decision missing, or another one.
Drop(stage) == rec[stage] # <<>> /\ rec' = [rec EXCEPT ![stage] = <<>>]
Doctored ==
    /\ run.pc = "done" /\ odd = {} /\ ~Ended /\ rec.returned # "ERROR"
    /\ run' = [run EXCEPT !.pc = "doctored"]
    /\ \/ \E stage \in {"st3", "st4", "f1b", "seen", "st5", "st6", "st7", "st8", "recheck", "st10"} : Drop(stage)
       \/ \E i \in DOMAIN rec.writes : rec' = [rec EXCEPT !.writes[i].post.realized = @ + 1]
       \/ rec.st4 # <<>> /\ rec.st4[1].plan # NoPlan /\ rec' = [rec EXCEPT !.st4[1].risk.q = @ + 1]
       \/ rec.f1b # <<>> /\ rec' = [rec EXCEPT !.f1b[1].risk.q = @ + 1]
       \/ rec.st5 # <<>> /\ rec' = [rec EXCEPT !.st5[1].status = IF @ = "WATCH" THEN "PLAN_READY" ELSE "WATCH"]
       \/ rec.st7 # <<>> /\ rec' = [rec EXCEPT !.st7[1].healthy = ~@]
       \/ rec.st8 # <<>> /\ rec' = [rec EXCEPT !.st8[1].eligible = ~@]
       \/ rec.st10 # <<>> /\ rec' = [rec EXCEPT !.st10[1].reason = "OTHER"]
    /\ UNCHANGED <<ledger, odd>>

ReNext ==
    \/ Session \/ Data \/ Duration \/ ManageLegacy \/ ManageBar \/ ManageDone \/ Floor \/ Ai \/ Gate
    \/ PendingLegacy \/ PendingGated \/ ForeignWrite \/ Admission \/ Submit \/ Finished
    \/ NotedExit \/ Fails \/ Halted \/ Doctored
ReSpec == ReInit /\ [][ReNext]_reVars

-----------------------------------------------------------------------------
\* check_run returns PASS for every run the runtime really made, wherever an error, a refused
\* admission or a store that does not answer cut it, unless the run took a branch the oracle has
\* no rule for (odd); and FAIL for every record in which a decision is missing or is another one.
OracleExact ==
    /\ run.pc = "done" /\ odd = {} => CheckRun
    /\ run.pc = "doctored" => ~CheckRun
=============================================================================
