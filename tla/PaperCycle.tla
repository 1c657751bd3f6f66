----------------------------- MODULE PaperCycle -----------------------------
(***************************************************************************)
(* The paper engine on its default route: cycles, the out-of-session pass  *)
(* and the flattening of paused symbols (runtime/service.py) over the      *)
(* account of storage/database.py, by one runtime under the lock of        *)
(* cloud_runner.py or by several that share the database.                  *)
(*                                                                         *)
(* Every economic write loads the account, computes, and saves in one      *)
(* transaction that compares the account with the loaded one; here Load    *)
(* and Save. One 5-minute bar stands for those of a slot: bar b is the     *)
(* newest one closed at slot b, its timestamp is inside (b-1, b).          *)
(*                                                                         *)
(* Definitions named X_Y and marked "mutant" are faulty forms of X that a  *)
(* property is expected to catch; nothing else refers to them.             *)
(***************************************************************************)
EXTENDS Naturals

CONSTANTS
    Proc,       \* runtime processes
    Symbol,     \* enabled symbols
    Paused,     \* PAUSED_SYMBOLS that are enabled
    MaxSlot,    \* bound: last 15-minute slot
    Session,    \* slots inside a trading session
    Weekend,    \* slots from the Friday flatten to the Sunday open
    Equity,     \* values of the account equity
    RecoverAll, \* TRUE: start-up recovers every RUNNING run; FALSE: those that look old
    MaxCrashes, \* bound: crashes of processes
    Flat,       \* no open position
    NoPaper,    \* nothing loaded
    NoSlot      \* no slot

ASSUME SetsAssumption ==
    /\ MaxSlot \in Nat /\ MaxCrashes \in Nat
    /\ Paused \subseteq Symbol
    /\ Session \subseteq 0..MaxSlot /\ Weekend \subseteq 0..MaxSlot
    /\ RecoverAll \in BOOLEAN
ASSUME NullAssumption == NoSlot \notin 0..MaxSlot

VARIABLES
    paper,      \* the durable account: orders, open positions, closed trades, equity
    runs,       \* symbol -> slot -> status of its run
    lock,       \* symbol -> slot of the run that holds symbol_locks
    now,        \* wall clock, in slots
    task,       \* process -> what it is doing (its locals)
    crashes     \* observer of the bound MaxCrashes

vars == <<paper, runs, lock, now, task, crashes>>

Ledger == INSTANCE PaperLedger WITH
    order <- paper.order, position <- paper.position, trades <- paper.trades

Slot == 0..MaxSlot
Paper == [order : [Symbol -> [Slot -> Ledger!OrderStatus]],
          position : [Symbol -> Ledger!Position \cup {Flat}],
          trades : [Symbol -> [Slot -> Nat]],
          equity : Equity]
ASSUME FlatAssumption == Flat \notin Ledger!Position
ASSUME LoadedAssumption == NoPaper \notin Paper

PendingIn(h, s) == {t \in Slot : h.order[s][t] = "PENDING"}

-----------------------------------------------------------------------------
\* The week rule (trade_duration.py). The bound stands for a later week.

Min(a, b) == IF a < b THEN a ELSE b

FlattenFrom(t) ==
    IF \E w \in Weekend : w >= t
    THEN CHOOSE w \in Weekend : w >= t /\ \A v \in Weekend : v >= t => w <= v
    ELSE MaxSlot + 1

\* hold_boundary of a submission at slot t: due at once inside the weekend,
\* else at the next Friday flatten.
OrderBoundary(t) == FlattenFrom(t)

\* hold_boundary of a fill at the timestamp of bar f.
PositionBoundary(f) == IF f > 0 /\ f - 1 \in Weekend THEN f ELSE FlattenFrom(f)

DueIn(h, s, slot) == {t \in PendingIn(h, s) : OrderBoundary(t) <= slot}
OverdueIn(h, s, slot) == h.position[s] # Flat /\ PositionBoundary(h.position[s].opened) <= slot

-----------------------------------------------------------------------------
\* Tasks. A task is one scheduler tick; the fields below todo are the locals of
\* the operation it is in.

Stages == {"down", "idle", "tick", "data", "duration", "catch_up", "bar", "close", "cancel",
           "size", "gate", "fill", "choose", "submit", "finish", "fail",
           "pause_cancel", "pause_close"}

Task == [stage : Stages,
         slot : Slot \cup {NoSlot},             \* slot of the tick
         todo : SUBSET Symbol,                   \* symbols the tick has still to serve
         due : SUBSET Symbol,                    \* with due orders, as read when the pass began
         over : SUBSET Symbol,                   \* with an overdue position, likewise
         sym : Symbol \cup {NoSlot},
         cycle : BOOLEAN,                        \* run_cycle, which owns a run, or a keyless pass
         data : Slot \cup {NoSlot},             \* newest bar of the snapshot
         held : Paper \cup {NoPaper},           \* account loaded by the write under way
         stale : BOOLEAN,                        \* one attempt of this write was stale
         pos : Slot \cup {NoSlot},              \* run of the position being closed
         upto : 0..(MaxSlot + 1),                \* last bar of this catch-up
         bar : Nat,                              \* next bar of this catch-up
         then : Stages,                          \* where this catch-up leads
         blocked : BOOLEAN,                      \* paper_blocked
         acted : BOOLEAN,                        \* duration_closed
         entry : BOOLEAN,                        \* the cycle may submit its plan
         sized : Equity \cup {NoSlot}]          \* decision_equity

Resting == [stage |-> "idle", slot |-> NoSlot, todo |-> {}, due |-> {}, over |-> {}, sym |-> NoSlot,
            cycle |-> FALSE, data |-> NoSlot, held |-> NoPaper, stale |-> FALSE, pos |-> NoSlot,
            upto |-> 0, bar |-> 0, then |-> "idle", blocked |-> FALSE, acted |-> FALSE,
            entry |-> FALSE, sized |-> NoSlot]
Down == [Resting EXCEPT !.stage = "down"]

\* The operation of this symbol is over: back to the loop of the tick.
Served(t) == [Resting EXCEPT !.stage = "tick", !.slot = t.slot, !.todo = t.todo,
                             !.due = t.due, !.over = t.over]
At(t, stage) == [t EXCEPT !.stage = stage, !.held = NoPaper, !.stale = FALSE]
\* Catch-up of every bar up to a moment, then on to a stage.
CatchUpTo(t, goal, stage) ==
    [At(t, "catch_up") EXCEPT !.upto = Min(goal, t.data), !.then = stage]

Owns(p) == /\ runs[task[p].sym][task[p].slot] = "RUNNING"
           /\ lock[task[p].sym] = task[p].slot

-----------------------------------------------------------------------------
\* What a write computes from the account it loaded: the set of results, empty
\* when there is nothing to save. Prices are the choice.

\* close_position: the trade is booked, the position removed, equity recomputed.
Booked(h, s) ==
    {[h EXCEPT !.position[s] = Flat, !.trades[s][h.position[s].run] = @ + 1, !.equity = e] :
        e \in Equity}

BarResults_NoWatermark(h, s, b) ==   \* mutant: the bar is not compared with the watermark
    IF h.position[s] = Flat THEN {}
    ELSE {[h EXCEPT !.position[s].mark = b, !.equity = e] : e \in Equity} \cup Booked(h, s)

\* process_bar on a position that has not seen the bar: marked, or stopped out.
BarResults(h, s, b) ==
    IF h.position[s] = Flat THEN {}
    ELSE IF b <= h.position[s].mark THEN {}
    ELSE {[h EXCEPT !.position[s].mark = b, !.equity = e] : e \in Equity} \cup Booked(h, s)

\* _duration_write: only the position that was read.
CloseResults(h, s, run) ==
    IF h.position[s] = Flat THEN {} ELSE IF h.position[s].run # run THEN {} ELSE Booked(h, s)

\* _close_paused: never on a bar older than the watermark.
PauseCloseResults(h, s, data) ==
    IF h.position[s] = Flat THEN {}
    ELSE IF data < h.position[s].mark THEN {}
    ELSE Booked(h, s)

CancelResults(h, s, due) ==
    IF due = {} THEN {}
    ELSE {[h EXCEPT !.order[s] = [t \in Slot |-> IF t \in due THEN "CANCELLED" ELSE @[t]]]}

\* process_next_bar with the newest bar. At most one order is pending (OneExposure).
FillResults(h, s, b) ==
    UNION {{[h EXCEPT !.order[s][t] = "REJECTED"],
            [h EXCEPT !.order[s][t] = "FILLED",
                      !.position[s] = [run |-> t, opened |-> b, mark |-> b]]} :
             t \in {u \in PendingIn(h, s) : b > u}}

SubmitResults_StaleSize(h, s, t, sized) ==   \* mutant: equity is not compared
    IF PendingIn(h, s) # {} \/ h.position[s] # Flat \/ h.order[s][t] # "NONE"
    THEN {} ELSE {[h EXCEPT !.order[s][t] = "PENDING"]}

\* submit: refused when the symbol is taken or equity is not what risk was sized on.
SubmitResults(h, s, t, sized) ==
    IF PendingIn(h, s) # {} \/ h.position[s] # Flat \/ h.equity # sized \/ h.order[s][t] # "NONE"
    THEN {}
    ELSE {[h EXCEPT !.order[s][t] = "PENDING"]}

Results(t, h) ==
    CASE t.stage = "bar"          -> BarResults(h, t.sym, t.bar)
      [] t.stage = "close"        -> CloseResults(h, t.sym, t.pos)
      [] t.stage = "cancel"       -> CancelResults(h, t.sym, DueIn(h, t.sym, t.slot))
      [] t.stage = "fill"         -> FillResults(h, t.sym, t.data)
      [] t.stage = "submit"       -> SubmitResults(h, t.sym, t.slot, t.sized)
      [] t.stage = "pause_cancel" -> CancelResults(h, t.sym, PendingIn(h, t.sym))
      [] t.stage = "pause_close"  -> PauseCloseResults(h, t.sym, t.data)
      [] OTHER                    -> {}

Writes == {"bar", "close", "cancel", "fill", "submit", "pause_cancel", "pause_close"}

-----------------------------------------------------------------------------
\* Where a task goes when a write is through (saved, or nothing to save), and when
\* both attempts were stale.

AfterWrite(t, h) ==
    CASE t.stage = "bar"          -> IF h.position[t.sym] = Flat \/ t.bar = t.upto THEN At(t, t.then)
                                     ELSE [At(t, "bar") EXCEPT !.bar = @ + 1, !.stale = t.stale]
      [] t.stage = "close"        -> At(t, "duration")
      [] t.stage = "cancel"       -> IF t.cycle THEN CatchUpTo(t, t.slot, "size")
                                     ELSE IF t.sym \in t.over THEN At(t, "duration") ELSE Served(t)
      [] t.stage = "fill"         -> At(t, "choose")
      [] t.stage = "submit"       -> At(t, "finish")
      [] t.stage = "pause_cancel" -> IF t.pos = NoSlot THEN Served(t) ELSE CatchUpTo(t, t.slot, "pause_close")
      [] OTHER                    -> Served(t)

\* A stale duration rule or cancel blocks the rest of the economics of a cycle, but
\* not the catch-up to its slot.
Blocked(t) == [CatchUpTo(t, t.slot, "size") EXCEPT !.blocked = TRUE]

AfterStale(t) ==
    CASE t.stage = "bar" /\ t.then = "size" -> [At(t, "size") EXCEPT !.blocked = TRUE]
      [] t.stage = "fill"                   -> At(t, "fail")
      [] t.stage = "submit"                 -> At(t, "finish")
      [] t.stage = "cancel" /\ ~t.cycle     -> AfterWrite(t, NoPaper)
      [] OTHER                              -> IF t.cycle THEN Blocked(t) ELSE Served(t)

\* Nothing to save. A catch-up ends there: closed, or progressed by another writer.
WithoutWrite(t, h) == IF t.stage = "bar" THEN At(t, t.then) ELSE AfterWrite(t, h)

\* First half of a write: load and compute.
Load(p) ==
    LET t == task[p] IN
    /\ t.stage \in Writes /\ t.held = NoPaper
    /\ task' = [task EXCEPT ![p] = IF Results(t, paper) = {} THEN WithoutWrite(t, paper)
                                   ELSE [t EXCEPT !.held = paper]]
    /\ UNCHANGED <<paper, runs, lock, now, crashes>>

SavePaper_Blind(p) ==   \* mutant: no comparison with the loaded account
    LET t == task[p] IN
    /\ t.cycle => Owns(p)
    /\ paper' \in Results(t, t.held)

SavePaper_AnyRun(p) ==   \* mutant: the ownership of the run is not checked
    LET t == task[p] IN
    /\ paper = t.held
    /\ paper' \in Results(t, t.held)

\* save_paper: in one transaction the ownership of the run, the comparison with the
\* loaded account, and the write.
SavePaper(p) ==
    LET t == task[p] IN
    /\ t.cycle => Owns(p)
    /\ paper = t.held
    /\ paper' \in Results(t, t.held)

Save(p) ==
    LET t == task[p] IN
    /\ t.stage \in Writes /\ t.held # NoPaper
    /\ SavePaper(p)
    /\ task' = [task EXCEPT ![p] = [AfterWrite(t, paper') EXCEPT !.acted = @ \/ t.stage = "close"]]
    /\ UNCHANGED <<runs, lock, now, crashes>>

\* The account has moved: one more attempt from fresh state (a catch-up starts again
\* at the durable watermark), then the write is given up.
Stale(p) ==
    LET t == task[p] IN
    /\ t.stage \in Writes /\ t.held # NoPaper
    /\ t.cycle => Owns(p)
    /\ paper # t.held
    /\ task' = [task EXCEPT ![p] =
         IF t.stale THEN AfterStale(t)
         ELSE [t EXCEPT !.held = NoPaper, !.stale = TRUE,
                        !.stage = IF t.stage = "bar" THEN "catch_up" ELSE @]]
    /\ UNCHANGED <<paper, runs, lock, now, crashes>>

\* save_paper raises without ownership: the cycle fails.
NotOwner(p) ==
    LET t == task[p] IN
    /\ t.stage \in Writes /\ t.held # NoPaper
    /\ t.cycle /\ ~Owns(p)
    /\ task' = [task EXCEPT ![p] = At(t, "fail")]
    /\ UNCHANGED <<paper, runs, lock, now, crashes>>

-----------------------------------------------------------------------------
\* Catch-up and the duration rule, shared by cycles and passes.

CatchUp_OneMore(p) ==   \* mutant: one bar too many
    LET t == task[p] IN
    /\ t.stage = "catch_up"
    /\ LET position == paper.position[t.sym] IN
       task' = [task EXCEPT ![p] =
         IF position = Flat \/ position.mark > t.upto THEN At(t, t.then)
         ELSE [t EXCEPT !.stage = "bar", !.bar = position.mark + 1]]
    /\ UNCHANGED <<paper, runs, lock, now, crashes>>

CatchUp_OneLess(p) ==   \* mutant: the last bar before the moment is left out
    LET t == task[p] IN
    /\ t.stage = "catch_up"
    /\ LET position == paper.position[t.sym] IN
       task' = [task EXCEPT ![p] =
         IF position = Flat \/ position.mark + 1 >= t.upto THEN At(t, t.then)
         ELSE [t EXCEPT !.stage = "bar", !.bar = position.mark + 1, !.upto = t.upto - 1]]
    /\ UNCHANGED <<paper, runs, lock, now, crashes>>

\* catch_up_position: the bars after the watermark, as it is now.
CatchUp(p) ==
    LET t == task[p] IN
    /\ t.stage = "catch_up"
    /\ LET position == paper.position[t.sym] IN
       task' = [task EXCEPT ![p] =
         IF position = Flat THEN At(t, t.then)
         ELSE IF position.mark >= t.upto THEN At(t, t.then)
         ELSE [t EXCEPT !.stage = "bar", !.bar = position.mark + 1]]
    /\ UNCHANGED <<paper, runs, lock, now, crashes>>

\* price_bar: the snapshot holds a bar that ends after the fill.
Priced(position, data) == data >= position.opened

Duration_ToSlot(p) ==   \* mutant: managed up to the slot before it is closed
    LET t == task[p] IN
    /\ t.stage = "duration"
    /\ task' = [task EXCEPT ![p] =
         IF OverdueIn(paper, t.sym, t.slot) /\ Priced(paper.position[t.sym], t.data)
         THEN [CatchUpTo(t, t.slot, "close") EXCEPT !.pos = paper.position[t.sym].run]
         ELSE IF t.cycle THEN At(t, "cancel") ELSE Served(t)]
    /\ UNCHANGED <<paper, runs, lock, now, crashes>>

\* _enforce_trade_duration: an overdue position is first managed up to its boundary;
\* without a bar after its fill there is no price to close it at (and none to apply).
\* The loop of three rounds ends earlier: a round closes the position it read.
Duration(p) ==
    LET t == task[p] IN
    /\ t.stage = "duration"
    /\ task' = [task EXCEPT ![p] =
         IF OverdueIn(paper, t.sym, t.slot) /\ Priced(paper.position[t.sym], t.data)
         THEN [CatchUpTo(t, PositionBoundary(paper.position[t.sym].opened), "close")
               EXCEPT !.pos = paper.position[t.sym].run]
         ELSE IF t.cycle THEN At(t, "cancel") ELSE Served(t)]
    /\ UNCHANGED <<paper, runs, lock, now, crashes>>

-----------------------------------------------------------------------------
\* The tick of the scheduler (Scheduler.tick).

StartTick_InSession(p) ==   \* mutant: nothing is managed out of session
    /\ task[p].stage = "idle"
    /\ task' = [task EXCEPT ![p] = [@ EXCEPT !.stage = "tick", !.slot = now,
                                            !.todo = IF now \in Session THEN Symbol ELSE {}]]
    /\ UNCHANGED <<paper, runs, lock, now, crashes>>

StartTick(p) ==
    LET due == {s \in Symbol \ Paused : DueIn(paper, s, now) # {}}
        over == {s \in Symbol \ Paused : OverdueIn(paper, s, now)} IN
    /\ task[p].stage = "idle"
    /\ task' = [task EXCEPT ![p] =
         [@ EXCEPT !.stage = "tick", !.slot = now,
                   !.todo = IF now \in Session THEN Symbol ELSE Paused \cup due \cup over,
                   !.due = IF now \in Session THEN {} ELSE due,
                   !.over = IF now \in Session THEN {} ELSE over]]
    /\ UNCHANGED <<paper, runs, lock, now, crashes>>

EndTick(p) ==
    /\ task[p].stage = "tick" /\ task[p].todo = {}
    /\ task' = [task EXCEPT ![p] = Resting]
    /\ UNCHANGED <<paper, runs, lock, now, crashes>>

Serve(p, s) ==
    /\ task[p].stage = "tick" /\ s \in task[p].todo

\* load_snapshot fails, or gives the closed bars up to one of these slots.
Snapshots(slot) == {NoSlot} \cup 0..slot

\* _close_paused: orders and position are read once.
StartPaused(p, s) ==
    LET t == [task[p] EXCEPT !.todo = @ \ {s}, !.sym = s]
        open == paper.position[s] # Flat IN
    /\ Serve(p, s) /\ s \in Paused
    /\ \E data \in IF open THEN Snapshots(t.slot) ELSE {NoSlot} :
         task' = [task EXCEPT ![p] =
           IF PendingIn(paper, s) # {}
           THEN [At(t, "pause_cancel") EXCEPT !.data = data,
                                              !.pos = IF open /\ data # NoSlot THEN paper.position[s].run ELSE NoSlot]
           ELSE IF open /\ data # NoSlot
           THEN CatchUpTo([t EXCEPT !.data = data], t.slot, "pause_close")
           ELSE Served(t)]
    /\ UNCHANGED <<paper, runs, lock, now, crashes>>

\* manage_trade_duration of one symbol, out of session: no run, no lock. Whether
\* there is work was read when the pass began.
StartManage(p, s) ==
    LET t == [task[p] EXCEPT !.todo = @ \ {s}, !.sym = s] IN
    /\ Serve(p, s) /\ s \notin Paused /\ t.slot \notin Session
    /\ \E data \in IF s \in t.over THEN Snapshots(t.slot) ELSE {NoSlot} :
         LET u == [t EXCEPT !.data = data, !.over = IF data = NoSlot THEN @ \ {s} ELSE @] IN
         task' = [task EXCEPT ![p] =
           IF s \in u.due THEN At(u, "cancel")
           ELSE IF s \in u.over THEN At(u, "duration") ELSE Served(u)]
    /\ UNCHANGED <<paper, runs, lock, now, crashes>>

\* run_cycle of one symbol: claim_slot inserts the run and takes the symbol lock.
StartCycle(p, s) ==
    LET t == [task[p] EXCEPT !.todo = @ \ {s}, !.sym = s] IN
    /\ Serve(p, s) /\ t.todo \cap Paused = {} /\ s \notin Paused /\ t.slot \in Session
    /\ IF lock[s] = NoSlot /\ runs[s][t.slot] = "NONE"
       THEN /\ runs' = [runs EXCEPT ![s][t.slot] = "RUNNING"]
            /\ lock' = [lock EXCEPT ![s] = t.slot]
            /\ task' = [task EXCEPT ![p] = [At(t, "data") EXCEPT !.cycle = TRUE]]
       ELSE /\ task' = [task EXCEPT ![p] = Served(t)]   \* DUPLICATE
            /\ UNCHANGED <<runs, lock>>
    /\ UNCHANGED <<paper, now, crashes>>

-----------------------------------------------------------------------------
\* The rest of a cycle (_run_cycle).

\* Every way out before the economics ends in finish, an exception in FAILED. Market
\* data is fresh for a slot only while that slot lasts (max_age_seconds).
Data(p) ==
    LET t == task[p] IN
    /\ t.stage = "data"
    /\ \/ task' = [task EXCEPT ![p] = At(t, "finish")]
       \/ task' = [task EXCEPT ![p] = At(t, "fail")]
       \/ /\ now = t.slot /\ Owns(p)
          /\ task' = [task EXCEPT ![p] = [At(t, "duration") EXCEPT !.data = t.slot]]
    /\ UNCHANGED <<paper, runs, lock, now, crashes>>

\* decision_equity, on which risk sizes the plan.
Size(p) ==
    /\ task[p].stage = "size"
    /\ task' = [task EXCEPT ![p] = [At(@, "gate") EXCEPT !.sized = paper.equity]]
    /\ UNCHANGED <<paper, runs, lock, now, crashes>>

\* After the AI review: ownership, freshness and session once more. The review is a
\* choice; a plan may enter only outside the weekend, when nothing blocked the
\* economics and the cycle has not closed a position by time.
Gate(p) ==
    LET t == task[p] IN
    /\ t.stage = "gate"
    /\ \/ task' = [task EXCEPT ![p] = At(t, "fail")]
       \/ Owns(p) /\ task' = [task EXCEPT ![p] = At(t, "finish")]
       \/ /\ now = t.slot /\ Owns(p)
          /\ \E healthy, entry \in BOOLEAN :
               /\ entry => healthy /\ ~t.blocked /\ ~t.acted /\ now \notin Weekend
               /\ task' = [task EXCEPT ![p] =
                    [At(t, IF healthy /\ ~t.blocked THEN "fill" ELSE "choose") EXCEPT !.entry = entry]]
    /\ UNCHANGED <<paper, runs, lock, now, crashes>>

Choose(p) ==
    LET t == task[p] IN
    /\ t.stage = "choose"
    /\ task' = [task EXCEPT ![p] =
         IF t.entry /\ PendingIn(paper, t.sym) = {} /\ paper.position[t.sym] = Flat
         THEN At(t, IF Owns(p) THEN "submit" ELSE "fail")
         ELSE At(t, "finish")]
    /\ UNCHANGED <<paper, runs, lock, now, crashes>>

Finish_Unowned(p) ==   \* mutant: a run that lost its slot still ends it and unlocks
    LET t == task[p] IN
    /\ t.stage \in {"finish", "fail"}
    /\ runs' = [runs EXCEPT ![t.sym][t.slot] = IF t.stage = "finish" THEN "COMPLETED" ELSE "FAILED"]
    /\ lock' = [lock EXCEPT ![t.sym] = NoSlot]
    /\ task' = [task EXCEPT ![p] = Served(t)]
    /\ UNCHANGED <<paper, now, crashes>>

\* finish: only the run that still owns its slot is ended, with its lock.
Finish(p) ==
    LET t == task[p] IN
    /\ t.stage \in {"finish", "fail"}
    /\ IF Owns(p)
       THEN /\ runs' = [runs EXCEPT ![t.sym][t.slot] = IF t.stage = "finish" THEN "COMPLETED" ELSE "FAILED"]
            /\ lock' = [lock EXCEPT ![t.sym] = NoSlot]
       ELSE UNCHANGED <<runs, lock>>
    /\ task' = [task EXCEPT ![p] = Served(t)]
    /\ UNCHANGED <<paper, now, crashes>>

-----------------------------------------------------------------------------
\* Processes and time.

Crash(p) ==
    /\ task[p].stage # "down" /\ crashes < MaxCrashes
    /\ task' = [task EXCEPT ![p] = Down]
    /\ crashes' = crashes + 1
    /\ UNCHANGED <<paper, runs, lock, now>>

Running == {st \in Symbol \X Slot : runs[st[1]][st[2]] = "RUNNING"}

Start_KeepsLock(p) ==   \* mutant: recover fails the runs and leaves their locks
    /\ task[p].stage = "down"
    /\ \E dead \in IF RecoverAll THEN {Running} ELSE SUBSET Running :
         runs' = [s \in Symbol |-> [t \in Slot |-> IF <<s, t>> \in dead THEN "FAILED" ELSE runs[s][t]]]
    /\ task' = [task EXCEPT ![p] = Resting]
    /\ UNCHANGED <<paper, lock, now, crashes>>

\* Start of a process: recover fails the runs it takes for interrupted, with their
\* locks. Age cannot tell an interrupted run from a slow one of a live process.
Start(p) ==
    /\ task[p].stage = "down"
    /\ \E dead \in IF RecoverAll THEN {Running} ELSE SUBSET Running :
         /\ runs' = [s \in Symbol |-> [t \in Slot |-> IF <<s, t>> \in dead THEN "FAILED" ELSE runs[s][t]]]
         /\ lock' = [s \in Symbol |-> IF <<s, lock[s]>> \in dead THEN NoSlot ELSE lock[s]]
    /\ task' = [task EXCEPT ![p] = Resting]
    /\ UNCHANGED <<paper, now, crashes>>

Clock ==
    /\ now < MaxSlot
    /\ now' = now + 1
    /\ UNCHANGED <<paper, runs, lock, task, crashes>>

\* A symbol starts flat, or with the order or the position of an earlier run.
Init ==
    /\ \E first \in [Symbol -> {"NONE", "PENDING", "FILLED"}], e \in Equity :
         /\ paper = [order |-> [s \in Symbol |-> [t \in Slot |-> IF t = 0 THEN first[s] ELSE "NONE"]],
                     position |-> [s \in Symbol |-> IF first[s] = "FILLED"
                                                    THEN [run |-> 0, opened |-> 0, mark |-> 0] ELSE Flat],
                     trades |-> [s \in Symbol |-> [t \in Slot |-> 0]],
                     equity |-> e]
         /\ runs = [s \in Symbol |-> [t \in Slot |-> IF t = 0 /\ first[s] # "NONE" THEN "COMPLETED" ELSE "NONE"]]
    /\ lock = [s \in Symbol |-> NoSlot]
    /\ now = 0
    /\ task = [p \in Proc |-> Down]
    /\ crashes = 0

Step(p) ==
    \/ StartTick(p) \/ EndTick(p)
    \/ \E s \in Symbol : StartPaused(p, s) \/ StartManage(p, s) \/ StartCycle(p, s)
    \/ Data(p) \/ Duration(p) \/ CatchUp(p) \/ Size(p) \/ Gate(p) \/ Choose(p) \/ Finish(p)
    \/ Load(p) \/ Save(p) \/ Stale(p) \/ NotOwner(p)

Next ==
    \/ \E p \in Proc : Step(p) \/ Start(p) \/ Crash(p)
    \/ Clock

Spec == Init /\ [][Next]_vars

-----------------------------------------------------------------------------
\* Safety

\* Types of the account, the runs and the locals of every process.
TypeOK ==
    /\ paper \in Paper
    /\ runs \in [Symbol -> [Slot -> {"NONE", "RUNNING", "COMPLETED", "FAILED"}]]
    /\ lock \in [Symbol -> Slot \cup {NoSlot}]
    /\ now \in Slot
    /\ task \in [Proc -> Task]
    /\ crashes \in 0..MaxCrashes

\* Whatever the runtimes do, in whatever order, the account they share only takes the
\* steps of PaperLedger: no write undoes or repeats another (the compare of save_paper
\* under BEGIN IMMEDIATE, database.py:426).
LedgerKept == Ledger!LedgerSpec

\* A pending order never fills on a bar at or after the boundary that cancels it,
\* although the cancel may be stale, another run may be a zombie and the order may
\* have been submitted late (_cancel_due_orders before any fill, service.py:609).
FilledInTime ==
    [][\A s \in Symbol, t \in Slot :
         paper.order[s][t] = "PENDING" /\ paper'.order[s][t] = "FILLED"
           => paper'.position[s].opened < OrderBoundary(t)]_vars

\* An order enters the book only for the run that still owns the symbol, with the
\* equity its risk was sized on, and not for a weekend slot, however long the review
\* took and whoever wrote meanwhile (submit of _run_cycle, service.py:1384).
EntryIsCurrent ==
    [][\A s \in Symbol, t \in Slot :
         paper.order[s][t] = "NONE" /\ paper'.order[s][t] = "PENDING"
           => /\ lock[s] = t /\ runs[s][t] = "RUNNING" /\ t \notin Weekend
              /\ \E p \in Proc : task[p].sym = s /\ task[p].slot = t /\ task[p].sized = paper.equity]_vars

\* A position sees every bar once and in order, whoever applies them
\* (position_catch_up.py:139-144).
BarsInSequence ==
    [][\A s \in Symbol :
         paper.position[s] # Flat /\ paper'.position[s] # Flat /\ paper.position[s] # paper'.position[s]
           => paper'.position[s] = [paper.position[s] EXCEPT !.mark = @ + 1]]_vars

\* A symbol lock belongs to a RUNNING run of that symbol, and a RUNNING run has its
\* lock (claim_slot, finish and recover move both in one transaction).
LockIsOfRun ==
    \A s \in Symbol, t \in Slot : lock[s] = t <=> runs[s][t] = "RUNNING"

\* No bar after its boundary is applied to an open position that is not paused: the
\* rule closes it first (docstring of _enforce_trade_duration, service.py:543-545).
BoundaryFirst ==
    \A s \in Symbol \ Paused :
        paper.position[s] # Flat =>
            paper.position[s].mark <= PositionBoundary(paper.position[s].opened)

\* A position is closed by time only when every bar up to its boundary has been
\* applied: an earlier stop or target wins (same docstring).
EarlierStopWins ==
    [][\A p \in Proc :
         task[p].stage = "close" /\ Save(p) => paper.position[task[p].sym].mark >= task[p].upto]_vars

-----------------------------------------------------------------------------
\* Liveness. The runner loop and its supervisor keep the process going; the snapshot
\* of a pass does not lack the bars of its slot for ever.

Fairness ==
    /\ WF_vars(Clock)
    /\ \A p \in Proc :
         /\ WF_vars(Start(p))
         /\ WF_vars(Step(p))
         /\ \A s \in Symbol :
              /\ SF_vars(StartManage(p, s) /\ task'[p].data = task[p].slot)
              /\ SF_vars(StartPaused(p, s) /\ task'[p].data = task[p].slot)
LiveSpec == Spec /\ Fairness

\* An overdue position is closed in the end, across crashes, stale writes and
\* missing data (Scheduler.tick calls manage_trade_duration out of session).
OverdueClosed ==
    \A s \in Symbol \ Paused : OverdueIn(paper, s, now) ~> paper.position[s] = Flat

\* A paused symbol ends up flat (close_paused_symbols and the out-of-session pass).
PausedFlattened ==
    \A s \in Paused : <>[](PendingIn(paper, s) = {} /\ paper.position[s] = Flat)

\* No run keeps its symbol locked for ever: a crash cannot leave a symbol without
\* cycles (recovery with stale age 0 under the runner lock, cloud_runner.py:132).
LockReleased == \A s \in Symbol : lock[s] # NoSlot ~> lock[s] = NoSlot
=============================================================================
