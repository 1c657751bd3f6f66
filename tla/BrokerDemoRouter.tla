-------------------------- MODULE BrokerDemoRouter --------------------------
(***************************************************************************)
(* execution/broker_demo_router.py: one router process that mirrors        *)
(* approved paper plans on the OANDA practice account.  Every public entry *)
(* point runs under the router's lock, so the process is one program       *)
(* counter; the broker, the dashboard process and crashes move between any *)
(* two of its steps.  Durable state is the broker state database           *)
(* (execution/broker_demo_state.py); everything else is lost in a crash.   *)
(***************************************************************************)
EXTENDS Naturals, OandaAccount

CONSTANTS
    NoCid,         \* no client id
    NoReport,      \* no successful broker read this tick
    Inputs,        \* which optional inputs this instance exercises
    MaxEntries,    \* bound: client ids routed
    MaxBlocks,     \* bound: drift blocks raised (a block at the bound is not cleared)
    MaxRequests,   \* bound: emergency-button presses
    MaxCrashes     \* bound: process crashes

ASSUME NoCidAssumption == NoCid \notin Cid
ASSUME InputsAssumption ==
    Inputs \subseteq {"reversal", "breakeven", "sweeps", "emergency", "flatten", "manual",
                     "drift", "operator"}
ASSUME BoundsAssumption == {MaxEntries, MaxBlocks, MaxRequests, MaxCrashes} \subseteq Nat

VARIABLES
    \* durable: broker_demo_trades, broker_demo_flags, account registry
    status,      \* client id -> row status, NO_ROW before the intent
    latch,       \* client id -> pending_action while action_status = UNKNOWN
    day2,        \* client ids whose row is in stage DAY2_BREAKEVEN
    blocked,     \* blocked_reason
    episode,     \* drift_episode token, 0 when absent
    driftRequest,\* drift_clear_request: the episode it was made for
    flatten,     \* flatten_request value (press number), 0 if none
    manual,      \* manual_close_request: the client id, NoCid if none
    emergency,   \* registry emergency latch
    shown,       \* the episode the dashboard read and may still act on
    \* the running process
    pc,          \* next step of the tick, "down" without a process
    ret,         \* where a reconcile or a broker write call returns to
    op,          \* entry point of this tick
    cand,        \* candidate client id of this cycle
    report,      \* open trades of this tick's reconcile
    stops,       \* trades of that report whose stop is at breakeven
    book,        \* resting orders read this pass, NoReport when unread
    work,        \* rows left in the current loop
    skip,        \* rows already acted on this tick
    raw,         \* the flatten request this tick works for
    rev,         \* opposite row a reversal closes first
    call,        \* last broker write: kind, client id, answer
    closingOnly, \* emergency restart: closes, never opens
    \* observers, read by no action
    posts,       \* client id -> submit POSTs sent
    blocks,      \* drift blocks raised so far
    presses,     \* emergency-button presses so far
    crashes      \* crashes so far

rowVars == <<status, latch, day2>>
flagVars == <<blocked, episode, driftRequest, flatten, manual, emergency, shown>>
durableVars == <<rowVars, flagVars>>
tickVars == <<ret, op, cand, report, stops, book, work, skip, raw, rev, call>>
processVars == <<pc, tickVars, closingOnly>>
observerVars == <<posts, blocks, presses, crashes>>
vars == <<accountVars, durableVars, processVars, observerVars>>

Status == {"NO_ROW", "PENDING_SEND", "OPEN", "UNKNOWN", "REJECTED", "CLOSED",
           "CLOSED_AT_BROKER", "PENDING_LIMIT", "CANCELLED"}
UNRESOLVED_STATUSES == {"PENDING_SEND", "UNKNOWN"}
LIVE_STATUSES == {"PENDING_SEND", "OPEN", "UNKNOWN", "PENDING_LIMIT"}
BlockedReason == {"none", "drift", "unresolved_action"}
Latch == {"none", "CLOSE", "CANCEL", "MODIFY"}
Sweeps == {"flatten", "loss", "friday", "manage", "loss_gate"}
Pc == {"down", "idle", "requests", "rec_read", "rec_rows", "rec_block",
       "rec_clear", "sweep", "manual", "manual_go", "manual_done", "loss_check",
       "friday_check", "manage_check", "route", "admit", "size", "reversed",
       "flat", "intent", "gate", "post", "answer", "done"}

Rows(S) == {c \in Cid : status[c] \in S}
Live == Rows(LIVE_STATUSES)
\* Rows a sweep may act on: an UNKNOWN action is never stacked upon.
Actionable_Latched(S) == Rows(S)   \* mutant: the UNKNOWN latch is ignored
Actionable(S) == {c \in Rows(S) : latch[c] = "none"}
\* A drift episode as a request carries it; block is an observer: which block it was.
NoEpisode == [episode |-> 0, block |-> 0]
NoCall == [kind |-> "NONE", cid |-> NoCid, answer |-> "FAILED"]

SetStatus(c, s) == status' = [status EXCEPT ![c] = s]
SetLatch(c, a) == latch' = [latch EXCEPT ![c] = a]
Goto(p) == pc' = p
EndTick == Goto("done") /\ UNCHANGED tickVars
\* The locals of a tick before it starts and after it ends.
NoTick ==
    /\ ret' = "idle" /\ op' = "poll" /\ cand' = NoCid /\ report' = NoReport /\ stops' = {}
    /\ book' = NoReport /\ work' = {} /\ skip' = {} /\ raw' = 0 /\ rev' = NoCid
    /\ call' = NoCall

TypeOK ==
    /\ AccountTypeOK
    /\ status \in [Cid -> Status]
    /\ latch \in [Cid -> Latch]
    /\ day2 \subseteq Cid
    /\ blocked \in BlockedReason
    /\ episode \in Nat
    /\ driftRequest \in [episode : Nat, block : Nat]
    /\ shown \in [episode : Nat, block : Nat]
    /\ flatten \in Nat /\ raw \in Nat
    /\ manual \in Cid \cup {NoCid}
    /\ emergency \in BOOLEAN /\ closingOnly \in BOOLEAN
    /\ pc \in Pc /\ ret \in Pc \cup Sweeps
    /\ op \in {"cycle", "manage", "poll"}
    /\ cand \in Cid \cup {NoCid} /\ rev \in Cid \cup {NoCid}
    /\ report \in {NoReport} \cup SUBSET (Cid \cup Foreign)
    /\ book \in {NoReport} \cup SUBSET Cid
    /\ stops \subseteq Cid /\ work \subseteq Cid /\ skip \subseteq Cid
    /\ call \in [kind : WriteKind \cup {"NONE"}, cid : Cid \cup {NoCid}, answer : Answer]
    /\ posts \in [Cid -> Nat]
    /\ blocks \in Nat /\ presses \in Nat /\ crashes \in Nat

Init ==
    /\ AccountInit
    /\ status = [c \in Cid |-> "NO_ROW"] /\ latch = [c \in Cid |-> "none"] /\ day2 = {}
    /\ blocked = "none" /\ episode = 0
    /\ driftRequest = NoEpisode /\ shown = NoEpisode
    /\ flatten = 0 /\ manual = NoCid /\ emergency = FALSE
    /\ pc = "idle" /\ ret = "idle" /\ op = "poll" /\ cand = NoCid
    /\ report = NoReport /\ stops = {} /\ book = NoReport /\ work = {} /\ skip = {}
    /\ raw = 0 /\ rev = NoCid /\ call = NoCall /\ closingOnly = FALSE
    /\ posts = [c \in Cid |-> 0] /\ blocks = 0 /\ presses = 0 /\ crashes = 0

-----------------------------------------------------------------------------
\* reconcile(): one read of the open trades, then every LIVE row, then drift.
Reconcile(back) == Goto("rec_read") /\ ret' = back

RowStep == UNCHANGED <<accountVars, flagVars, op, cand, skip, raw, rev, call,
                       closingOnly, observerVars>>

\* Mutant: a failed read counts as an empty account.
ReadOpenTrades_Guess ==
    /\ pc = "rec_read"
    /\ book' = NoReport /\ work' = Live /\ Goto("rec_rows")
    /\ \/ report' = OpenTrades /\ stops' = moved \cap OpenAtBroker
       \/ report' = {} /\ UNCHANGED stops
    /\ UNCHANGED <<accountVars, durableVars, ret, op, cand, skip, raw, rev, call,
                   closingOnly, observerVars>>

ReadOpenTrades ==
    /\ pc = "rec_read"
    /\ book' = NoReport /\ work' = Live
    /\ \/ report' = OpenTrades /\ stops' = moved \cap OpenAtBroker /\ Goto("rec_rows")
       \/ report' = NoReport /\ UNCHANGED stops /\ Goto("rec_clear")
    /\ UNCHANGED <<accountVars, durableVars, ret, op, cand, skip, raw, rev, call,
                   closingOnly, observerVars>>

\* Mutant: "still open" resolves an UNKNOWN breakeven.
MatchRow_StillOpen(c) ==
    /\ c \in report
    /\ IF status[c] = "OPEN"
       THEN /\ status' = status
            /\ IF c \notin LimitCid /\ latch[c] = "MODIFY"
               THEN day2' = day2 \cup {c} /\ SetLatch(c, "none")
               ELSE UNCHANGED <<latch, day2>>
       ELSE /\ SetStatus(c, "OPEN") /\ SetLatch(c, "none") /\ UNCHANGED day2

\* The row is in the report: it is matched, and an unresolved one becomes OPEN.
MatchRow(c) ==
    /\ c \in report
    /\ IF status[c] = "OPEN"
       THEN /\ status' = status
            /\ IF c \notin LimitCid /\ latch[c] = "MODIFY" /\ c \in stops
               THEN day2' = day2 \cup {c} /\ SetLatch(c, "none")
               ELSE UNCHANGED <<latch, day2>>
       ELSE /\ SetStatus(c, "OPEN") /\ SetLatch(c, "none") /\ UNCHANGED day2

\* Mutant: the pending action is written into the status column.
MissingRow_Action(c) ==
    /\ c \notin report /\ status[c] = "OPEN"
    /\ SetStatus(c, IF latch[c] = "CLOSE" THEN "CLOSE" ELSE "CLOSED_AT_BROKER")
    /\ SetLatch(c, "none") /\ UNCHANGED day2

\* An OPEN row that is not in the report was closed at the broker.
MissingRow(c) ==
    /\ c \notin report /\ status[c] = "OPEN"
    /\ SetStatus(c, IF latch[c] = "CLOSE" THEN "CLOSED" ELSE "CLOSED_AT_BROKER")
    /\ SetLatch(c, "none") /\ UNCHANGED day2

\* trade_id_for_client, a later read than the report: the trade exists in some
\* state, or it does not, or the read fails and the row stays as it is.
LookupTrade(c, absent) ==
    /\ UNCHANGED day2
    /\ \/ TradeExists(c) /\ SetStatus(c, "CLOSED_AT_BROKER") /\ SetLatch(c, "none")
       \/ ~TradeExists(c) /\ SetStatus(c, absent)
          /\ SetLatch(c, IF absent = "CANCELLED" THEN "none" ELSE latch[c])
       \/ UNCHANGED <<status, latch>>

\* Mutants: absence proves the order was never sent; the row is left to the operator.
UnresolvedMarketRow_Absent(c) ==
    /\ c \notin report /\ c \notin LimitCid /\ status[c] \in UNRESOLVED_STATUSES
    /\ LookupTrade(c, "REJECTED")
UnresolvedMarketRow_NoLookup(c) ==
    /\ c \notin report /\ c \notin LimitCid /\ status[c] \in UNRESOLVED_STATUSES
    /\ UNCHANGED rowVars

UnresolvedMarketRow(c) ==
    /\ c \notin report /\ c \notin LimitCid /\ status[c] \in UNRESOLVED_STATUSES
    /\ LookupTrade(c, status[c])

\* A limit row not among the open trades: the pending-order book is read at
\* most once per pass; found there it rests, absent everywhere it is cancelled.
ReadPendingBook ==
    /\ pc = "rec_rows" /\ book = NoReport
    /\ \E c \in work : c \in LimitCid /\ c \notin report /\ status[c] # "OPEN"
    /\ book' = Resting
    /\ UNCHANGED <<rowVars, work, pc, ret, report, stops>> /\ RowStep

\* Mutant: only a row found in the book is ever settled.
LimitRow_BookOnly(c) ==
    /\ c \notin report /\ c \in LimitCid /\ status[c] # "OPEN"
    /\ IF book # NoReport /\ c \in book
       THEN SetStatus(c, "PENDING_LIMIT") /\ UNCHANGED <<latch, day2>>
       ELSE UNCHANGED rowVars

LimitRow(c) ==
    /\ c \notin report /\ c \in LimitCid /\ status[c] # "OPEN"
    /\ IF book = NoReport THEN UNCHANGED rowVars  \* the book could not be read
       ELSE IF c \in book
       THEN SetStatus(c, "PENDING_LIMIT") /\ UNCHANGED <<latch, day2>>
       ELSE LookupTrade(c, "CANCELLED")

ReconcileRow ==
    /\ pc = "rec_rows"
    /\ \E c \in work :
         /\ MatchRow(c) \/ MissingRow(c) \/ UnresolvedMarketRow(c) \/ LimitRow(c)
         /\ work' = work \ {c}
    /\ UNCHANGED <<pc, ret, report, stops, book>> /\ RowStep

RowsDone ==
    /\ pc = "rec_rows" /\ work = {} /\ Goto("rec_block")
    /\ UNCHANGED <<rowVars, work, ret, report, stops, book>> /\ RowStep

Drift == report \ Rows({"OPEN"})

\* A trade no row accounts for blocks routing under a fresh episode.
BlockOnDrift ==
    /\ pc = "rec_block" /\ Goto("rec_clear")
    /\ IF Drift # {} /\ blocked # "drift"
       THEN /\ blocked' = "drift" /\ episode' = blocks + 1 /\ blocks' = blocks + 1
       ELSE UNCHANGED <<blocked, episode, blocks>>
    /\ UNCHANGED <<accountVars, rowVars, driftRequest, flatten, manual, emergency,
                   shown, tickVars, closingOnly, posts, presses, crashes>>

LatchedOpen == {c \in Rows({"OPEN"}) : latch[c] # "none"}
\* Mutant: the request clears whatever drift is there now.
ClearVerified_AnyEpisode ==
    /\ blocked = "drift" /\ report # NoReport /\ Drift = {}
    /\ Rows(UNRESOLVED_STATUSES) = {} /\ LatchedOpen = {}
\* What a drift-clear request needs of this pass to be honoured.
ClearVerified ==
    /\ blocked = "drift" /\ driftRequest.episode = episode
    /\ report # NoReport /\ Drift = {}
    /\ Rows(UNRESOLVED_STATUSES) = {} /\ LatchedOpen = {}

\* Rows a sweep visits; manage leaves alone what this tick already acted on.
Targets(sweep) ==
    CASE sweep = "friday" -> Actionable({"OPEN"})
      [] sweep = "manage" -> Actionable({"PENDING_LIMIT"}) \cup (Actionable({"OPEN"}) \ skip)
      [] OTHER -> Actionable({"PENDING_LIMIT", "OPEN"})

StartSweep(sweep) == Goto("sweep") /\ ret' = sweep /\ work' = Targets(sweep)

\* Where the tick goes on after reconcile; a failed read ends what needed it.
AfterReconcile ==
    IF ret \in {"flatten", "manage"} /\ report # NoReport THEN StartSweep(ret)
    ELSE /\ ret' = "idle" /\ UNCHANGED work
         /\ Goto(CASE ret = "flatten" -> "manual"
                   [] ret = "manage" -> IF op = "manage" THEN "done" ELSE "route"
                   [] OTHER -> ret)

FinishReconcile ==
    /\ pc = "rec_clear"
    /\ LET requested == driftRequest # NoEpisode
           held == IF requested /\ ClearVerified THEN "none" ELSE blocked
       IN /\ driftRequest' = NoEpisode
          /\ episode' = IF requested /\ ClearVerified THEN 0 ELSE episode
          /\ blocked' = IF report = NoReport \/ held = "drift" THEN held
                        ELSE IF LatchedOpen # {} THEN "unresolved_action"
                        ELSE IF held = "unresolved_action" THEN "none" ELSE held
    /\ AfterReconcile /\ stops' = {} /\ book' = NoReport
    /\ UNCHANGED <<accountVars, rowVars, flatten, manual, emergency, shown, op, cand,
                   report, skip, raw, rev, call, closingOnly, observerVars>>

-----------------------------------------------------------------------------
\* Broker writes: the call and, as a separate step, what the router records.
BrokerWrite(kind, c, answer, back) ==
    /\ WriteCall(kind, c, answer)
    /\ call' = [kind |-> kind, cid |-> c, answer |-> answer]
    /\ Goto("answer") /\ ret' = back

Resume == Goto(IF ret \in Sweeps THEN "sweep" ELSE ret)

\* Mutant: a lost answer frees the client id for another try.
SubmitStatus_Retry(answer) ==
    CASE answer = "ACCEPTED" -> "OPEN"      [] answer = "RESTING" -> "PENDING_LIMIT"
      [] answer = "UNKNOWN" -> "NO_ROW"     [] OTHER -> "REJECTED"

SubmitStatus(answer) ==
    CASE answer = "ACCEPTED" -> "OPEN"      [] answer = "RESTING" -> "PENDING_LIMIT"
      [] answer = "UNKNOWN" -> "UNKNOWN"    [] OTHER -> "REJECTED"

RecordAnswer ==
    /\ pc = "answer" /\ Resume
    /\ LET c == call.cid  a == call.answer  k == call.kind
       IN \/ /\ k = "SUBMIT" /\ SetStatus(c, SubmitStatus(a)) /\ UNCHANGED <<latch, day2>>
          \/ /\ k = "CLOSE" /\ a \in {"ACCEPTED", "ABSENT"}
             /\ SetStatus(c, IF a = "ACCEPTED" THEN "CLOSED" ELSE "CLOSED_AT_BROKER")
             /\ SetLatch(c, "none") /\ UNCHANGED day2
          \/ /\ k = "CANCEL" /\ a = "ACCEPTED"
             /\ SetStatus(c, "CANCELLED") /\ SetLatch(c, "none") /\ UNCHANGED day2
          \/ /\ k = "MODIFY" /\ a = "ACCEPTED"
             /\ day2' = day2 \cup {c} /\ UNCHANGED <<status, latch>>
          \/ /\ k # "SUBMIT" /\ a = "UNKNOWN" /\ SetLatch(c, k) /\ UNCHANGED <<status, day2>>
          \/ /\ k # "SUBMIT" /\ a \in {"REJECTED", "FAILED"} /\ UNCHANGED rowVars
          \/ /\ k = "CANCEL" /\ a = "ABSENT" /\ UNCHANGED rowVars
    /\ call' = IF ret = "manual_done" THEN call ELSE NoCall
    /\ UNCHANGED <<accountVars, flagVars, ret, op, cand, report, stops, book, work, skip,
                   raw, rev, closingOnly, observerVars>>

-----------------------------------------------------------------------------
\* Ticks: on_cycle with a candidate, manage, process_operator_requests.
StartTick(entry, c) ==
    /\ pc = "idle"
    /\ entry = "poll" => flatten # 0 \/ manual # NoCid
    /\ Goto("requests") /\ op' = entry /\ cand' = c
    /\ UNCHANGED <<accountVars, durableVars, ret, report, stops, book, work, skip, raw, rev,
                   call, closingOnly, observerVars>>

FinishTick ==
    /\ pc = "done" /\ Goto("idle") /\ NoTick
    /\ UNCHANGED <<accountVars, durableVars, closingOnly, observerVars>>

\* Mutant: a request is looked at only while something is live.
ProcessRequests_OnlyLive ==
    /\ pc = "requests"
    /\ IF (flatten # 0 \/ closingOnly) /\ Live # {}
       THEN raw' = flatten /\ Reconcile("flatten")
       ELSE Goto("manual") /\ UNCHANGED <<raw, ret>>
    /\ UNCHANGED <<accountVars, durableVars, op, cand, report, stops, book, work, skip,
                   rev, call, closingOnly, observerVars>>

\* _process_requests: a flatten request (or the emergency that put this
\* process in closing-only mode) is served after a fresh reconcile.
ProcessRequests ==
    /\ pc = "requests"
    /\ IF flatten # 0 \/ (closingOnly /\ Live # {})
       THEN raw' = flatten /\ Reconcile("flatten")
       ELSE Goto("manual") /\ UNCHANGED <<raw, ret>>
    /\ UNCHANGED <<accountVars, durableVars, op, cand, report, stops, book, work, skip,
                   rev, call, closingOnly, observerVars>>

\* One row of a sweep: a resting limit is cancelled, an open trade closed; the
\* duration rule may move the stop instead; Friday and duration may find
\* nothing to do (not due, no tradeable quote).
SweepRow(c) ==
    /\ pc = "sweep" /\ c \in work /\ work' = work \ {c}
    /\ \/ /\ \E a \in Answer \ {"RESTING"} :
               BrokerWrite(IF status[c] = "PENDING_LIMIT" THEN "CANCEL" ELSE "CLOSE", c, a, ret)
          /\ skip' = skip \cup {c}
       \/ /\ ret = "manage" /\ status[c] = "OPEN" /\ c \notin day2 /\ "breakeven" \in Inputs
          /\ \E a \in {"ACCEPTED", "REJECTED", "FAILED", "UNKNOWN"} :
               /\ (emergency \/ closingOnly) => a = "FAILED"
               /\ BrokerWrite("MODIFY", c, a, ret)
          /\ skip' = skip
       \/ /\ ret \in {"friday", "manage"}
          /\ UNCHANGED <<accountVars, pc, ret, call, skip>>
    /\ UNCHANGED <<durableVars, op, cand, report, stops, book, raw, rev, closingOnly,
                   observerVars>>

\* Mutant: the request is dropped without comparing its value.
FlattenLeft_AnyValue == IF ret = "flatten" /\ Live = {} THEN 0 ELSE flatten

\* The flatten request is dropped only when no row is live, and only while it
\* still holds the value this tick served.
FlattenLeft == IF ret = "flatten" /\ Live = {} /\ flatten = raw THEN 0 ELSE flatten

SweepDone ==
    /\ pc = "sweep" /\ work = {}
    /\ Goto(CASE ret = "flatten" -> "manual"  [] ret = "loss" -> "friday_check"
              [] ret = "friday" -> "manage_check" [] ret = "loss_gate" -> "done"
              [] OTHER -> IF op = "manage" THEN "done" ELSE "route")
    /\ ret' = "idle" /\ raw' = 0
    /\ flatten' = FlattenLeft
    /\ UNCHANGED <<accountVars, rowVars, blocked, episode, driftRequest, manual, emergency,
                   shown, op, cand, report, stops, book, work, skip, rev, call, closingOnly,
                   observerVars>>

\* _process_manual_close: the request is consumed with its outcome, or kept
\* while nothing about the trade is proved.
AfterManual == Goto(IF op = "poll" THEN "done" ELSE "loss_check")

ManualStep == UNCHANGED <<rowVars, blocked, episode, driftRequest, flatten, emergency, shown,
                          op, cand, report, stops, book, work, raw, rev, closingOnly,
                          observerVars>>

ReadManualRequest ==
    /\ pc = "manual"
    /\ IF manual = NoCid THEN AfterManual /\ UNCHANGED ret
       ELSE IF report = NoReport THEN Reconcile("manual_go")
       ELSE Goto("manual_go") /\ UNCHANGED ret
    /\ UNCHANGED <<accountVars, manual, call, skip>> /\ ManualStep

ServeManualRequest ==
    /\ pc = "manual_go"
    /\ IF report = NoReport \/ (status[manual] = "OPEN" /\ latch[manual] # "none")
       THEN AfterManual /\ UNCHANGED <<accountVars, manual, call, ret, skip>>
       ELSE IF status[manual] # "OPEN"
       THEN AfterManual /\ manual' = NoCid /\ UNCHANGED <<accountVars, call, ret, skip>>
       ELSE /\ \E a \in Answer \ {"RESTING"} : BrokerWrite("CLOSE", manual, a, "manual_done")
            /\ skip' = skip \cup {manual} /\ UNCHANGED manual
    /\ ManualStep

\* Mutant: any attempt consumes the request.
Consuming_Attempt == Answer

\* A close that went through or was refused consumes the request; a call that
\* was not processed, or whose outcome is unknown, keeps it.
Consuming == {"ACCEPTED", "ABSENT", "REJECTED"}

FinishManualRequest ==
    /\ pc = "manual_done" /\ AfterManual
    /\ manual' = IF call.answer \in Consuming THEN NoCid ELSE manual
    /\ call' = NoCall /\ ret' = "idle"
    /\ UNCHANGED <<accountVars, skip>> /\ ManualStep

\* Daily-loss / drawdown halt and Friday window: decided by other modules.
MaybeSweep(at, sweep, next) ==
    /\ pc = at
    /\ ("sweeps" \in Inputs /\ StartSweep(sweep)) \/ (Goto(next) /\ UNCHANGED <<ret, work>>)
    /\ UNCHANGED <<accountVars, durableVars, op, cand, report, stops, book, skip, raw, rev,
                   call, closingOnly, observerVars>>

LossCheck == MaybeSweep("loss_check", "loss", "friday_check")
FridayTick == MaybeSweep("friday_check", "friday", "manage_check")

\* A cycle manages only when it has something to manage.
Manage ==
    /\ pc = "manage_check"
    /\ IF op = "cycle" /\ Rows({"OPEN", "PENDING_LIMIT"}) = {}
       THEN Goto("route") /\ UNCHANGED <<ret, work>>
       ELSE IF report = NoReport THEN Reconcile("manage") /\ UNCHANGED work
       ELSE StartSweep("manage")
    /\ UNCHANGED <<accountVars, durableVars, op, cand, report, stops, book, skip, raw, rev,
                   call, closingOnly, observerVars>>

-----------------------------------------------------------------------------
\* Routing the candidate of this cycle.  Any gate may refuse: the tick ends.
RouteStep == UNCHANGED <<durableVars, op, cand, report, stops, book, skip, raw, closingOnly>>

Route ==
    /\ pc = "route"
    /\ IF closingOnly \/ cand = NoCid \/ status[cand] # "NO_ROW"
       THEN EndTick
       ELSE /\ \/ EndTick     \* entry window closed
               \/ /\ IF report = NoReport THEN Reconcile("admit")
                     ELSE Goto("admit") /\ UNCHANGED ret
                  /\ UNCHANGED <<op, cand, report, stops, book, work, skip, raw, rev, call>>
    /\ UNCHANGED <<accountVars, durableVars, closingOnly, observerVars>>

\* One position: flat, or one profitable opposite trade to reverse.
Reversible(r) ==
    /\ "reversal" \in Inputs
    /\ Live = {r} /\ status[r] = "OPEN" /\ latch[r] = "none" /\ report = {r}

Admit ==
    /\ pc = "admit"
    /\ IF \/ report = NoReport \/ blocked # "none" \/ emergency
          \/ Rows(UNRESOLVED_STATUSES) # {}
       THEN EndTick
       ELSE IF Live = {} /\ report = {}
       THEN Goto("size") /\ UNCHANGED tickVars
       ELSE \/ EndTick        \* same side, not in profit, or no quote
            \/ \E r \in Live : /\ Reversible(r) /\ rev' = r /\ Goto("size")
                              /\ UNCHANGED <<ret, op, cand, report, stops, book, work, skip,
                                             raw, call>>
    /\ UNCHANGED <<accountVars, durableVars, closingOnly, observerVars>>

\* Balance read, sizing and the loss gate, which sweeps when it finds a halt.
Sized(next) ==
    \/ EndTick /\ UNCHANGED accountVars
    \/ /\ "sweeps" \in Inputs /\ StartSweep("loss_gate")
       /\ UNCHANGED <<accountVars, op, cand, report, stops, book, skip, raw, rev, call>>
    \/ next

Size ==
    /\ pc = "size"
    /\ Sized(/\ IF rev = NoCid
                THEN Goto("intent") /\ UNCHANGED <<accountVars, call, ret>>
                ELSE \E a \in Answer \ {"RESTING"} : BrokerWrite("CLOSE", rev, a, "reversed")
             /\ UNCHANGED <<op, cand, report, stops, book, work, skip, raw, rev>>)
    /\ UNCHANGED <<durableVars, closingOnly, observerVars>>

Reversed ==
    /\ pc = "reversed"
    /\ IF status[rev] \in {"CLOSED", "CLOSED_AT_BROKER"}
       THEN /\ Reconcile("flat")
            /\ UNCHANGED <<op, cand, report, stops, book, work, skip, raw, rev, call>>
       ELSE EndTick
    /\ UNCHANGED <<accountVars, durableVars, closingOnly, observerVars>>

\* After a reversal close the router must be flat, and is sized again.
Flat ==
    /\ pc = "flat"
    /\ IF report = NoReport \/ blocked # "none" \/ Live # {} \/ report # {}
       THEN EndTick /\ UNCHANGED accountVars
       ELSE Sized(Goto("intent") /\ UNCHANGED <<accountVars, tickVars>>)
    /\ UNCHANGED <<durableVars, closingOnly, observerVars>>

\* Mutant: the row is written with the answer, after the POST.
Intent_AfterSend ==
    /\ pc = "intent"
    /\ IF status[cand] = "NO_ROW" THEN Goto("gate") /\ UNCHANGED tickVars ELSE EndTick
    /\ UNCHANGED <<accountVars, rowVars, flagVars, closingOnly, observerVars>>

\* Write-ahead: the PENDING_SEND row is committed before anything is sent.
Intent ==
    /\ pc = "intent"
    /\ IF status[cand] = "NO_ROW"
       THEN SetStatus(cand, "PENDING_SEND") /\ Goto("gate") /\ UNCHANGED tickVars
       ELSE EndTick /\ UNCHANGED status    \* primary key: nothing is sent
    /\ UNCHANGED <<accountVars, latch, day2, flagVars, closingOnly, observerVars>>

NotSent(answer) ==
    /\ call' = [kind |-> "SUBMIT", cid |-> cand, answer |-> answer]
    /\ Goto("answer") /\ ret' = "done"

\* _pre_submit_gate: fresh reads right before the POST refuse a second position.
PreSubmitGate ==
    /\ pc = "gate"
    /\ \/ \E a \in {"REJECTED", "FAILED"} : NotSent(a)
       \/ /\ OpenAtBroker = {} /\ ~emergency /\ ~closingOnly
          /\ Goto("post") /\ UNCHANGED <<call, ret>>
    /\ UNCHANGED <<accountVars, work, rev, observerVars>> /\ RouteStep

\* The POST; the emergency switch is checked again right before it.
Post ==
    /\ pc = "post"
    /\ IF emergency THEN NotSent("FAILED") /\ UNCHANGED <<accountVars, posts>>
       ELSE \E a \in Answer \ {"ABSENT"} :
              /\ BrokerWrite("SUBMIT", cand, a, "done")
              /\ posts' = [posts EXCEPT ![cand] = IF a = "FAILED" THEN @ ELSE @ + 1]
    /\ UNCHANGED <<work, rev, blocks, presses, crashes>> /\ RouteStep

-----------------------------------------------------------------------------
\* The process and the people around it.
Crash ==
    /\ pc # "down" /\ crashes < MaxCrashes
    /\ Goto("down") /\ crashes' = crashes + 1
    /\ NoTick /\ closingOnly' = FALSE
    /\ UNCHANGED <<accountVars, durableVars, posts, blocks, presses>>

\* router_from_env: with the emergency active only a closing-only router is
\* built, and only while something is left to close.
Restart ==
    /\ pc = "down" /\ (emergency => flatten # 0 \/ Live # {})
    /\ Goto("idle") /\ closingOnly' = emergency
    /\ UNCHANGED <<accountVars, durableVars, tickVars, observerVars>>

\* Candidates a cycle may bring: a new one only within the bound.
Entrants == {c \in Cid : Cardinality({c} \cup (Cid \ Rows({"NO_ROW"}))) <= MaxEntries}

ProcessStep ==
    \/ \E entry \in {"manage", "poll"} : StartTick(entry, NoCid)
    \/ \E c \in Entrants : StartTick("cycle", c)
    \/ ProcessRequests \/ ReadOpenTrades \/ ReadPendingBook \/ ReconcileRow \/ RowsDone
    \/ BlockOnDrift \/ FinishReconcile \/ RecordAnswer
    \/ (\E c \in Cid : SweepRow(c)) \/ SweepDone
    \/ ReadManualRequest \/ ServeManualRequest \/ FinishManualRequest
    \/ FinishTick \/ LossCheck \/ FridayTick \/ Manage
    \/ Route \/ Admit \/ Size \/ Reversed \/ Flat \/ Intent \/ PreSubmitGate \/ Post

\* The dashboard, another process: each write is a transaction of its own.
DashboardStep == UNCHANGED <<accountVars, rowVars, blocked, episode, processVars, posts,
                             blocks, crashes>>

EmergencyStop ==
    /\ "emergency" \in Inputs /\ emergency' = TRUE
    /\ UNCHANGED <<driftRequest, flatten, manual, shown, presses>> /\ DashboardStep

RequestFlatten ==
    /\ "flatten" \in Inputs /\ presses < MaxRequests
    /\ presses' = presses + 1 /\ flatten' = presses + 1
    /\ UNCHANGED <<driftRequest, manual, emergency, shown>> /\ DashboardStep

\* The episode is read first and written into the request later.
ShowDrift ==
    /\ "drift" \in Inputs /\ blocked = "drift" /\ episode # 0
    /\ shown' = [episode |-> episode, block |-> blocks]
    /\ UNCHANGED <<driftRequest, flatten, manual, emergency, presses>> /\ DashboardStep

RequestDriftClear ==
    /\ shown # NoEpisode /\ driftRequest' = shown /\ shown' = NoEpisode
    /\ blocks < MaxBlocks
    /\ UNCHANGED <<flatten, manual, emergency, presses>> /\ DashboardStep

\* The row was OPEN and settled when the dashboard looked; it may not be now.
RequestManualClose(c) ==
    /\ "manual" \in Inputs /\ manual = NoCid
    /\ status[c] \in {"OPEN", "CLOSED", "CLOSED_AT_BROKER"}
    /\ manual' = c
    /\ UNCHANGED <<driftRequest, flatten, emergency, shown, presses>> /\ DashboardStep

\* Operator calls on the router, under its lock.
OperatorStep == UNCHANGED <<accountVars, episode, driftRequest, flatten, manual, shown,
                            processVars, observerVars>>

\* Assumed of the operator, not checked by the code: at a release no request of that
\* client id can still arrive. docs/oanda_adapter.md:159-160 asks it for mark_not_sent ("if
\* OANDA proves that it does not exist"); clear_unresolved says only "e.g. after checking
\* the platform".
Settled(c) == \A kind \in WriteKind : <<kind, c>> \notin wire

ClearEmergency ==
    /\ emergency /\ emergency' = FALSE
    /\ UNCHANGED <<rowVars, blocked>> /\ OperatorStep

ClearDrift ==
    /\ "operator" \in Inputs /\ pc = "idle" /\ blocked # "none" /\ blocks < MaxBlocks /\ blocked' = "none"
    /\ UNCHANGED <<rowVars, emergency>> /\ OperatorStep

ClearUnresolved ==
    /\ "operator" \in Inputs /\ pc = "idle" /\ LatchedOpen # {}
    /\ \A c \in LatchedOpen : Settled(c)
    /\ latch' = [c \in Cid |-> IF c \in LatchedOpen THEN "none" ELSE latch[c]]
    /\ blocked' = IF blocked = "unresolved_action" THEN "none" ELSE blocked
    /\ UNCHANGED <<status, day2, emergency>> /\ OperatorStep

\* Mutant: the operator's word is enough.
MarkNotSent_Unread(c) ==
    /\ "operator" \in Inputs /\ pc = "idle" /\ status[c] \in UNRESOLVED_STATUSES
    /\ SetStatus(c, "REJECTED")
    /\ UNCHANGED <<latch, day2, blocked, emergency>> /\ OperatorStep

MarkNotSent(c) ==
    /\ "operator" \in Inputs /\ pc = "idle" /\ status[c] \in UNRESOLVED_STATUSES
    /\ Settled(c) /\ ~TradeExists(c) /\ SetStatus(c, "REJECTED")
    /\ UNCHANGED <<latch, day2, blocked, emergency>> /\ OperatorStep

Environment ==
    \/ AccountStep /\ UNCHANGED <<durableVars, processVars, observerVars>>
    \/ EmergencyStop \/ RequestFlatten \/ ShowDrift \/ RequestDriftClear
    \/ (\E c \in Cid : RequestManualClose(c))
    \/ ClearEmergency \/ ClearDrift \/ ClearUnresolved
    \/ (\E c \in Cid : MarkNotSent(c))
    \/ Crash

Next == ProcessStep \/ Restart \/ Environment
Spec == Init /\ [][Next]_vars

\* Fairness: the runner restarts and keeps taking steps; its out-of-session tick
\* (manage) comes round again and again; reads that are retried for ever do not
\* fail for ever, and neither does a close or a cancel.
BrokerAnswers == \E c \in Cid : SweepRow(c) /\ call'.answer = "ACCEPTED" /\ pc' = "answer"
ReadSucceeds(back) == ReadOpenTrades /\ ret = back /\ report' # NoReport
Fairness ==
    /\ WF_vars(ProcessStep) /\ WF_vars(Restart)
    /\ SF_vars(StartTick("manage", NoCid))
    /\ SF_vars(ReadSucceeds("flatten")) /\ SF_vars(ReadSucceeds("manage"))
    /\ SF_vars(ReadPendingBook)
    /\ SF_vars(ReconcileRow /\ status' # status)
    /\ SF_vars(BrokerAnswers)
FairSpec == Spec /\ Fairness

-----------------------------------------------------------------------------
\* Properties.

\* The order of a cycle is posted at most once, whatever crashes, lost answers
\* and later ticks do to its row (write-ahead insert_intent before submit).
PostedAtMostOnce == \A c \in Cid : posts[c] <= 1

\* Nothing of ours exists at the broker, or may still arrive there, without a
\* durable row to find it by after a crash.
IntentBeforeExposure ==
    \A c \in Cid : order[c] # "none" \/ c \in Exposed => status[c] # "NO_ROW"

\* One net position: at most one of our orders is, or may become, a position.
SingleExposure == \A c, d \in Exposed : c = d

\* A row the router gave up on as never sent has nothing behind it.
RejectedMeansNothingThere ==
    \A c \in Rows({"REJECTED"}) : order[c] \in {"none", "gone"} /\ Settled(c)

\* A row recorded as closed by the router is closed at the broker.
ClosedMeansClosed == \A c \in Rows({"CLOSED"}) : order[c] = "closed"

\* A row recorded as gone at the broker, found by its client id only, is gone.
ClosedAtBrokerMeansClosed == \A c \in Rows({"CLOSED_AT_BROKER"}) : order[c] = "closed"

\* The stage says breakeven only when the stop is there, also when the answer
\* to the move was lost and the stage was set from evidence.
BreakevenIsAtBroker == day2 \subseteq moved

\* A row agrees with the broker about the two facts that nothing reads again: a closed row
\* has no open trade, and a breakeven that counts as done is the stop at the broker
\* (reconcile, _breakeven).
RowsAgree == ClosedMeansClosed /\ BreakevenIsAtBroker

\* A flatten request is dropped with every row settled, and never for a
\* request pressed after the one this tick served.
FlattenServed ==
    [][flatten # 0 /\ flatten' = 0 => Live = {} /\ flatten = raw /\ presses = raw]_vars

\* A manual close request is consumed only when its trade is proved off OPEN, or
\* when the broker definitely refused the close.
ManualServed ==
    [][manual # NoCid /\ manual' = NoCid
         => \/ status[manual] # "OPEN"
            \/ call = [kind |-> "CLOSE", cid |-> manual, answer |-> "REJECTED"]]_vars

\* No close or cancel is sent while an earlier one on the same order may still
\* be processed (an UNKNOWN action is never stacked upon), as long as the process
\* that saw the lost answer lives to record it.
NothingStacked ==
    [][crashes = 0 /\ call' # call /\ call'.kind \in {"CLOSE", "CANCEL"}
         => <<call'.kind, call'.cid>> \notin wire]_vars

\* A dashboard request clears only the drift block its operator was shown.
DriftClearIsForThisBlock ==
    [][pc = "rec_clear" /\ blocked = "drift" /\ blocked' # "drift"
         => driftRequest.block = blocks]_vars

\* A submission whose answer was lost, and that did reach the broker, is found.
LostAnswerSettled ==
    \A c \in Cid : status[c] \in UNRESOLVED_STATUSES /\ TradeExists(c)
                     ~> status[c] \notin UNRESOLVED_STATUSES

\* A flatten request is served, unless a lost answer is left for the operator.
FlattenCompletes ==
    flatten # 0 ~> \/ flatten = 0
                   \/ Rows(UNRESOLVED_STATUSES) # {}
                   \/ \E c \in Live : latch[c] # "none"
=============================================================================
