---------------------------- MODULE SystemHealth ----------------------------
(* The SYSTEM HEALTH sidecar: a log of observations, each under its id, and *)
(* one health record per component, written by probes that read the trading *)
(* database again and again and by hooks in the running code.  Every write  *)
(* is one transaction; a collection may be cut after any of them.           *)
EXTENDS Integers, Sequences, FiniteSets, SequencesExt

CONSTANTS
    FailedAfter,     \* failed_after_consecutive_errors
    HeartbeatLimit,  \* heartbeat_stale_after_seconds
    ProgressLimit,   \* progress_stale_after_seconds
    MaxRows,         \* bound: journal rows and runs
    MaxClock,        \* bound: clock
    Cut,             \* the probe a collection may be cut after
    MaxCalls         \* bound: provider calls seen by the hook

VARIABLES
    trading,  \* the trading database, as the probes read it
    sidecar,  \* [log |-> id -> observation, rec |-> component -> record]
    raised,   \* the probes that raised in the last collection
    now,      \* the clock
    calls     \* provider calls so far

healthVars == <<trading, sidecar, raised, now, calls>>

Never == 0
Components == {"scheduler", "market_data", "macro_data", "ai_provider",
               "paper_broker", "trading_db"}
\* A fresh record: nothing is known of the component.
EmptyHealth == [status |-> "UNKNOWN", success |-> Never, checked |-> Never, heartbeat |-> Never,
                progress |-> Never, errors |-> 0, type |-> "none"]

-----------------------------------------------------------------------------
\* The class of a failed call: a canonical name is kept, except that a timeout
\* refines CONNECTION_ERROR; a generic name is refined by the HTTP status.
ClassifyProviderError(kind, status, timedOut) ==
    CASE kind = "CONNECTION_ERROR" -> IF timedOut THEN "TIMEOUT" ELSE kind
      [] kind \in {"RATE_LIMITED", "TIMEOUT"} -> kind
      [] kind = "QUOTA_EXHAUSTED" -> "BILLING_OR_QUOTA"
      [] OTHER -> IF status # "none" THEN status
                  ELSE IF timedOut THEN "TIMEOUT" ELSE "UNKNOWN_PROVIDER_FAILURE"

Observation(kind, c, at, facts) == [kind |-> kind, component |-> c, at |-> at, facts |-> facts]
Success(c, at, facts) == Observation("SUCCESS", c, at, facts)
State(c, at, status) == Observation("STATE", c, at, status)
\* NOT_CONFIGURED is a state, never an error of the provider.
Error(c, at, kind) == IF kind = "NOT_CONFIGURED" THEN State(c, at, "UNKNOWN")
                      ELSE Observation("ERROR", c, at, kind)

Later(new, old) == new >= old

\* What one observation does to the record of its component.
Apply(rec, o) ==
    CASE o.kind = "HEARTBEAT" -> IF Later(o.at, rec.heartbeat) THEN [rec EXCEPT !.heartbeat = o.at] ELSE rec
      [] o.kind = "PROGRESS" -> IF Later(o.at, rec.progress) THEN [rec EXCEPT !.progress = o.at] ELSE rec
      [] o.kind \in {"STATE", "SUCCESS", "ERROR"} /\ ~Later(o.at, rec.checked) -> rec
      [] o.kind = "STATE" /\ Later(o.at, rec.checked) -> [rec EXCEPT !.status = o.facts, !.checked = o.at, !.type = "none"]
      [] o.kind = "SUCCESS" /\ Later(o.at, rec.checked) ->
             [rec EXCEPT !.status = "HEALTHY", !.success = o.at, !.checked = o.at, !.errors = 0, !.type = "none"]
      [] o.kind = "ERROR" /\ Later(o.at, rec.checked) ->
             [rec EXCEPT !.status = IF rec.errors + 1 >= FailedAfter THEN "FAILED" ELSE "DEGRADED",
                         !.checked = o.at, !.errors = @ + 1, !.type = o.facts]
Add(s, id, o) == [log |-> [i \in DOMAIN s.log \cup {id} |-> IF i = id THEN o ELSE s.log[i]],
                  rec |-> [s.rec EXCEPT ![o.component] = Apply(@, o)]]
\* Mutant: a repeated observation is counted again.
Observe_Again(s, id, o) == [side |-> Add(s, id, o), ok |-> TRUE]
\* One transaction: an id seen before is a retry if the content is the same,
\* and refused if it is not.
Observe(s, id, o) ==
    IF id \in DOMAIN s.log
    THEN [side |-> s, ok |-> s.log[id] = o]
    ELSE [side |-> Add(s, id, o), ok |-> TRUE]

-----------------------------------------------------------------------------
(* The probes: the observations each one records, in order.                 *)

RowsOf(db, sources) == SelectSeq(db.rows, LAMBDA r : r.source \in sources)

\* Every completed run is progress and a result; the details of the result are
\* the scheduler's state at the moment of the collection.
ProbeScheduler(db) ==
    (IF db.heartbeat = Never THEN <<>>
     ELSE <<[id |-> <<"hb", db.heartbeat>>, o |-> Observation("HEARTBEAT", "scheduler", db.heartbeat, "none")]>>)
    \o FlattenSeq([i \in 1..Len(RowsOf(db, {"run"})) |->
          LET run == RowsOf(db, {"run"})[i]
          IN  <<[id |-> <<"progress", run.id>>, o |-> Observation("PROGRESS", "scheduler", run.at, run.what)],
                [id |-> <<"run", run.id>>,
                 o |-> IF run.what = "COMPLETED" THEN Success("scheduler", run.at, <<"slot", db.slot>>)
                       ELSE Observation("ERROR", "scheduler", run.at, <<"slot", db.slot>>)]>>])

\* The verdict the runtime recorded; STALE and NO_DATA are states, not errors.
ProbeMarketData(db) ==
    [i \in 1..Len(RowsOf(db, {"market"})) |->
        LET row == RowsOf(db, {"market"})[i]
        IN  [id |-> <<"market", row.id>>,
             o |-> CASE row.what = "CURRENT" -> Success("market_data", row.at, "none")
                     [] row.what = "STALE" -> State("market_data", row.at, "STALE")
                     [] OTHER -> Error("market_data", row.at, row.what)]]

\* Only the newest failure is given the provider's current health as its kind;
\* a run that has a failure has no other verdict.
ProbeMacroData(db) ==
    LET rows == RowsOf(db, {"macro"})
        failures == {i \in 1..Len(rows) : rows[i].what = "FAILURE"}
        kept == SelectSeq([i \in 1..Len(rows) |-> [i |-> i, row |-> rows[i]]],
                          LAMBDA e : e.i \in failures
                                     \/ \A f \in failures : rows[f].run # e.row.run)
    IN  [n \in 1..Len(kept) |->
            LET e == kept[n]
            IN  [id |-> <<"macro", e.row.id>>,
                 o |-> IF e.row.what = "FAILURE"
                       THEN Error("macro_data", e.row.at,
                                  IF \A f \in failures : f <= e.i THEN db.macroHealth ELSE "none")
                       ELSE Success("macro_data", e.row.at, "none")]]

\* Agents and risk decisions, each at the time its run was completed, or started while it is
\* not; paper operations at the time of their row. The id is the row's, whatever its time.
ProbeRows(db, source) ==
    [i \in 1..Len(RowsOf(db, {source})) |->
        LET row == RowsOf(db, {source})[i]
            c == IF source = "ai" THEN "ai_provider" ELSE "paper_broker"
        IN  [id |-> <<source, row.id>>,
             o |-> IF row.what = "OK" THEN Success(c, row.at, "probe") ELSE Error(c, row.at, "probe")]]

\* The database itself, read at the time of the collection.
ProbeTradingDb(db, opens) ==
    <<[id |-> <<"db", now>>, o |-> IF opens THEN Success("trading_db", now, "none")
                                   ELSE Observation("ERROR", "trading_db", now, "DATABASE_ERROR")]>>

\* A probe stops at the first observation that raises.
RunProbe(s, seq) ==
    FoldLeft(LAMBDA acc, e : IF ~acc.ok THEN acc ELSE Observe(acc.side, e.id, e.o),
             [side |-> s, ok |-> TRUE], seq)

Probes(db, opens) ==
    (IF opens
     THEN <<[name |-> "scheduler", seq |-> ProbeScheduler(db)], [name |-> "market_data", seq |-> ProbeMarketData(db)],
            [name |-> "macro_data", seq |-> ProbeMacroData(db)], [name |-> "ai", seq |-> ProbeRows(db, "ai")],
            [name |-> "paper_broker", seq |-> ProbeRows(db, "paper")]>>
     ELSE <<>>)
    \o <<[name |-> "trading_db", seq |-> ProbeTradingDb(db, opens)]>>

\* Every probe runs whether or not the ones before it raised.
Collection(db, opens, upTo) ==
    FoldLeft(LAMBDA acc, p : LET r == RunProbe(acc.side, p.seq)
                             IN  [side |-> r.side, raised |-> acc.raised \cup (IF r.ok THEN {} ELSE {p.name})],
             [side |-> sidecar, raised |-> {}], SubSeq(Probes(db, opens), 1, upTo))

-----------------------------------------------------------------------------
HealthInit ==
    /\ trading = [rows |-> <<>>, slot |-> 0, heartbeat |-> Never, macroHealth |-> "TIMEOUT"]
    /\ sidecar = [log |-> <<>>, rec |-> [c \in Components |-> EmptyHealth]]
    /\ raised = {}
    /\ now = 1
    /\ calls = 0

\* The runtime goes on: a heartbeat and a slot, and a row of one of the sources.
Heartbeat ==
    /\ trading' = [trading EXCEPT !.heartbeat = now, !.slot = now]
    /\ UNCHANGED <<sidecar, raised, now, calls>>
Journal ==
    /\ Len(trading.rows) < MaxRows
    /\ \E source \in {"run", "market", "macro", "ai", "paper"}, run \in 1..2,
          what \in {"COMPLETED", "FAILED", "CURRENT", "STALE", "RATE_LIMITED", "FAILURE", "OK", "ERROR"},
          open \in BOOLEAN :
          /\ source = "macro" \/ run = 1
          /\ open => source = "ai"
          /\ what \in CASE source = "run" -> {"COMPLETED", "FAILED"}
                        [] source = "market" -> {"CURRENT", "STALE", "RATE_LIMITED"}
                        [] source = "macro" -> {"OK", "FAILURE"}
                        [] OTHER -> {"OK", "ERROR"}
          /\ trading' = [trading EXCEPT !.rows = Append(@,
                 [source |-> source, id |-> Len(trading.rows) + 1, what |-> what, at |-> now, run |-> run, open |-> open])]
    /\ UNCHANGED <<sidecar, raised, now, calls>>
\* The run of an agent's row is completed: the row has its time now, and its place.
RunCompleted ==
    /\ \E i \in 1..Len(trading.rows) :
          /\ trading.rows[i].open
          /\ trading' = [trading EXCEPT !.rows =
                 Append(RemoveAt(@, i), [trading.rows[i] EXCEPT !.at = now, !.open = FALSE])]
    /\ UNCHANGED <<sidecar, raised, now, calls>>
MacroHealth ==
    /\ trading.macroHealth = "TIMEOUT"
    /\ trading' = [trading EXCEPT !.macroHealth = "NOT_CONFIGURED"]
    /\ UNCHANGED <<sidecar, raised, now, calls>>

\* collect: the sidecar opens or nothing happens; the trading database may not
\* open; the process may die between two probes.
Collect ==
    /\ now < MaxClock
    /\ \E opens \in BOOLEAN : \E upTo \in {Cut, Len(Probes(trading, opens))} :
          LET done == Collection(trading, opens, upTo)
          IN  /\ sidecar' = done.side
              /\ raised' = done.raised
    /\ now' = now + 1
    /\ UNCHANGED <<trading, calls>>

\* The hook of a provider call, under the request's own, earlier time; a hook that fails
\* is swallowed and the caller never knows.
ProviderCallObserved ==
    /\ calls < MaxCalls
    /\ calls' = calls + 1
    /\ \E kind \in {"OK", "CONNECTION_ERROR", "PROVIDER_FAILURE"} :
          LET asOf == IF now = 1 THEN 1 ELSE now - 1
          IN  sidecar' \in {sidecar,
                 Observe(sidecar, <<"hook", calls>>,
                         IF kind = "OK" THEN Success("ai_provider", asOf, "hook")
                         ELSE Error("ai_provider", asOf,
                                    ClassifyProviderError(kind, "PROVIDER_5XX", kind = "CONNECTION_ERROR"))).side}
    /\ UNCHANGED <<trading, raised, now>>

HealthNext == Heartbeat \/ Journal \/ RunCompleted \/ MacroHealth \/ Collect \/ ProviderCallObserved
HealthSpec == HealthInit /\ [][HealthNext]_healthVars

-----------------------------------------------------------------------------
\* The status shown for a record at a time: a success too old, progress that
\* stalled or a heartbeat that stopped is never HEALTHY.
Project(rec, t) ==
    LET alive == rec.heartbeat = Never \/ t - rec.heartbeat \in 0..HeartbeatLimit
        advancing == rec.progress = Never \/ t - rec.progress \in 0..ProgressLimit
    IN  IF rec.status = "HEALTHY" /\ (t - rec.checked > ProgressLimit \/ ~alive) THEN "STALE"
        ELSE IF rec.status \in {"HEALTHY", "UNKNOWN"} /\ ~advancing THEN "STALE"
        ELSE rec.status

Results(c) == {id \in DOMAIN sidecar.log : /\ sidecar.log[id].component = c
                                           /\ sidecar.log[id].kind \in {"SUCCESS", "ERROR", "STATE"}}

(* However often the probes re-read the same journal, whatever collection   *)
(* was cut and whichever hook wrote in between, the record of a component is *)
(* about the newest result in the log, counts no error twice or from before *)
(* the last success, and is shown HEALTHY only when a success within the     *)
(* limit is logged and no later result contradicts it (SystemHealth._observe,*)
(* _apply, project).                                                         *)
RecordIsOfItsLog ==
    \A c \in Components :
        LET rec == sidecar.rec[c]
            at(id) == sidecar.log[id].at
        IN  /\ \A id \in Results(c) : at(id) <= rec.checked
            /\ rec.checked # Never => \E id \in Results(c) : at(id) = rec.checked
            /\ rec.errors <= Cardinality({id \in Results(c) : /\ sidecar.log[id].kind = "ERROR"
                                                              /\ at(id) >= rec.success})
            /\ Project(rec, now) = "HEALTHY" =>
                   /\ \E id \in Results(c) : /\ sidecar.log[id].kind = "SUCCESS"
                                             /\ at(id) = rec.checked
                                             /\ now - at(id) <= ProgressLimit
                   /\ rec.heartbeat # Never => now - rec.heartbeat <= HeartbeatLimit

(* "Observation ids are deterministic digests of the evidence, so           *)
(* re-collection is idempotent" (runtime/health_probes.py:12): reading the   *)
(* journal again never raises in a probe. It does not hold: the observation  *)
(* of a run carries the scheduler's state of the moment it is collected, that *)
(* of a failure the macro provider's health, and that of an agent the start  *)
(* of its run until the run is completed.                                    *)
RecollectionIdempotent == raised = {}
=============================================================================
