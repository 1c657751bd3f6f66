---------------------------- MODULE AlertPipeline ----------------------------
(***************************************************************************)
(* How a journal row becomes a message to the owner.                       *)
(*                                                                         *)
(* The runner (runtime/demo_runner.py) captures rows as notification       *)
(* events and posts each to Slack under a claim (storage/database.py), at  *)
(* most once; daily summaries have an outbox that finishes what a crash    *)
(* left. It then hands the events to the alert worker through a bounded    *)
(* queue (runtime/alert_hook.py); the worker sends each to its channel     *)
(* under a claim in a ledger that other processes may share                *)
(* (runtime/alert_dispatch.py), and takes over claims that look dead.      *)
(*                                                                         *)
(* One channel: the rows of an event for different channels are            *)
(* independent. The time of a claim is its number and whether it is old:   *)
(* past SUMMARY_CLAIM_GRACE, or past stale_after.                          *)
(***************************************************************************)
EXTENDS Naturals, Sequences, SequencesExt

CONSTANTS
    Event,      \* journal rows that are notified
    Summary,    \* those that are daily summaries
    Worker,     \* alert workers that share the ledger
    Own,        \* the worker of the runner's process
    MaxQueue,   \* maxsize of the alert queue
    MaxTries,   \* max_attempts of one delivery
    MaxClaims,  \* bound: claims of an alert that outlive a sender still alive
    MaxFaults   \* bound: crashes and failed captures

VARIABLES
    journal,    \* rows written
    captured,   \* notification_events
    delivery,   \* notification_deliveries
    posted,     \* times the event was posted to Slack (observed)
    runner,     \* the runner thread: what is left of its batch
    queue,      \* AlertHook._queue
    saved,      \* alert_events: snapshots
    ledger,     \* alert_deliveries, and what the holder of the claim met (observed)
    worker,     \* worker -> its delivery
    faults

outboxVars == <<journal, captured, delivery, posted, runner>>
ledgerVars == <<saved, ledger, worker>>
alertVars == <<outboxVars, queue, ledgerVars, faults>>

Resting == [pc |-> "idle", batch |-> <<>>, offer |-> <<>>, error |-> FALSE]
Free == [pc |-> "idle", event |-> "none", claim |-> 0, tries |-> 0, error |-> FALSE]

AlertInit ==
    /\ journal = {} /\ captured = {} /\ saved = {}
    /\ delivery = [e \in Event |-> [status |-> "NONE", old |-> FALSE]]
    /\ posted = [e \in Event |-> 0]
    /\ runner = Resting /\ queue = <<>>
    /\ ledger = [e \in Event |-> [status |-> "NONE", claim |-> 0, old |-> FALSE, met |-> "NONE"]]
    /\ worker = [w \in Worker |-> Free]
    /\ faults = 0

-----------------------------------------------------------------------------
\* Notifications: the runner thread.

\* A cycle, or the summary of a day (one row per day), commits a journal row.
WriteRow(e) ==
    /\ runner.pc = "idle" /\ e \notin journal
    /\ journal' = journal \cup {e}
    /\ runner' = [runner EXCEPT !.pc = "capture"]
    /\ UNCHANGED <<captured, delivery, posted, queue, faults, ledgerVars>>

\* capture_notifications: in one transaction every row not captured yet.
Capture ==
    /\ runner.pc = "capture"
    /\ captured' = journal
    /\ runner' = [runner EXCEPT !.pc = "claim", !.batch = SetToSeq(journal \ captured),
                                !.offer = SetToSeq(journal \ captured)]
    /\ UNCHANGED <<journal, delivery, posted, queue, faults, ledgerVars>>

\* _capture_and_deliver swallows a failure, before or after the events are on disk.
CaptureFails(after) ==
    /\ runner.pc = "capture" /\ faults < MaxFaults
    /\ faults' = faults + 1
    /\ captured' = IF after THEN journal ELSE captured
    /\ runner' = [runner EXCEPT !.pc = "outbox"]
    /\ UNCHANGED <<journal, delivery, posted, queue, ledgerVars>>

NextEvent(r) == [r EXCEPT !.pc = "claim", !.batch = Tail(@)]

\* claim_notification_delivery: the insert succeeds once.
ClaimDelivery ==
    /\ runner.pc = "claim" /\ runner.batch # <<>>
    /\ LET e == Head(runner.batch) IN
       IF delivery[e].status = "NONE"
       THEN /\ delivery' = [delivery EXCEPT ![e] = [status |-> "CLAIMED", old |-> FALSE]]
            /\ runner' = [runner EXCEPT !.pc = "post"]
       ELSE runner' = NextEvent(runner) /\ delivery' = delivery
    /\ UNCHANGED <<journal, captured, posted, queue, faults, ledgerVars>>

\* deliver: posted, refused, or posted with the answer lost.
Post(reached, error) ==
    /\ runner.pc = "post"
    /\ posted' = [posted EXCEPT ![Head(runner.batch)] = @ + IF reached THEN 1 ELSE 0]
    /\ runner' = [runner EXCEPT !.pc = "complete", !.error = error]
    /\ UNCHANGED <<journal, captured, delivery, queue, faults, ledgerVars>>

\* complete_notification_delivery
Complete ==
    /\ runner.pc = "complete"
    /\ delivery' = [delivery EXCEPT ![Head(runner.batch)].status =
                      IF runner.error THEN "FAILED" ELSE "DELIVERED"]
    /\ runner' = NextEvent(runner)
    /\ UNCHANGED <<journal, captured, posted, queue, faults, ledgerVars>>

\* AlertHook.__call__: each event of the capture is queued, or dropped when it is full.
Offer ==
    /\ runner.pc = "claim" /\ runner.batch = <<>>
    /\ IF runner.offer = <<>>
       THEN runner' = [runner EXCEPT !.pc = "outbox"] /\ queue' = queue
       ELSE /\ runner' = [runner EXCEPT !.offer = Tail(@)]
            /\ queue' = IF Len(queue) < MaxQueue THEN Append(queue, Head(runner.offer)) ELSE queue
    /\ UNCHANGED <<journal, captured, delivery, posted, faults, ledgerVars>>

Expired(e) == e \in Summary /\ delivery[e].status = "CLAIMED" /\ delivery[e].old

SummaryOutbox_Resend ==   \* mutant: an old claim without an outcome is sent again
    /\ runner.pc = "outbox"
    /\ LET unclaimed == {e \in Summary \cap captured : delivery[e].status = "NONE" \/ Expired(e)} IN
       /\ runner' = IF ~(Summary \cap journal \subseteq captured) THEN [Resting EXCEPT !.pc = "capture"]
                    ELSE IF unclaimed # {} THEN [Resting EXCEPT !.pc = "claim", !.batch = SetToSeq(unclaimed)]
                    ELSE Resting
       /\ delivery' = [e \in Event |-> IF Expired(e) THEN [status |-> "NONE", old |-> FALSE] ELSE delivery[e]]
    /\ UNCHANGED <<journal, captured, posted, queue, faults, ledgerVars>>

SummaryOutbox_Unclaimed ==   \* mutant: an event that was never claimed is left alone
    /\ runner.pc = "outbox"
    /\ IF Summary \cap journal \subseteq captured
       THEN runner' = Resting
       ELSE runner' = [Resting EXCEPT !.pc = "capture"]
    /\ delivery' = [e \in Event |-> IF Expired(e) THEN [delivery[e] EXCEPT !.status = "UNKNOWN"] ELSE delivery[e]]
    /\ UNCHANGED <<journal, captured, posted, queue, faults, ledgerVars>>

\* _summary_outbox: summaries not captured are captured, those never claimed delivered,
\* and an old claim without an outcome is UNKNOWN, not sent again.
SummaryOutbox ==
    /\ runner.pc = "outbox"
    /\ LET unclaimed == {e \in Summary \cap captured : delivery[e].status = "NONE"} IN
       runner' = IF ~(Summary \cap journal \subseteq captured) THEN [Resting EXCEPT !.pc = "capture"]
                 ELSE IF unclaimed # {} THEN [Resting EXCEPT !.pc = "claim", !.batch = SetToSeq(unclaimed)]
                 ELSE Resting
    /\ delivery' = [e \in Event |-> IF Expired(e) THEN [delivery[e] EXCEPT !.status = "UNKNOWN"] ELSE delivery[e]]
    /\ UNCHANGED <<journal, captured, posted, queue, faults, ledgerVars>>

\* A later tick has something for the outbox.
Tick ==
    /\ runner.pc = "idle"
    /\ \E e \in Summary \cap journal : e \notin captured \/ delivery[e].status = "NONE" \/ Expired(e)
    /\ runner' = [runner EXCEPT !.pc = "outbox"]
    /\ UNCHANGED <<journal, captured, delivery, posted, queue, faults, ledgerVars>>

\* The process dies and is started again, which captures first: the batch, the queue
\* and the delivery under way are gone.
Die ==
    /\ faults < MaxFaults /\ faults' = faults + 1
    /\ runner' = [Resting EXCEPT !.pc = "capture"]
    /\ queue' = <<>>
    /\ worker' = [worker EXCEPT ![Own] = Free]
    /\ UNCHANGED <<journal, captured, delivery, posted, saved, ledger>>

-----------------------------------------------------------------------------
\* Alerts: the workers.

Stale(e) == ledger[e].status = "SENDING" /\ ledger[e].old
Begin(w, e) == worker' = [worker EXCEPT ![w] = [Free EXCEPT !.pc = "save", !.event = e]]

TakeQueued ==
    /\ worker[Own].pc = "idle" /\ queue # <<>>
    /\ Begin(Own, Head(queue))
    /\ queue' = Tail(queue)
    /\ UNCHANGED <<outboxVars, saved, ledger, faults>>

\* recover_pending: a snapshot without a row, or with a stale claim.
Recover(w) ==
    /\ worker[w].pc = "idle"
    /\ \E e \in saved : (ledger[e].status = "NONE" \/ Stale(e)) /\ Begin(w, e)
    /\ UNCHANGED <<outboxVars, queue, saved, ledger, faults>>

\* The snapshot is on disk before anything is claimed.
Save(w) ==
    /\ worker[w].pc = "save"
    /\ saved' = saved \cup {worker[w].event}
    /\ worker' = [worker EXCEPT ![w].pc = "claim"]
    /\ UNCHANGED <<outboxVars, queue, ledger, faults>>

ClaimAlert_NoTakeover(w) ==   \* mutant: a dead sender keeps its claim
    /\ worker[w].pc = "claim"
    /\ LET e == worker[w].event IN
       IF ledger[e].status = "NONE"
       THEN /\ ledger' = [ledger EXCEPT ![e].status = "SENDING", ![e].claim = 1]
            /\ worker' = [worker EXCEPT ![w].pc = "send", ![w].claim = 1]
       ELSE /\ worker' = [worker EXCEPT ![w] = Free] /\ ledger' = ledger
    /\ UNCHANGED <<outboxVars, queue, saved, faults>>

\* AlertDeliveryLedger.claim: new, taken over (AMBIGUOUS_RETRY), or a duplicate.
ClaimAlert(w) ==
    /\ worker[w].pc = "claim"
    /\ LET e == worker[w].event
           claim == ledger[e].claim + 1 IN
       IF ledger[e].status = "NONE" \/ Stale(e)
       THEN /\ ledger' = [ledger EXCEPT ![e] = [status |-> "SENDING", claim |-> claim, old |-> FALSE, met |-> "NONE"]]
            /\ worker' = [worker EXCEPT ![w].pc = "send", ![w].claim = claim]
       ELSE /\ worker' = [worker EXCEPT ![w] = Free] /\ ledger' = ledger
    /\ UNCHANGED <<outboxVars, queue, saved, faults>>

\* One attempt: the channel accepts, fails for now, or fails for good.
Send(w, result) ==
    /\ worker[w].pc = "send"
    /\ LET e == worker[w].event
           over == result # "retry" \/ worker[w].tries + 1 = MaxTries IN
       /\ worker' = [worker EXCEPT ![w].tries = IF over THEN 0 ELSE @ + 1, ![w].error = result # "ok",
                                   ![w].pc = IF over THEN "complete" ELSE "send"]
       /\ ledger' = IF over /\ ledger[e].claim = worker[w].claim
                    THEN [ledger EXCEPT ![e].met = IF result = "ok" THEN "DELIVERED" ELSE "FAILED"]
                    ELSE ledger
    /\ UNCHANGED <<outboxVars, queue, saved, faults>>

CompleteAlert_AnyClaim(w) ==   \* mutant: a slow sender completes the claim that replaced its own
    /\ worker[w].pc = "complete"
    /\ LET e == worker[w].event IN
       ledger' = IF ledger[e].status = "SENDING"
                 THEN [ledger EXCEPT ![e].status = IF worker[w].error THEN "FAILED" ELSE "DELIVERED"]
                 ELSE ledger
    /\ worker' = [worker EXCEPT ![w] = Free]
    /\ UNCHANGED <<outboxVars, queue, saved, faults>>

\* AlertDeliveryLedger.complete: only the claim it belongs to.
CompleteAlert(w) ==
    /\ worker[w].pc = "complete"
    /\ LET e == worker[w].event IN
       ledger' = IF ledger[e].status = "SENDING" /\ ledger[e].claim = worker[w].claim
                 THEN [ledger EXCEPT ![e].status = IF worker[w].error THEN "FAILED" ELSE "DELIVERED"]
                 ELSE ledger
    /\ worker' = [worker EXCEPT ![w] = Free]
    /\ UNCHANGED <<outboxVars, queue, saved, faults>>

\* Time passes: a claim becomes old, also while its sender is only slow. A notification
\* is delivered and its outbox run by one thread, so only a lost claim grows old there.
HeldBy(e) == {w \in Worker : worker[w].event = e /\ worker[w].claim = ledger[e].claim}
GrowOld(e) ==
    \/ /\ ledger[e].status = "SENDING" /\ ~ledger[e].old
       /\ ledger[e].claim < MaxClaims \/ HeldBy(e) = {}
       /\ ledger' = [ledger EXCEPT ![e].old = TRUE]
       /\ UNCHANGED <<outboxVars, queue, saved, worker, faults>>
    \/ /\ delivery[e].status = "CLAIMED" /\ ~delivery[e].old
       /\ runner.pc \notin {"post", "complete"}
       /\ delivery' = [delivery EXCEPT ![e].old = TRUE]
       /\ UNCHANGED <<journal, captured, posted, runner, queue, ledgerVars, faults>>

-----------------------------------------------------------------------------
RunnerStep ==
    \/ Capture \/ ClaimDelivery \/ Complete \/ Offer \/ SummaryOutbox \/ Tick
    \/ \E reached, error \in BOOLEAN : (~reached => error) /\ Post(reached, error)
WorkerStep(w) ==
    \/ Recover(w) \/ Save(w) \/ ClaimAlert(w) \/ CompleteAlert(w)
    \/ \E result \in {"ok", "retry", "refused"} : Send(w, result)

AlertNext ==
    \/ \E e \in Event : WriteRow(e) \/ GrowOld(e)
    \/ RunnerStep \/ TakeQueued \/ Die
    \/ \E after \in BOOLEAN : CaptureFails(after)
    \/ \E w \in Worker : WorkerStep(w)

\* Every thread that can go on does, and time passes.
AlertFairness ==
    /\ WF_alertVars(RunnerStep) /\ WF_alertVars(TakeQueued)
    /\ \A e \in Event : WF_alertVars(GrowOld(e))
    /\ \A w \in Worker : WF_alertVars(WorkerStep(w))
AlertSpec == AlertInit /\ [][AlertNext]_alertVars /\ AlertFairness

-----------------------------------------------------------------------------
\* A notification is posted at most once, whatever crashes between its claim and its
\* outcome, and one that is recorded as delivered was posted (claim_notification_delivery:
\* "At-most-once external attempt").
PostedOnce ==
    \A e \in Event : /\ posted[e] <= 1
                     /\ delivery[e].status = "DELIVERED" => posted[e] = 1

\* The outcome of an alert is that of the sender whose claim it is: one whose claim was
\* taken over cannot record its own ("a slow original sender cannot overwrite the
\* recovering one", alert_dispatch.py).
OutcomeOfClaim ==
    \A e \in Event : ledger[e].status \in {"DELIVERED", "FAILED"} => ledger[e].status = ledger[e].met

\* A notification is posted at most once, and the outcome of an alert is that of the sender
\* whose claim it is.
AlertsAccounted == PostedOnce /\ OutcomeOfClaim

\* A daily summary that was written is attempted, or known to be ambiguous, in the end,
\* at whichever step the process died or a capture failed (_summary_outbox).
SummaryServed ==
    \A e \in Summary : e \in journal ~> delivery[e].status \in {"DELIVERED", "FAILED", "UNKNOWN"}

\* An alert whose snapshot was saved is delivered or refused in the end, also when its
\* sender died (recover_pending).
AlertServed == \A e \in Event : e \in saved ~> ledger[e].status \in {"DELIVERED", "FAILED"}
=============================================================================
