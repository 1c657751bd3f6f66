---------------------------- MODULE BrokerAlerts -----------------------------
(* The router's alerts: events offered to the sink (deduplicated per kind,   *)
(* reason and, for the trade reports, trade; capped per hour; queued for one *)
(* daemon worker that posts to Slack and to email), and the durable outbox   *)
(* of a completed manual close, claimed before it is handed to the sink.     *)
EXTENDS Naturals, Sequences, FiniteSets

CONSTANTS
    TradeId,      \* the trades of the demo
    DedupSeconds, \* a repeated report within this time is dropped
    HourlyCap,    \* reports accepted per Hour
    Hour,         \* the window of HourlyCap
    QueueMax,     \* items waiting for the worker
    Grace,        \* age at which a claim without an outcome is given up
    MaxClock,     \* bound: time
    MaxOffers,    \* bound: events offered
    MaxAlertCrashes    \* bound: restarts of the router process

VARIABLES
    clock,    \* the process clock
    rich,     \* the reports are built from the trade's row
    sink,     \* the sink's memory: last acceptance per key, acceptances, queue
    outbox,   \* the durable rows of completed manual closes
    drain,    \* rows claimed and not yet finished by this process
    accepted, \* the acceptances of this process: [event, at], the latest per event
    offer,    \* the last event offered, when, and what became of it
    offered,  \* events offered so far
    handed,   \* rows handed to the sink, in order
    alertCrashes \* restarts so far

alertVars == <<clock, rich, sink, outbox, drain, accepted, offer, offered, handed, alertCrashes>>

RichKinds == {"ACCEPTED", "CLOSED", "CLOSED_AT_BROKER"}
FoldedKinds == {"MANUAL_CLOSE"}
NoTrade == "none"
\* The reports this model offers; reasons are abstracted to the kind.
Event == [kind : {"CLOSED"}, trade : TradeId] \cup {[kind |-> "DRIFT", trade |-> NoTrade]}

EmptySink == [last |-> {}, sent |-> <<>>, queue |-> <<>>]

BrokerAlertsInit ==
    /\ clock = 0
    /\ rich \in BOOLEAN
    /\ sink = EmptySink
    /\ outbox = [t \in TradeId |-> [status |-> "none", at |-> 0]]
    /\ drain = {}
    /\ accepted = {}
    /\ offer = [event |-> [kind |-> "none", trade |-> NoTrade], at |-> 0, verdict |-> "none"]
    /\ offered = 0
    /\ handed = <<>>
    /\ alertCrashes = 0

-----------------------------------------------------------------------------
(* The sink.                                                                *)

\* Mutant: the trade is left out of the key.
KeyOf_Kind(event) == [kind |-> event.kind, trade |-> NoTrade]
KeyOf(event) == [kind |-> event.kind, trade |-> IF event.kind \in RichKinds THEN event.trade ELSE NoTrade]

Recent(s) == SelectSeq(s.sent, LAMBDA at : clock - at < Hour)
Duplicate(s, key) == \E l \in s.last : l.key = key /\ clock - l.at < DedupSeconds
\* What becomes of an event: the key is remembered before the queue is tried.
Verdict(s, event) ==
    IF rich /\ event.kind \in FoldedKinds THEN "folded"
    ELSE IF Duplicate(s, KeyOf(event)) THEN "duplicate"
    ELSE IF Len(Recent(s)) >= HourlyCap THEN "capped"
    ELSE IF Len(s.queue) >= QueueMax THEN "full"
    ELSE "queued"
\* The hour's window is only trimmed once the duplicates are out of the way.
SinkAfter(s, event) ==
    LET v == Verdict(s, event)
    IN  CASE v \in {"folded", "duplicate"} -> s
          [] v = "capped" -> [s EXCEPT !.sent = Recent(s)]
          [] OTHER -> [last |-> {l \in s.last : l.key # KeyOf(event)} \cup {[key |-> KeyOf(event), at |-> clock]},
                       sent |-> Append(Recent(s), clock),
                       queue |-> IF v = "queued" THEN Append(s.queue, event) ELSE s.queue]
Offered(event) ==
    /\ offer' = [event |-> event, at |-> clock, verdict |-> Verdict(sink, event)]
    /\ accepted' = IF Verdict(sink, event) \in {"queued", "full"}
                   THEN {a \in accepted : a.event # event} \cup {[event |-> event, at |-> clock]} ELSE accepted

\* The router journals an event and offers it to the sink.
RouterEvent ==
    /\ offered < MaxOffers
    /\ offered' = offered + 1
    /\ \E event \in Event :
          /\ sink' = SinkAfter(sink, event)
          /\ Offered(event)
    /\ UNCHANGED <<clock, rich, outbox, drain, handed, alertCrashes>>

\* The worker takes the oldest item and posts it to Slack and to email, each on
\* its own; whatever a post answers, it is not repeated.
DeliverReport ==
    /\ sink.queue # <<>>
    /\ sink' = [sink EXCEPT !.queue = Tail(@)]
    /\ UNCHANGED <<clock, rich, outbox, drain, accepted, offer, offered, handed, alertCrashes>>

-----------------------------------------------------------------------------
(* The outbox of completed manual closes.                                   *)

\* One transaction: the request is consumed and its row is PENDING.
CompleteManual ==
    /\ \E t \in TradeId :
          /\ outbox[t].status = "none"
          /\ outbox' = [outbox EXCEPT ![t].status = "PENDING"]
    /\ UNCHANGED <<clock, rich, sink, drain, accepted, offer, offered, handed, alertCrashes>>

\* One transaction: claims older than the grace become UNKNOWN and pending rows
\* are claimed.
\* Mutant: an old claim is claimed again.
ClaimOutbox_Again ==
    /\ drain = {}
    /\ \E t \in TradeId : outbox[t].status \in {"PENDING", "CLAIMED"}
    /\ drain' = {t \in TradeId : outbox[t].status = "PENDING" \/ (outbox[t].status = "CLAIMED" /\ outbox[t].at + Grace < clock)}
    /\ outbox' = [t \in TradeId |-> IF t \in drain' THEN [status |-> "CLAIMED", at |-> clock] ELSE outbox[t]]
    /\ UNCHANGED <<clock, rich, sink, accepted, offer, offered, handed, alertCrashes>>
ClaimOutbox ==
    /\ drain = {}
    /\ \E t \in TradeId : outbox[t].status \in {"PENDING", "CLAIMED"}
    /\ drain' = {t \in TradeId : outbox[t].status = "PENDING"}
    /\ outbox' = [t \in TradeId |->
                    CASE t \in drain' -> [status |-> "CLAIMED", at |-> clock]
                      [] outbox[t].status = "CLAIMED" /\ outbox[t].at + Grace < clock -> [outbox[t] EXCEPT !.status = "UNKNOWN"]
                      [] OTHER -> outbox[t]]
    /\ UNCHANGED <<clock, rich, sink, accepted, offer, offered, handed, alertCrashes>>

\* The rows claimed are handed to the sink one by one, each finished after it;
\* the finishing write may fail, and the row stays CLAIMED.
HandOver ==
    /\ \E t \in drain, written \in BOOLEAN :
          LET event == [kind |-> "MANUAL_CLOSE", trade |-> t]
          IN  /\ sink' = SinkAfter(sink, event)
              /\ Offered(event)
              /\ handed' = Append(handed, t)
              /\ drain' = drain \ {t}
              /\ outbox' = IF written THEN [outbox EXCEPT ![t].status = "SENT"] ELSE outbox
    /\ UNCHANGED <<clock, rich, offered, alertCrashes>>

\* A restart loses the sink's memory and its queue, and the rows it had claimed
\* (one of them perhaps handed over and not finished).
AlertRestart ==
    /\ alertCrashes < MaxAlertCrashes
    /\ alertCrashes' = alertCrashes + 1
    /\ sink' = EmptySink
    /\ handed' \in {handed} \cup {Append(handed, t) : t \in drain}
    /\ accepted' = {}
    /\ offer' = [offer EXCEPT !.verdict = "none"]
    /\ drain' = {}
    /\ UNCHANGED <<clock, rich, outbox, offered>>

Passes ==
    /\ clock < MaxClock
    /\ clock' = clock + 1
    /\ UNCHANGED <<rich, sink, outbox, drain, accepted, offer, offered, handed, alertCrashes>>

BrokerAlertsNext == RouterEvent \/ DeliverReport \/ CompleteManual \/ ClaimOutbox \/ HandOver \/ AlertRestart \/ Passes
BrokerAlertsSpec == BrokerAlertsInit /\ [][BrokerAlertsNext]_alertVars

-----------------------------------------------------------------------------
(* No report is swallowed by the report of another trade: what was dropped  *)
(* as a duplicate has the same event (of the same trade, for the trade       *)
(* reports) accepted by the same process less than DedupSeconds before       *)
(* (_allowed); and the row of a completed manual close is handed to the sink *)
(* at most once over all restarts (claim_outbox: "never resent").            *)
ReportedOnce ==
    /\ offer.verdict = "duplicate" =>
          \E a \in accepted :
             /\ a.event.kind = offer.event.kind
             /\ offer.event.kind \in RichKinds => a.event = offer.event
             /\ offer.at - a.at < DedupSeconds
    /\ \A i, j \in 1..Len(handed) : handed[i] = handed[j] => i = j
=============================================================================
