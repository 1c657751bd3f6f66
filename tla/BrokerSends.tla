----------------------------- MODULE BrokerSends -----------------------------
(* What a broker adapter sends: one opening request through the switches of   *)
(* the account registry, the pre-submit reads, the bounded retries of the     *)
(* client and the reading of the answer, while an operator in this or in      *)
(* another process raises and clears the emergency stop.  Both demo adapters  *)
(* are modelled: OANDA (guarded before every attempt, unknown ids latched)    *)
(* and DXtrade (guarded once, one re-login, no latch).                        *)
EXTENDS Naturals, FiniteSets

CONSTANTS
    Ids,        \* client ids
    Max429,     \* retries of a rate-limited request
    MaxOps      \* bound: operator actions

VARIABLES
    adapter,     \* the adapter of this instance
    reg,         \* the registry's database: readable, switch, emergency flag
    stopLatch,   \* the in-memory emergency latch of each process
    stopping,    \* processes inside emergency_stop, after the latch
    sending,     \* the trader's call in progress (the adapter's lock admits one)
    unresolved,  \* ids latched by the adapter
    held,        \* the broker's state of each id
    flight,      \* requests without an answer that the broker may still process
    created,     \* orders the broker has made of each id
    answer,      \* what the last call that sent something for the id answered
    late,        \* opening attempts that left while the trader is stopped
    ops          \* operator actions so far

sendVars == <<adapter, reg, stopLatch, stopping, sending, unresolved, held, flight, created, answer, late, ops>>

Proc == {"trader", "dashboard"}
NotSending == [pc |-> "idle", kind |-> "none", id |-> "none", tries |-> 0, relogged |-> FALSE]

SendsInit ==
    /\ adapter = "none"
    /\ reg = [ok |-> TRUE, enabled |-> FALSE, stop |-> FALSE]
    /\ stopLatch = [p \in Proc |-> FALSE]
    /\ stopping = {}
    /\ sending = NotSending
    /\ unresolved = {}
    /\ \E before \in SUBSET Ids :    \* a trade of an earlier process
          /\ Cardinality(before) <= 1
          /\ held = [i \in Ids |-> IF i \in before THEN "open" ELSE "none"]
    /\ flight = {}
    /\ created = [i \in Ids |-> 0]
    /\ answer = [i \in Ids |-> "none"]
    /\ late = 0
    /\ ops = 0

-----------------------------------------------------------------------------
(* The account registry.                                                    *)

\* Everything unreadable is a stop.
IsAllowed(p) == ~stopLatch[p] /\ reg.ok /\ ~reg.stop /\ reg.enabled
Stopped == ~IsAllowed("trader")

\* Every operator action ends by forgetting the late attempts of a stop that is over.
OperatorActs ==
    /\ ops < MaxOps
    /\ ops' = ops + 1
    /\ late' = IF ~stopLatch'["trader"] /\ reg'.ok /\ ~reg'.stop /\ reg'.enabled THEN 0 ELSE late
    /\ UNCHANGED <<adapter, sending, unresolved, held, flight, created, answer>>

\* Switching on is refused under an emergency of this process or of the database.
SetEnabled(p, on) ==
    /\ reg.ok
    /\ on => ~stopLatch[p] /\ ~reg.stop
    /\ reg.enabled # on
    /\ reg' = [reg EXCEPT !.enabled = on]
    /\ UNCHANGED <<stopLatch, stopping>>
    /\ OperatorActs
\* The stop latches this process before it is written, and the write may fail.
EmergencyLatch(p) ==
    /\ p \notin stopping
    /\ stopLatch' = [stopLatch EXCEPT ![p] = TRUE]
    /\ stopping' = stopping \cup {p}
    /\ UNCHANGED reg
    /\ OperatorActs
EmergencyWrite(p) ==
    /\ p \in stopping
    /\ stopping' = stopping \ {p}
    /\ \/ reg.ok /\ reg' = [reg EXCEPT !.enabled = FALSE, !.stop = TRUE]
       \/ UNCHANGED reg
    /\ UNCHANGED <<adapter, stopLatch, sending, unresolved, held, flight, created, answer, late, ops>>
\* Clearing leaves every switch off, and releases only this process's latch.
ClearStop(p) ==
    /\ reg.ok
    /\ stopLatch[p] \/ reg.stop
    /\ reg' = [reg EXCEPT !.enabled = FALSE, !.stop = FALSE]
    /\ stopLatch' = [stopLatch EXCEPT ![p] = FALSE]
    /\ UNCHANGED stopping
    /\ OperatorActs
DatabaseTurns ==
    /\ reg' = [reg EXCEPT !.ok = ~@]
    /\ UNCHANGED <<stopLatch, stopping>>
    /\ OperatorActs

-----------------------------------------------------------------------------
(* The adapter.                                                             *)

Ends == sending' = NotSending
AccountStill == UNCHANGED <<adapter, reg, stopLatch, stopping, ops>>
Leaves == late' = IF Stopped THEN late + 1 ELSE late
Still == UNCHANGED <<held, flight, created>>

\* An adapter is only made with the switch on and no emergency; one made to
\* close positions after an emergency restart needs neither, and never opens.
Construct(kind) ==
    /\ adapter = "none"
    /\ kind # "close_only" => IsAllowed("trader")
    /\ adapter' = kind
    /\ UNCHANGED <<reg, stopLatch, stopping, ops, sending, unresolved, answer, late>> /\ Still

\* OANDA: _ensure_open_allowed, then an id latched by an earlier unknown answer
\* is only looked up, never posted again.
OandaSubmit(id) ==
    /\ sending.pc = "idle"
    /\ adapter = "oanda"
    /\ IsAllowed("trader")
    /\ \/ /\ id \notin unresolved
          /\ sending' = [NotSending EXCEPT !.pc = "gate", !.kind = "OPEN", !.id = id]
          /\ UNCHANGED <<unresolved, answer>>
       \/ /\ id \in unresolved
          /\ held[id] # "none"
          /\ unresolved' = unresolved \ {id}
          /\ answer' = [answer EXCEPT ![id] = "ACCEPTED"]
          /\ UNCHANGED sending
    /\ Still /\ UNCHANGED late /\ AccountStill
\* DXtrade posts the group of entry, stop and target at once; the caller
\* submits an id a single time.
DxSubmit(id) ==
    /\ sending.pc = "idle"
    /\ adapter = "dxtrade"
    /\ IsAllowed("trader")
    /\ answer[id] = "none" /\ held[id] = "none"
    /\ sending' = [NotSending EXCEPT !.pc = "send", !.kind = "OPEN", !.id = id]
    /\ Still /\ UNCHANGED <<unresolved, answer, late>> /\ AccountStill

\* The reads before a POST: the id or another trade is there, a read failed or
\* the instrument is not tradeable, or the id is latched and goes on.
SubmitGate ==
    /\ sending.pc = "gate"
    /\ \/ Ends /\ UNCHANGED unresolved
       \/ /\ \A i \in Ids : held[i] # "open"
          /\ held[sending.id] = "none"
          /\ unresolved' = unresolved \cup {sending.id}
          /\ sending' = [sending EXCEPT !.pc = "guard"]
    /\ Still /\ UNCHANGED <<answer, late>> /\ AccountStill

\* Moving the stop of an open trade is guarded like an entry.
Modify(id) ==
    /\ sending.pc = "idle"
    /\ adapter = "oanda"
    /\ IsAllowed("trader")
    /\ held[id] = "open"
    /\ sending' = [NotSending EXCEPT !.pc = "guard", !.kind = "MODIFY", !.id = id]
    /\ Still /\ UNCHANGED <<unresolved, answer, late>> /\ AccountStill
\* DXtrade sends it under the version it read; a stale version is read and sent
\* once more.
DxModify(id) ==
    /\ sending.pc = "idle"
    /\ adapter = "dxtrade"
    /\ IsAllowed("trader")
    /\ held[id] = "open"
    /\ sending' = [NotSending EXCEPT !.pc = "send", !.kind = "MODIFY", !.id = id]
    /\ Still /\ UNCHANGED <<unresolved, answer, late>> /\ AccountStill
StaleVersion ==
    /\ sending.pc = "send" /\ sending.kind = "MODIFY"
    /\ adapter = "dxtrade"
    /\ \/ sending' = [sending EXCEPT !.kind = "MODIFY2", !.tries = 0, !.relogged = FALSE]
       \/ Ends
    /\ Still /\ Leaves /\ UNCHANGED <<unresolved, answer>> /\ AccountStill

\* Closing is never guarded, by any adapter: what is open when the request is
\* processed is closed.
CloseMarket(id) ==
    /\ sending.pc = "idle"
    /\ adapter # "none"
    /\ held[id] = "open"
    /\ held' = [held EXCEPT ![id] = "closed"]
    /\ UNCHANGED <<sending, unresolved, flight, created, answer, late>> /\ AccountStill

AnswerIs(id, what) == answer' = IF sending.kind = "OPEN" THEN [answer EXCEPT ![id] = what] ELSE answer
Released == unresolved' = unresolved \ {sending.id}

\* The guard runs after every wait, right before the attempt.
PreSendGuard ==
    /\ sending.pc = "guard"
    /\ \/ /\ Stopped
          /\ Ends
          /\ Released
          /\ AnswerIs(sending.id, "RAISED")
       \/ /\ ~Stopped
          /\ sending' = [sending EXCEPT !.pc = "send"]
          /\ UNCHANGED <<unresolved, answer>>
    /\ Still /\ UNCHANGED late /\ AccountStill

-----------------------------------------------------------------------------
(* The client: one attempt, and what is made of its answer.                 *)

Made(id) == /\ held' = IF sending.kind = "OPEN" THEN [held EXCEPT ![id] = "open"] ELSE held
            /\ created' = IF sending.kind = "OPEN" THEN [created EXCEPT ![id] = @ + 1] ELSE created
            /\ UNCHANGED flight

\* A 2xx with evidence, or without (the order may or may not exist).
TakenByBroker ==
    /\ sending.pc = "send"
    /\ Made(sending.id)
    /\ \/ AnswerIs(sending.id, "ACCEPTED") /\ Released
       \/ AnswerIs(sending.id, "UNKNOWN") /\ UNCHANGED unresolved
    /\ Ends /\ Leaves /\ AccountStill
\* A definite refusal: nothing was processed.
RefusedByBroker ==
    /\ sending.pc = "send"
    /\ \/ AnswerIs(sending.id, "REJECTED")
       \/ /\ adapter = "oanda" \/ sending.relogged
          /\ AnswerIs(sending.id, "RAISED")
    /\ Ends /\ Released /\ Still /\ Leaves /\ AccountStill
\* A timeout, a 5xx or an unreadable answer: processed, still on its way, or
\* lost.  A trading request is never repeated.
\* Mutant: the ambiguous answer is a refusal.
Ambiguous_Refused ==
    /\ sending.pc = "send"
    /\ \/ Made(sending.id)
       \/ sending.kind = "OPEN" /\ flight' = flight \cup {sending.id} /\ UNCHANGED <<held, created>>
       \/ Still
    /\ Ends /\ Released /\ AnswerIs(sending.id, "REJECTED") /\ Leaves /\ AccountStill
Ambiguous ==
    /\ sending.pc = "send"
    /\ \/ Made(sending.id)
       \/ sending.kind = "OPEN" /\ flight' = flight \cup {sending.id} /\ UNCHANGED <<held, created>>
       \/ Still
    /\ AnswerIs(sending.id, "UNKNOWN")
    /\ sending' = IF adapter = "oanda" /\ sending.kind = "OPEN" THEN [sending EXCEPT !.pc = "reconcile"] ELSE NotSending
    /\ UNCHANGED unresolved /\ Leaves /\ AccountStill
\* 429: not processed, repeated after a wait, through the guard for OANDA.
\* Mutant: a retry does not pass the guard again.
RateLimited_Unguarded ==
    /\ sending.pc = "send"
    /\ \/ /\ sending.tries < Max429
          /\ sending' = [sending EXCEPT !.tries = @ + 1]
          /\ UNCHANGED <<unresolved, answer>>
       \/ sending.tries = Max429 /\ Ends /\ Released /\ AnswerIs(sending.id, "RAISED")
    /\ Still /\ Leaves /\ AccountStill
RateLimited ==
    /\ sending.pc = "send"
    /\ \/ /\ sending.tries < Max429
          /\ sending' = [sending EXCEPT !.tries = @ + 1, !.pc = IF adapter = "oanda" THEN "guard" ELSE "send"]
          /\ UNCHANGED <<unresolved, answer>>
       \/ sending.tries = Max429 /\ Ends /\ Released /\ AnswerIs(sending.id, "RAISED")
    /\ Still /\ Leaves /\ AccountStill
\* DXtrade: one new login for a rejected session, then the request again.
Relogin ==
    /\ sending.pc = "send"
    /\ adapter = "dxtrade" /\ ~sending.relogged
    /\ \/ sending' = [sending EXCEPT !.relogged = TRUE] /\ UNCHANGED answer
       \/ Ends /\ AnswerIs(sending.id, "RAISED")
    /\ Still /\ Leaves /\ UNCHANGED unresolved /\ AccountStill

\* One read after an ambiguous POST: found is accepted; absence proves nothing.
ReconcileSubmit ==
    /\ sending.pc = "reconcile"
    /\ \/ held[sending.id] # "none" /\ AnswerIs(sending.id, "ACCEPTED") /\ Released
       \/ UNCHANGED <<answer, unresolved>>
    /\ Ends /\ Still /\ UNCHANGED late /\ AccountStill

LateArrival(id) ==
    /\ id \in flight
    /\ flight' = flight \ {id}
    /\ held' = [held EXCEPT ![id] = "open"]
    /\ created' = [created EXCEPT ![id] = @ + 1]
    /\ UNCHANGED <<sending, unresolved, answer, late>> /\ AccountStill

SendsNext ==
    \/ \E p \in Proc : \/ \E on \in BOOLEAN : SetEnabled(p, on)
                       \/ EmergencyLatch(p) \/ EmergencyWrite(p) \/ ClearStop(p)
    \/ DatabaseTurns
    \/ \E kind \in {"oanda", "dxtrade", "close_only"} : Construct(kind)
    \/ \E id \in Ids : OandaSubmit(id) \/ DxSubmit(id) \/ Modify(id) \/ DxModify(id) \/ CloseMarket(id) \/ LateArrival(id)
    \/ SubmitGate \/ PreSendGuard \/ TakenByBroker \/ RefusedByBroker \/ Ambiguous \/ RateLimited \/ Relogin
    \/ StaleVersion
    \/ ReconcileSubmit
SendsSpec == SendsInit /\ [][SendsNext]_sendVars

-----------------------------------------------------------------------------
(* With OANDA, from the moment the trader is stopped (an emergency of its own *)
(* process or of another, the switch off, the registry unreadable) at most    *)
(* one opening attempt still leaves: the one that had passed its guard        *)
(* (_pre_send_guard).                                                         *)
StopIsHeard == adapter = "oanda" => late <= 1

(* A definite answer is true: after a refusal or an error of the call that    *)
(* sent it, no order of the id exists or can still appear (_submit_plan,      *)
(* _trade); and OANDA never makes two orders of one id in a process, however  *)
(* often it is submitted.                                                     *)
DefiniteIsTrue ==
    \A id \in Ids :
        /\ answer[id] \in {"REJECTED", "RAISED"} /\ sending.id # id => held[id] = "none" /\ id \notin flight
        /\ adapter = "oanda" => created[id] <= 1
=============================================================================
