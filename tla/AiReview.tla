------------------------------ MODULE AiReview ------------------------------
(***************************************************************************)
(* The AI review of a cycle: five agents called in turn (ai/orchestrator), *)
(* each through the validation of ai/runtime, the guard of ai/resilience   *)
(* and the retries of ai/openai_provider; one retry of the macro review    *)
(* (runtime/service), the provider's health (ai/provider_health) with its  *)
(* alerts (ai/alerts), and the decision of runtime/gates.                  *)
(*                                                                         *)
(* Time is what is left of the cycle's budget. An answer is known by what  *)
(* the validator makes of it; a failure by whether it is worth a retry.    *)
(***************************************************************************)
EXTENDS Naturals, Sequences

CONSTANTS
    Budget,         \* moments of ai_cycle_budget_seconds
    MaxTake,        \* bound: moments of one transport call
    Retries,        \* OpenAIProvider.retries
    FailedAfter,    \* ProviderHealthTracker.failed_after
    MaxCycles, MaxOdd, MaxRestarts   \* bounds

ASSUME AiAssumption == Budget \in Nat /\ MaxTake \in Nat

Agents == <<"structure", "liquidity", "macro", "setup", "trade">>
Base == {"PLAN_READY", "RISK_REJECTED", "WATCH"}
\* What the provider answers (OK or PARTIAL; NO_DATA; ERROR, or refused by
\* validate_ai_response) and how a call fails, one kind for each treatment.
Answers == {"OK", "NO_DATA", "REFUSED"}
Transient == {"RATE_LIMITED"}           \* 408, 409, 429, 5xx, no connection
NonTransient == {"QUOTA_EXHAUSTED"}     \* and AUTH_ERROR, MODEL_UNAVAILABLE, NOT_CONFIGURED
Failures == Transient \cup NonTransient \cup {"INVALID_RESPONSE"}

VARIABLES
    review,     \* the floor under way
    guard,      \* AICycleGuard of the cycle
    health,     \* ProviderHealthTracker
    alerts,     \* AIProviderAlerts: keys delivered in this life
    sent,       \* alerts handed to the sink in this life
    reviewState,\* runtime state ai_review_health:<symbol>
    notified,   \* journal rows of the review's health that notify
    spentAi     \* cycles, odd calls and restarts so far

aiVars == <<review, guard, health, alerts, sent, reviewState, notified, spentAi>>

NoReview == [pc |-> "idle", agent |-> 1, pass |-> 1, base |-> "WATCH", usable |-> FALSE, got |-> <<>>, attempt |-> 1,
             hard |-> FALSE, eligible |-> FALSE]

AiInit ==
    /\ review = NoReview
    /\ guard = [left |-> Budget, tripped |-> FALSE]
    /\ health = [state |-> "UNKNOWN", failures |-> 0, incident |-> FALSE, recovered |-> 0, events |-> <<>>]
    /\ alerts = {} /\ sent = <<>> /\ reviewState = "OK" /\ notified = <<>>
    /\ spentAi = [cycles |-> 0, odd |-> 0, restarts |-> 0]

-----------------------------------------------------------------------------
\* ProviderHealthTracker.observe.

Failed(h, outcome) == outcome \in NonTransient \/ h.failures + 1 >= FailedAfter
Observe(h, outcome) ==
    IF outcome \in Answers
    THEN [h EXCEPT !.state = "READY", !.failures = 0, !.incident = FALSE,
                   !.recovered = IF h.incident THEN @ + 1 ELSE @,
                   !.events = IF h.state \in {"DEGRADED", "FAILED"}
                              THEN Append(@, [event |-> "RECOVERED", incident |-> h.recovered]) ELSE @]
    ELSE LET state == IF Failed(h, outcome) THEN "FAILED" ELSE "DEGRADED" IN
         [h EXCEPT !.state = state, !.failures = @ + 1, !.incident = TRUE,
                   !.events = IF h.state = state THEN @ ELSE Append(@, [event |-> state, incident |-> h.recovered])]

-----------------------------------------------------------------------------
\* One AI floor.

BeginCycle ==
    /\ review.pc = "idle" /\ spentAi.cycles < MaxCycles
    /\ spentAi' = [spentAi EXCEPT !.cycles = @ + 1]
    /\ guard' = [left |-> Budget, tripped |-> FALSE]
    /\ \E base \in Base, usable \in BOOLEAN :
         review' = [NoReview EXCEPT !.pc = "agent", !.base = base, !.usable = usable]
    /\ UNCHANGED <<health, alerts, sent, reviewState, notified>>

Agent == Agents[review.agent]
\* The reviewers' requests always hold an item; the macro request holds what the macro report did.
HasUsableEvidence == Agent # "macro" \/ review.usable
AllDone(r) == r.agent > (IF r.base = "WATCH" THEN 4 ELSE 5)     \* no plan: no trade review
\* hard (observed): in this cycle the budget was spent or a failure tripped the guard.
Got(status) ==
    LET r == [review EXCEPT !.got = Append(@, status), !.agent = @ + 1, !.attempt = 1,
                            !.hard = @ \/ guard'.left = 0 \/ guard'.tripped] IN
    review' = [r EXCEPT !.pc = IF AllDone(r) THEN "reviewed" ELSE "agent"]

\* call_agent without anything to interpret.
SkipAgent ==
    /\ review.pc = "agent" /\ ~HasUsableEvidence
    /\ UNCHANGED guard /\ Got("NO_DATA")
    /\ UNCHANGED <<health, alerts, sent, reviewState, notified, spentAi>>

\* GuardedProvider.generate before the call, or _post before an attempt: SHORT_CIRCUITED or
\* AI_TIME_BUDGET_EXHAUSTED, which say nothing of the provider.
GuardRefuses ==
    /\ review.pc = "agent" /\ HasUsableEvidence
    /\ guard.tripped \/ guard.left = 0
    /\ UNCHANGED guard /\ Got("ERROR")
    /\ UNCHANGED <<health, alerts, sent, reviewState, notified, spentAi>>

\* Everything but a plain answer is bounded.
Odd(yes) == IF yes THEN spentAi.odd < MaxOdd /\ spentAi' = [spentAi EXCEPT !.odd = @ + 1] ELSE UNCHANGED spentAi
Less(d) == IF guard.left > d THEN guard.left - d ELSE 0
Status(answer) == CASE answer = "OK" -> "OK" [] answer = "NO_DATA" -> "NO_DATA" [] answer = "REFUSED" -> "ERROR"

Answered_Late(answer, d) ==   \* mutant: the budget is not looked at after the call
    /\ review.pc = "agent" /\ HasUsableEvidence /\ ~guard.tripped /\ guard.left > 0
    /\ guard' = [guard EXCEPT !.left = Less(d)]
    /\ health' = Observe(health, answer)
    /\ Got(Status(answer))
    /\ Odd(answer # "OK")
    /\ UNCHANGED <<alerts, sent, reviewState, notified>>
\* The provider answers: observed as a success, then refused if the budget is spent by now.
Answered(answer, d) ==
    /\ review.pc = "agent" /\ HasUsableEvidence /\ ~guard.tripped /\ guard.left > 0
    /\ guard' = [guard EXCEPT !.left = Less(d)]
    /\ health' = Observe(health, answer)
    /\ Got(IF guard'.left = 0 THEN "ERROR" ELSE Status(answer))
    /\ Odd(answer # "OK")
    /\ UNCHANGED <<alerts, sent, reviewState, notified>>

\* _post: another attempt if the failure may pass, attempts are left and it can begin in time;
\* otherwise the failure is raised, classified and observed.
Fails(kind, d) ==
    /\ review.pc = "agent" /\ HasUsableEvidence /\ ~guard.tripped /\ guard.left > 0
    /\ Odd(TRUE)
    /\ IF kind \in Transient /\ review.attempt <= Retries /\ Less(d + 1) > 0
       THEN /\ \E jitter \in 0..1 : guard' = [guard EXCEPT !.left = Less(d + 1 + jitter)]   \* the back-off
            /\ review' = [review EXCEPT !.attempt = @ + 1]
            /\ health' = health
       ELSE /\ guard' = [left |-> Less(d), tripped |-> guard.tripped \/ kind \in NonTransient]
            /\ health' = Observe(health, kind)
            /\ Got("ERROR")
    /\ UNCHANGED <<alerts, sent, reviewState, notified>>

-----------------------------------------------------------------------------
\* The macro review of the cycle.

Macro(r) == r.got[3]
\* _note_ai_review_health, one transaction; a failure of it is swallowed.
Note(unhealthy) ==
    \/ /\ unhealthy # (reviewState = "UNHEALTHY")
       /\ reviewState' = (IF unhealthy THEN "UNHEALTHY" ELSE "OK")
       /\ notified' = Append(notified, reviewState')
    \/ unhealthy = (reviewState = "UNHEALTHY") /\ UNCHANGED <<reviewState, notified>>
    \/ /\ spentAi.odd < MaxOdd
       /\ UNCHANGED <<reviewState, notified>>

\* _macro_review_matters: a plan is ready or an order is pending; then the floor is run again
\* and, if the macro report has something now, the AI floor too, under the same guard.
MacroUnhealthy ==
    /\ review.pc = "reviewed" /\ Macro(review) = "NO_DATA" /\ review.pass = 1
    /\ Note(TRUE)
    /\ \E matters \in (IF review.base = "PLAN_READY" THEN {TRUE} ELSE BOOLEAN) :
         /\ matters
         /\ \/ \E base \in Base : review' = [NoReview EXCEPT !.pc = "agent", !.base = base, !.usable = TRUE, !.pass = 2,
                                                 !.hard = review.hard]
            \/ review' = [review EXCEPT !.pc = "second"]
    /\ guard' = guard
    /\ UNCHANGED <<health, alerts, sent, spentAi>>
MacroKnown ==
    /\ review.pc \in {"reviewed", "second"}
    /\ \/ review.pass = 2 /\ review.pc = "reviewed" /\ Note(Macro(review) # "OK")
       \/ review.pc = "second" /\ Note(TRUE)
       \/ review.pass = 1 /\ review.pc = "reviewed" /\ Macro(review) = "OK" /\ Note(FALSE)
       \/ review.pass = 1 /\ review.pc = "reviewed" /\ UNCHANGED <<reviewState, notified>>
          /\ (Macro(review) = "ERROR" \/ (Macro(review) = "NO_DATA" /\ review.base # "PLAN_READY"))
    /\ review' = [review EXCEPT !.pc = "decide"]
    /\ UNCHANGED <<guard, health, alerts, sent, spentAi>>

-----------------------------------------------------------------------------
\* The cycle's decision, and what its events tell.

\* _final_status and paper_policy; objects: a reviewer that answered recommends against the plan.
FinalStatus(r, objects) == IF r.base = "PLAN_READY" /\ objects THEN "AI_CAUTION" ELSE r.base
PaperPolicy(r, objects) ==
    FinalStatus(r, objects) = "PLAN_READY" /\ Len(r.got) = 5 /\ \A a \in 1..5 : r.got[a] = "OK"

TellEvent_Each ==   \* mutant: every transition is sent
    /\ review.pc = "decide" /\ health.events # <<>>
    /\ IF Head(health.events).event \in {"FAILED", "RECOVERED"}
       THEN sent' = Append(sent, Head(health.events)) /\ alerts' = alerts \cup {Head(health.events)}
       ELSE UNCHANGED <<sent, alerts>>
    /\ health' = [health EXCEPT !.events = Tail(@)]
    /\ UNCHANGED <<review, guard, reviewState, notified, spentAi>>
\* AIProviderAlerts.process of the drained events, one by one: FAILED and RECOVERED, once per incident.
TellEvent ==
    /\ review.pc = "decide" /\ health.events # <<>>
    /\ LET e == Head(health.events) IN
       IF e.event \in {"FAILED", "RECOVERED"} /\ e \notin alerts
       THEN sent' = Append(sent, e) /\ alerts' = alerts \cup {e}
       ELSE UNCHANGED <<sent, alerts>>
    /\ health' = [health EXCEPT !.events = Tail(@)]
    /\ UNCHANGED <<review, guard, reviewState, notified, spentAi>>
Decide ==
    /\ review.pc = "decide" /\ health.events = <<>>
    /\ \E objects \in BOOLEAN :
         review' = [NoReview EXCEPT !.base = review.base, !.hard = review.hard, !.eligible = PaperPolicy(review, objects)]
    /\ UNCHANGED <<guard, health, alerts, sent, reviewState, notified, spentAi>>

\* The process ends: the tracker and the alerts begin again, the runtime state stays.
Restart ==
    /\ spentAi.restarts < MaxRestarts /\ spentAi' = [spentAi EXCEPT !.restarts = @ + 1]
    /\ review' = NoReview
    /\ guard' = [left |-> Budget, tripped |-> FALSE]
    /\ health' = [state |-> "UNKNOWN", failures |-> 0, incident |-> FALSE, recovered |-> 0, events |-> <<>>]
    /\ alerts' = {} /\ sent' = <<>>
    /\ UNCHANGED <<reviewState, notified>>

AiNext ==
    \/ BeginCycle \/ SkipAgent \/ GuardRefuses \/ MacroUnhealthy \/ MacroKnown \/ TellEvent \/ Decide \/ Restart
    \/ \E d \in 0..MaxTake : (\E a \in Answers : Answered(a, d)) \/ (\E k \in Failures : Fails(k, d))
AiSpec == AiInit /\ [][AiNext]_aiVars

-----------------------------------------------------------------------------
\* An order is possible only in a cycle whose whole review fitted its budget and met no
\* failure that a retry cannot mend, also when the floor was run a second time for its macro
\* review: every guard outcome "can only remove execution eligibility" (resilience.py).
EligibleIsReviewed == review.eligible => ~review.hard /\ review.base = "PLAN_READY"

\* An outage is told once and its end once: alerts of the provider, within a life, and notices
\* of the macro review, across lives, alternate, whatever the states between them were and
\* whichever rows could not be written.
Alternates(s, bad) == \A i \in 1..Len(s) - 1 : s[i] = bad => s[i + 1] # bad
OutageToldOnce ==
    /\ Alternates([i \in DOMAIN sent |-> sent[i].event], "FAILED")
    /\ Alternates(notified, "UNHEALTHY") /\ Alternates(notified, "OK")

\* An AI review that makes a cycle eligible was complete and within its budget, and an outage of
\* the provider is told once.
ReviewKept == EligibleIsReviewed /\ OutageToldOnce
=============================================================================
