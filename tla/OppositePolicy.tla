---------------------------- MODULE OppositePolicy ----------------------------
(***************************************************************************)
(* Closing a paper position for an opposite setup and opening the reverse  *)
(* (execution/opposite_policy.py): two guarded writes of one run under the *)
(* symbol's lock, the first with a DEC14_CLOSE row, the second with the    *)
(* DEC14_DECISION. A process may die or fall asleep between them, and a    *)
(* starting process takes over runs that look dead and abandons their      *)
(* closes. One symbol, its positions and orders named by their run; of the *)
(* other symbols only that they change the account.                        *)
(***************************************************************************)
EXTENDS Naturals, Sequences

CONSTANTS
    Process,
    Slot,       \* runs of the symbol
    Invalid,    \* those whose report is no candidate: its evidence is incomplete
    Old,        \* the position open at the start
    Nobody,
    MaxDeaths,  \* bound: crashes and failed calls
    MaxElsewhere \* bound: writes of the other symbols

ASSUME OppositeAssumption == Nobody \notin Slot /\ Invalid \subseteq Slot

VARIABLES
    paper,      \* the position, the orders, and what the other symbols hold
    rows,       \* run -> its DEC14_CLOSE and its DEC14_DECISION rows
    runs,       \* run -> status of its row in runs
    lock,       \* symbol_locks
    exec,       \* process -> its call of execute
    deaths

oppositeVars == <<paper, rows, runs, lock, exec, deaths>>

Away == [pc |-> "idle", run |-> Nobody, attempt |-> 1, paper |-> Nobody, verdict |-> "NONE"]

OppositeInit ==
    /\ paper = [position |-> Old, order |-> [r \in Slot |-> "NONE"], elsewhere |-> 0]
    /\ rows = [r \in Slot |-> [close |-> FALSE, decision |-> <<>>]]
    /\ runs = [r \in Slot |-> "NEW"]
    /\ lock = Nobody
    /\ exec = [p \in Process |-> Away]
    /\ deaths = 0

Owns(r) == lock = r /\ runs[r] = "RUNNING"
PendingOrder(b) == \E r \in Slot : b.order[r] = "PENDING"
\* What an attempt has loaded ends with it.
Goes(p, pc, attempt) == exec' = [exec EXCEPT ![p] = [Away EXCEPT !.pc = pc, !.run = exec[p].run, !.attempt = attempt]]
Moves(p, pc) == Goes(p, pc, 1)
Decide(r, d) == rows' = [rows EXCEPT ![r].decision = Append(@, d)]

\* A cycle meets an opposite plan with a position and no order (service.py).
Begin(p, r) ==
    /\ exec[p].pc = "idle" /\ runs[r] = "NEW" /\ lock = Nobody
    /\ paper.position # Nobody /\ ~PendingOrder(paper)
    /\ runs' = [runs EXCEPT ![r] = "RUNNING"]
    /\ lock' = r
    /\ exec' = [exec EXCEPT ![p] = [Away EXCEPT !.pc = "prior", !.run = r]]
    /\ UNCHANGED <<paper, rows, deaths>>

Incomplete(r) == rows[r].close /\ rows[r].decision = <<>>
Abandoned(given) ==
    rows' = [r \in Slot |-> IF Incomplete(r) /\ (runs[r] # "RUNNING" \/ r = given)
                            THEN [rows[r] EXCEPT !.decision = <<"ABANDONED">>] ELSE rows[r]]

\* What is no candidate is skipped, with a row at every call. A run that was decided is over;
\* one that was closed is never resumed; and any may be refused for its claim (claim_run: it
\* is another candidate's, or the runtime is halted).
Prior(p) ==
    /\ exec[p].pc = "prior"
    /\ LET r == exec[p].run IN
       CASE ~Owns(r) -> Moves(p, "failed") /\ rows' = rows
         [] Owns(r) /\ r \in Invalid -> Moves(p, "done") /\ Decide(r, "SKIPPED")
         [] OTHER -> \/ Moves(p, "done") /\ rows' = rows
                     \/ Incomplete(r) /\ Moves(p, "done") /\ Abandoned(r)
                     \/ ~rows[r].close /\ rows[r].decision = <<>> /\ Moves(p, "close") /\ rows' = rows
    /\ UNCHANGED <<paper, runs, lock, deaths>>

\* Load for one of the two writes, and what it makes of the state loaded.
Load(p, verdicts) == \E v \in verdicts :
    exec' = [exec EXCEPT ![p].paper = paper, ![p].verdict = v,
                         ![p].pc = IF exec[p].pc = "close" THEN "saveClose" ELSE "saveReserve"]
LoadClose(p) ==
    /\ exec[p].pc = "close"
    /\ Load(p, IF PendingOrder(paper) THEN {"SKIPPED"}
               ELSE IF paper.position = Nobody THEN {"SKIPPED", "CONTINUE"} ELSE {"SKIPPED", "CLOSED"})
    /\ UNCHANGED <<paper, rows, runs, lock, deaths>>
LoadReserve(p) ==
    /\ exec[p].pc = "reserve"
    /\ Load(p, IF PendingOrder(paper) \/ paper.position # Nobody THEN {"SKIPPED"} ELSE {"SKIPPED", "SUBMITTED"})
    /\ UNCHANGED <<paper, rows, runs, lock, deaths>>

\* _guarded_paper_write: a stale attempt is redone once, the second ends the call.
Again(p, pc) == IF exec[p].attempt = 1 THEN Goes(p, pc, 2) ELSE Moves(p, "done")

SaveClose(p) ==
    /\ exec[p].pc = "saveClose"
    /\ LET r == exec[p].run
           v == exec[p].verdict IN
       CASE v = "CONTINUE" -> Moves(p, "reserve") /\ UNCHANGED <<paper, rows>>
         [] v # "CONTINUE" /\ ~Owns(r) -> Moves(p, "failed") /\ UNCHANGED <<paper, rows>>
         [] v # "CONTINUE" /\ Owns(r) /\ paper # exec[p].paper -> Again(p, "close") /\ UNCHANGED <<paper, rows>>
         [] v = "CLOSED" /\ Owns(r) /\ paper = exec[p].paper ->
              /\ paper' = [paper EXCEPT !.position = Nobody]
              /\ rows' = [rows EXCEPT ![r].close = TRUE]
              /\ Moves(p, "reserve")
         [] OTHER -> Decide(r, "SKIPPED") /\ Moves(p, "done") /\ paper' = paper
    /\ UNCHANGED <<runs, lock, deaths>>

SaveReserve_Unowned(p) ==   \* mutant: saved without owner_key
    /\ exec[p].pc = "saveReserve"
    /\ LET r == exec[p].run IN
       IF paper # exec[p].paper THEN Again(p, "reserve") /\ UNCHANGED <<paper, rows>>
       ELSE /\ paper' = IF exec[p].verdict = "SUBMITTED" THEN [paper EXCEPT !.order[r] = "PENDING"] ELSE paper
            /\ Decide(r, exec[p].verdict) /\ Moves(p, "done")
    /\ UNCHANGED <<runs, lock, deaths>>

\* The order, or the reason why there is none, with the decision.
SaveReserve(p) ==
    /\ exec[p].pc = "saveReserve"
    /\ LET r == exec[p].run IN
       CASE ~Owns(r) -> Moves(p, "failed") /\ UNCHANGED <<paper, rows>>
         [] Owns(r) /\ paper # exec[p].paper -> Again(p, "reserve") /\ UNCHANGED <<paper, rows>>
         [] OTHER -> /\ paper' = IF exec[p].verdict = "SUBMITTED" THEN [paper EXCEPT !.order[r] = "PENDING"] ELSE paper
                     /\ Decide(r, exec[p].verdict) /\ Moves(p, "done")
    /\ UNCHANGED <<runs, lock, deaths>>

\* The cycle ends: its run is finished if it still has it.
EndRun(p) ==
    /\ exec[p].pc \in {"done", "failed"}
    /\ LET r == exec[p].run IN
       IF Owns(r) THEN runs' = [runs EXCEPT ![r] = "DONE"] /\ lock' = Nobody ELSE UNCHANGED <<runs, lock>>
    /\ exec' = [exec EXCEPT ![p] = Away]
    /\ UNCHANGED <<paper, rows, deaths>>

\* The call is made again for the same run, or the process dies: its run stays RUNNING.
CallFails(p) ==
    /\ exec[p].pc \notin {"idle", "abandon"} /\ deaths < MaxDeaths /\ deaths' = deaths + 1
    /\ \/ exec' = [exec EXCEPT ![p] = [Away EXCEPT !.pc = "prior", !.run = exec[p].run]]
       \/ exec' = [exec EXCEPT ![p] = Away]
    /\ UNCHANGED <<paper, rows, runs, lock>>

\* Store.recover of a starting process: runs RUNNING for long enough are failed and lose
\* their lock, whether their process is dead or only slow.
RecoverRuns(p) ==
    /\ exec[p].pc = "idle"
    /\ \E stale \in SUBSET {r \in Slot : runs[r] = "RUNNING"} :
         /\ runs' = [r \in Slot |-> IF r \in stale THEN "FAILED" ELSE runs[r]]
         /\ lock' = IF lock \in stale THEN Nobody ELSE lock
    /\ Moves(p, "abandon")
    /\ UNCHANGED <<paper, rows, deaths>>

AbandonIncomplete_Any(p) ==   \* mutant: the run's status is not looked at
    /\ exec[p].pc = "abandon"
    /\ rows' = [r \in Slot |-> IF Incomplete(r) THEN [rows[r] EXCEPT !.decision = <<"ABANDONED">>] ELSE rows[r]]
    /\ Moves(p, "idle")
    /\ UNCHANGED <<paper, runs, lock, deaths>>
AbandonIncomplete(p) ==
    /\ exec[p].pc = "abandon"
    /\ Abandoned(Nobody)
    /\ Moves(p, "idle")
    /\ UNCHANGED <<paper, runs, lock, deaths>>

\* The rest of the runtime: a position reaches its stop, an order is filled, another
\* symbol changes the account.
OthersWrite ==
    /\ \/ paper.position # Nobody /\ paper' = [paper EXCEPT !.position = Nobody]
       \/ /\ paper.position = Nobody
          /\ \E r \in Slot : /\ paper.order[r] = "PENDING"
                             /\ paper' = [paper EXCEPT !.position = r, !.order[r] = "FILLED"]
       \/ paper.elsewhere < MaxElsewhere /\ paper' = [paper EXCEPT !.elsewhere = @ + 1]
    /\ UNCHANGED <<rows, runs, lock, exec, deaths>>

OppositeNext ==
    \/ OthersWrite
    \/ \E p \in Process : \/ \E r \in Slot : Begin(p, r)
                          \/ Prior(p) \/ LoadClose(p) \/ SaveClose(p) \/ LoadReserve(p) \/ SaveReserve(p)
                          \/ EndRun(p) \/ CallFails(p) \/ RecoverRuns(p) \/ AbandonIncomplete(p)
OppositeSpec == OppositeInit /\ [][OppositeNext]_oppositeVars

-----------------------------------------------------------------------------
\* A reversal that was interrupted after its close stays flat: once it is abandoned its run
\* never opens an order, even if the process that was taken for dead goes on. A candidate's
\* run has one decision, and any run an order only with the decision that submitted it
\* ("historical evidence never authorizes a resumed reverse", opposite_policy.py).
AbandonedStaysFlat ==
    \A r \in Slot :
        /\ r \notin Invalid => Len(rows[r].decision) <= 1
        /\ paper.order[r] # "NONE" <=> rows[r].decision = <<"SUBMITTED">>
=============================================================================
