------------------------------ MODULE HaltGate ------------------------------
(***************************************************************************)
(* The halt gate (runtime/halt.py) in the life of a runner process         *)
(* (runtime/cloud_runner.py, runtime/demo_runner.py): start-up, cycles and *)
(* keyless passes that write the paper account, the bookkeeping of a halt, *)
(* and the restart that an unresolved halt refuses.                        *)
(*                                                                         *)
(* The signal handler runs on the main thread between any two of its       *)
(* steps, so each action below is a piece of the main thread that a        *)
(* handler cannot split in a way anyone could see. Instants are readings   *)
(* of a monotonic clock that may be too coarse to move between two steps.  *)
(* Runs are numbered in the order of their claims and belong to one        *)
(* symbol; journal rows are numbered by their place in the journal.        *)
(***************************************************************************)
EXTENDS Naturals, Sequences, FiniteSets

CONSTANTS
    Lives,      \* bound: starts of the process
    Runs,       \* bound: claims
    Writes,     \* bound: write attempts of one life
    MaxClock,   \* bound: readings of the monotonic clock
    MaxSignals, \* bound: signals delivered to one life
    Sites       \* start-up sections after the handlers are installed

ASSUME HaltAssumption ==
    /\ Lives \in Nat /\ Runs \in Nat /\ Writes \in Nat
    /\ MaxClock \in Nat /\ MaxSignals \in Nat /\ Sites \in Nat \ {0}

Signum == {"TERM", "OTHER"}   \* SIGTERM, and every other cause
NoSignal == "none"
NotHalted == [ns |-> 0, signum |-> NoSignal]

VARIABLES
    gate,    \* the HaltGate of the process
    main,    \* the main thread: where it is, and its locals
    disk,    \* runs, symbol lock and halt rows of the journal
    clock,   \* monotonic_ns
    life,    \* starts, and of this process: signals, saves, REX rows (for properties)
    stop     \* the flag of the runner loop

haltVars == <<gate, main, disk, clock, life, stop>>

NewGate == [requested |-> NotHalted, last |-> 0, deferred |-> NoSignal, depth |-> 0,
            admissions |-> <<>>, recorded |-> 0, active |-> 0, evidence |-> {}]
Rest == [pc |-> "down", ret |-> "down", now |-> 0, site |-> 1, run |-> 0, rex |-> FALSE,
         outcome |-> "COMPLETED", residual |-> {}]

NewLife(n) == [starts |-> n, signals |-> 0, other |-> FALSE, committed |-> {}, late |-> {}, rex |-> {}]

HaltInit ==
    /\ gate = NewGate /\ main = Rest
    /\ disk = [runs |-> <<>>, lock |-> 0, journal |-> <<>>]
    /\ clock = 1
    /\ life = NewLife(0)
    /\ stop = FALSE

\* The process is gone; what is on disk stays.
Gone ==
    /\ gate' = NewGate /\ main' = Rest /\ stop' = FALSE /\ clock' = 1
    /\ life' = NewLife(life.starts)

Later(a, b) == IF a > b THEN a ELSE b
Halted == gate.requested # NotHalted
\* SIGTERM is a clean shutdown, everything else a safety halt.
JournalEvent == IF gate.requested.signum = "TERM" THEN "CLEAN_SHUTDOWN" ELSE "HALT_OBSERVED"
LastAdmission == Len(gate.admissions)

-----------------------------------------------------------------------------
\* The signal handler: assignments only.

Request_KeepFirst(g, s) ==   \* mutant: the first cause stays
    IF g.requested = NotHalted
    THEN IF g.depth > 0
         THEN IF g.deferred = NoSignal THEN [g EXCEPT !.deferred = s] ELSE g
         ELSE [g EXCEPT !.requested = [ns |-> Later(clock, g.last + 1), signum |-> s]]
    ELSE g

Request_RawClock(g, s) ==   \* mutant: T_h is the raw clock, which may not have moved
    IF g.requested = NotHalted
    THEN IF g.depth > 0
         THEN IF g.deferred \in {NoSignal, "TERM"} THEN [g EXCEPT !.deferred = s] ELSE g
         ELSE [g EXCEPT !.requested = [ns |-> clock, signum |-> s]]
    ELSE g

Request_Deferred(g, s) ==   \* mutant: a start-up section does not defer the halt
    IF g.requested = NotHalted
    THEN [g EXCEPT !.requested = [ns |-> Later(clock, g.last + 1), signum |-> s]]
    ELSE IF g.recorded = 0 /\ g.requested.signum = "TERM" /\ s # "TERM"
         THEN [g EXCEPT !.requested.signum = s] ELSE g

\* HaltGate.request: the instant T_h is set once; a stronger cause replaces SIGTERM
\* without moving it; inside a start-up section the request waits for its end.
Request(g, s) ==
    IF g.requested = NotHalted
    THEN IF g.depth > 0
         THEN IF g.deferred \in {NoSignal, "TERM"} THEN [g EXCEPT !.deferred = s] ELSE g
         ELSE [g EXCEPT !.requested = [ns |-> Later(clock, g.last + 1), signum |-> s]]
    ELSE IF g.recorded = 0 /\ g.requested.signum = "TERM" /\ s # "TERM"
         THEN [g EXCEPT !.requested.signum = s]
         ELSE g

Handler(s) ==
    /\ main.pc \notin {"down", "exit"} /\ life.signals < MaxSignals
    /\ gate' = Request(gate, s)
    /\ stop' = TRUE
    /\ life' = [life EXCEPT !.signals = @ + 1,
                            !.other = @ \/ (s # "TERM" /\ main.pc # "recorded" /\ gate.recorded = 0)]
    /\ UNCHANGED <<main, disk, clock>>

ClockMoves == clock < MaxClock /\ clock' = clock + 1 /\ UNCHANGED <<gate, main, disk, life, stop>>

-----------------------------------------------------------------------------
\* now_ns: strictly increasing readings, in the three steps a handler can separate.

NowRead ==
    /\ main.pc = "now_read"
    /\ main' = [main EXCEPT !.pc = "now_store", !.now = Later(clock, gate.last + 1)]
    /\ UNCHANGED <<gate, disk, clock, life, stop>>

NowStore ==
    /\ main.pc = "now_store"
    /\ gate' = [gate EXCEPT !.last = main.now]
    /\ main' = [main EXCEPT !.pc = "now_order"]
    /\ UNCHANGED <<disk, clock, life, stop>>

NowOrder ==
    /\ main.pc = "now_order"
    /\ LET now == IF Halted THEN Later(main.now, gate.requested.ns + 1) ELSE main.now IN
       /\ main' = [main EXCEPT !.pc = main.ret, !.now = now]
       /\ gate' = [gate EXCEPT !.last = now]
    /\ UNCHANGED <<disk, clock, life, stop>>

-----------------------------------------------------------------------------
\* Start of the process.

HaltRows == {j \in DOMAIN disk.journal : disk.journal[j].event = "HALT_OBSERVED"}
LatestHalt == IF HaltRows = {} THEN 0 ELSE CHOOSE j \in HaltRows : \A k \in HaltRows : k <= j

\* startup_halt_check: the token names the latest HALT_OBSERVED.
StartupHaltCheck(token) == HaltRows = {} \/ token = LatestHalt

\* main: the check comes before any write; the handlers are installed after the preflight.
Start(token) ==
    /\ main.pc = "down" /\ life.starts < Lives
    /\ StartupHaltCheck(token)
    /\ main' = [Rest EXCEPT !.pc = "site"]
    /\ life' = NewLife(life.starts + 1)
    /\ UNCHANGED <<gate, disk, clock, stop>>

\* startup_write: the check, with the halt deferred from here on ...
EnterSite ==
    /\ main.pc = "site"
    /\ gate' = [gate EXCEPT !.depth = 1]
    /\ main' = [main EXCEPT !.pc = IF Halted THEN "leave" ELSE "site_write",
                            !.outcome = IF Halted THEN "REFUSED" ELSE @]
    /\ UNCHANGED <<disk, clock, life, stop>>

\* ... the write (the first section recovers interrupted runs and their lock) ...
SiteWrite ==
    /\ main.pc = "site_write"
    /\ disk' = IF main.site = 1
               THEN [disk EXCEPT !.runs = [r \in DOMAIN @ |-> IF @[r] = "RUNNING" THEN "FAILED" ELSE @[r]],
                                 !.lock = 0]
               ELSE disk
    /\ main' = [main EXCEPT !.pc = "leave"]
    /\ UNCHANGED <<gate, clock, life, stop>>

LeaveSite ==
    /\ main.pc = "leave"
    /\ gate' = [gate EXCEPT !.depth = 0]
    /\ main' = [main EXCEPT !.pc = "deferred"]
    /\ UNCHANGED <<disk, clock, life, stop>>

\* ... and the deferred request. A refused constructor ends the process, with no row.
ApplyDeferred ==
    /\ main.pc = "deferred" /\ main.outcome # "REFUSED"
    /\ gate' = IF gate.deferred = NoSignal THEN gate
               ELSE Request([gate EXCEPT !.deferred = NoSignal], gate.deferred)
    /\ main' = IF main.site < Sites THEN [main EXCEPT !.pc = "site", !.site = @ + 1]
               ELSE [main EXCEPT !.pc = "loop"]
    /\ UNCHANGED <<disk, clock, life, stop>>

ConstructorRefused == main.pc = "deferred" /\ main.outcome = "REFUSED" /\ Gone /\ UNCHANGED disk

-----------------------------------------------------------------------------
\* The loop: cycles, and passes without a run (duration rule, paused symbols).

Goto(pc) == main' = [main EXCEPT !.pc = pc]
\* A refused admission: the bookkeeping of the run, or the end of the pass.
Refuse == Goto(IF main.run # 0 THEN "book" ELSE "loop")
WriteOver == IF main.run # 0 THEN "work" ELSE "loop"

BeginCycle ==
    /\ main.pc = "loop" /\ ~stop
    /\ ~Halted                                   \* else HALT_REFUSED
    /\ Len(disk.runs) < Runs /\ disk.lock = 0
    /\ main' = [main EXCEPT !.pc = "claim", !.run = Len(disk.runs) + 1, !.rex = TRUE, !.outcome = "COMPLETED"]
    /\ UNCHANGED <<gate, disk, clock, life, stop>>

Claim ==
    /\ main.pc = "claim"
    /\ disk' = [disk EXCEPT !.runs = Append(@, "RUNNING"), !.lock = main.run]
    /\ Goto("active")
    /\ UNCHANGED <<gate, clock, life, stop>>

Activate ==
    /\ main.pc = "active"
    /\ gate' = [gate EXCEPT !.active = main.run]
    /\ Goto("metadata")
    /\ UNCHANGED <<disk, clock, life, stop>>

\* _persist("L"): the metadata of the run.
Metadata ==
    /\ main.pc = "metadata"
    /\ Goto(IF Halted THEN "book" ELSE "work")
    /\ UNCHANGED <<gate, disk, clock, life, stop>>

BeginWrite ==
    /\ \/ main.pc = "work" /\ main' = [main EXCEPT !.pc = "now_read", !.ret = "admit"]
       \/ main.pc = "loop" /\ ~stop /\ ~Halted
          /\ main' = [main EXCEPT !.pc = "now_read", !.ret = "admit", !.run = 0, !.rex = FALSE]
    /\ LastAdmission < Writes
    /\ UNCHANGED <<gate, disk, clock, life, stop>>

\* The cycle ends, or raises: bookkeeping if halted, else finish COMPLETED or FAILED.
EndCycle(outcome) ==
    /\ main.pc = "work"
    /\ main' = [main EXCEPT !.pc = IF Halted THEN "book" ELSE "finish", !.outcome = outcome]
    /\ UNCHANGED <<gate, disk, clock, life, stop>>

Finish ==
    /\ main.pc = "finish"
    /\ disk' = [disk EXCEPT !.runs[main.run] = main.outcome, !.lock = 0]
    /\ Goto("rex_run")
    /\ UNCHANGED <<gate, clock, life, stop>>

-----------------------------------------------------------------------------
\* One attempt of _guarded_paper_write.

Admit ==
    /\ main.pc = "admit"
    /\ IF Halted THEN Refuse /\ gate' = gate
       ELSE /\ gate' = [gate EXCEPT !.admissions = Append(@, [run |-> main.run, read2 |-> 0, tstop |-> 0])]
            /\ Goto("load")
    /\ UNCHANGED <<disk, clock, life, stop>>

\* Load and compute: there may be nothing to save.
LoadPaper(save) ==
    /\ main.pc = "load"
    /\ main' = IF save THEN [main EXCEPT !.pc = "now_read", !.ret = "read2"]
               ELSE [main EXCEPT !.pc = WriteOver]
    /\ UNCHANGED <<gate, disk, clock, life, stop>>

PreSave_Unchecked ==   \* mutant: no second read before save_paper
    /\ main.pc = "read2"
    /\ gate' = [gate EXCEPT !.admissions[LastAdmission].read2 = main.now]
    /\ Goto("save")
    /\ UNCHANGED <<disk, clock, life, stop>>

PreSave ==
    /\ main.pc = "read2"
    /\ IF Halted THEN Refuse /\ gate' = gate
       ELSE /\ gate' = [gate EXCEPT !.admissions[LastAdmission].read2 = main.now]
            /\ Goto("save")
    /\ UNCHANGED <<disk, clock, life, stop>>

\* save_paper returns: committed, or STALE. Only the REX proxy of a run measures T_stop.
SaveReturns(committed) ==
    /\ main.pc = "save"
    /\ life' = IF committed THEN [life EXCEPT !.committed = @ \cup {LastAdmission},
                                              !.late = IF Halted THEN @ \cup {LastAdmission} ELSE @]
               ELSE life
    /\ main' = IF main.rex THEN [main EXCEPT !.pc = "now_read", !.ret = "stopped"]
               ELSE [main EXCEPT !.pc = WriteOver]
    /\ UNCHANGED <<gate, disk, clock, stop>>

SaveStopped ==
    /\ main.pc = "stopped"
    /\ gate' = [gate EXCEPT !.admissions[LastAdmission].tstop = main.now]
    /\ Goto("evidence")
    /\ UNCHANGED <<disk, clock, life, stop>>

\* allow_evidence: after T_h only a write read before it, and one row for the active run.
AllowEvidence(kind, run, seq) ==
    \/ ~Halted
    \/ /\ run # 0 /\ run = gate.active
       /\ <<kind, seq>> \notin gate.evidence
       /\ kind = "REX_WRITE" =>
            /\ gate.admissions[seq].read2 # 0
            /\ gate.admissions[seq].read2 < gate.requested.ns

RexRow(kind, seq) ==
    IF AllowEvidence(kind, main.run, seq)
    THEN /\ life' = [life EXCEPT !.rex = @ \cup {<<kind, main.run, seq>>}]
         /\ gate' = IF Halted THEN [gate EXCEPT !.evidence = @ \cup {<<kind, seq>>}] ELSE gate
    ELSE UNCHANGED <<life, gate>>

WriteEvidence ==
    /\ main.pc = "evidence"
    /\ RexRow("REX_WRITE", LastAdmission)
    /\ Goto(WriteOver)
    /\ UNCHANGED <<disk, clock, stop>>

\* run_cycle returns: the REX_RUN row, then no run is active.
RunEvidence ==
    /\ main.pc = "rex_run"
    /\ RexRow("REX_RUN", 0)
    /\ Goto("inactive")
    /\ UNCHANGED <<disk, clock, stop>>

Deactivate ==
    /\ main.pc = "inactive"
    /\ gate' = [gate EXCEPT !.active = 0]
    /\ main' = [main EXCEPT !.pc = "loop", !.run = 0, !.rex = FALSE]
    /\ UNCHANGED <<disk, clock, life, stop>>

-----------------------------------------------------------------------------
\* halt_bookkeeping and the end of the process.

\* residual: the admitted writes whose save returned after T_h.
Residual ==
    {a \in DOMAIN gate.admissions :
        /\ gate.admissions[a].read2 # 0 /\ gate.admissions[a].tstop # 0
        /\ gate.admissions[a].tstop > gate.requested.ns}

Payload ==
    /\ main.pc = "book"
    /\ main' = [main EXCEPT !.pc = "halt", !.residual = Residual]
    /\ UNCHANGED <<gate, disk, clock, life, stop>>

BookOver == IF main.run # 0 THEN "rex_run" ELSE "exit"

\* The H transaction: the run, its lock and the row, or nothing (HALT_UNCONFIRMED).
HaltCommit ==
    /\ main.pc = "halt"
    /\ disk' = [disk EXCEPT
         !.runs = [r \in DOMAIN @ |-> IF r = main.run THEN "HALTED" ELSE @[r]],
         !.lock = IF @ = main.run THEN 0 ELSE @,
         !.journal = Append(@, [event |-> JournalEvent, residual |-> main.residual, life |-> life.starts])]
    /\ Goto("recorded")
    /\ UNCHANGED <<gate, clock, life, stop>>

HaltRollback_Retry ==   \* mutant: a failed bookkeeping is tried again until it succeeds
    /\ main.pc = "halt"
    /\ Goto("book")
    /\ UNCHANGED <<gate, disk, clock, life, stop>>

HaltRollback ==
    /\ main.pc = "halt"
    /\ Goto(BookOver)
    /\ UNCHANGED <<gate, disk, clock, life, stop>>

Recorded ==
    /\ main.pc = "recorded"
    /\ gate' = [gate EXCEPT !.recorded = Len(disk.journal)]
    /\ Goto(BookOver)
    /\ UNCHANGED <<disk, clock, life, stop>>

\* DemoRunner.close: a halt no run has recorded is recorded here.
Close ==
    /\ main.pc = "loop" /\ stop
    /\ Goto(IF Halted /\ gate.recorded = 0 THEN "book" ELSE "exit")
    /\ UNCHANGED <<gate, disk, clock, life, stop>>

Exit == main.pc = "exit" /\ Gone /\ UNCHANGED disk

Crash == main.pc # "down" /\ life.starts < Lives /\ Gone /\ UNCHANGED disk

-----------------------------------------------------------------------------
MainStep ==
    \/ NowRead \/ NowStore \/ NowOrder
    \/ EnterSite \/ SiteWrite \/ LeaveSite \/ ApplyDeferred \/ ConstructorRefused
    \/ BeginCycle \/ Claim \/ Activate \/ Metadata \/ BeginWrite
    \/ \E o \in {"COMPLETED", "FAILED"} : EndCycle(o)
    \/ Finish
    \/ Admit \/ (\E save \in BOOLEAN : LoadPaper(save)) \/ PreSave
    \/ (\E committed \in BOOLEAN : SaveReturns(committed))
    \/ SaveStopped \/ WriteEvidence \/ RunEvidence \/ Deactivate
    \/ Payload \/ HaltCommit \/ HaltRollback \/ Recorded \/ Close \/ Exit

HaltNext ==
    \/ MainStep
    \/ \E s \in Signum : Handler(s)
    \/ ClockMoves
    \/ \E token \in 0..Len(disk.journal) : Start(token)
    \/ Crash

\* The main thread runs on; signals, crashes and restarts need not happen.
HaltSpec == HaltInit /\ [][HaltNext]_haltVars /\ WF_haltVars(MainStep)

-----------------------------------------------------------------------------
RowOfThisLife == {j \in DOMAIN disk.journal : disk.journal[j].life = life.starts}

\* After T_h at most one write reaches the account, and its second reading of the gate
\* was before T_h (_guarded_paper_write, DEC-8.17b): admissions and pre-save reads that
\* overlap the handler are refused, whatever the resolution of the clock.
AtMostOneResidual ==
    /\ Cardinality(life.late) <= 1
    /\ \A a \in life.late : gate.admissions[a].read2 \in 1..(gate.requested.ns - 1)

\* What the row of this process says is what happened (halt_bookkeeping): a cause other
\* than SIGTERM that arrived before the row is a safety halt, whether it came first, was
\* deferred or escalated; a write of a run that reached the account after T_h is listed;
\* a HALTED run keeps no lock.
RowIsTrue ==
    /\ \A j \in RowOfThisLife :
         /\ life.other => disk.journal[j].event = "HALT_OBSERVED"
         /\ {a \in life.late : gate.admissions[a].run # 0} \subseteq disk.journal[j].residual
    /\ disk.lock # 0 => disk.runs[disk.lock] = "RUNNING"

\* halt.py: the residual is "measured and reported, never hidden". It does not hold of a
\* keyless write, whose stop is not measured; RowIsTrue is what holds of the runs' writes.
ResidualReported ==
    \A j \in RowOfThisLife : life.late \subseteq disk.journal[j].residual

\* Every commit of a run has its REX_WRITE row once the attempt is over, and the run its
\* REX_RUN row once run_cycle returns, also when T_h fell inside the attempt
\* (allow_evidence, RexStore.save_paper).
EvidenceKept ==
    /\ main.pc \in {"work", "finish", "book", "halt", "recorded", "rex_run", "inactive"} =>
         \A a \in life.committed : gate.admissions[a].run # 0 =>
           <<"REX_WRITE", gate.admissions[a].run, a>> \in life.rex
    /\ main.pc = "inactive" => <<"REX_RUN", main.run, 0>> \in life.rex

\* After T_h at most one write reaches the account; the halt row, once there, tells the
\* first signal and where the process was; and what was saved has its evidence.
HaltKept == AtMostOneResidual /\ RowIsTrue /\ EvidenceKept

\* No start-up section writes after T_h, although the signal may arrive between its
\* check and its write (startup_write defers it to the end of the section).
StartupBeforeHalt == [][main.pc = "site_write" /\ main'.pc = "leave" => ~Halted]_haltVars

\* A stop request ends the process, with or without a recorded halt.
HaltServed == stop ~> main.pc = "down"
=============================================================================
