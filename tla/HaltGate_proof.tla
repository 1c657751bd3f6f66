---------------------------- MODULE HaltGate_proof ----------------------------
(***************************************************************************)
(* Proofs about HaltGate, for any number of lives, runs, writes, signals   *)
(* and start-up sections, and for a clock of any resolution.               *)
(***************************************************************************)
EXTENDS HaltGate, FiniteSetTheorems, TLAPS

Reading == {"now_read", "now_store", "now_order"}
Startup == {"site", "site_write", "leave", "deferred"}
InRun == {"claim", "active", "metadata", "work", "finish", "rex_run", "inactive"}
Attempt == {"admit", "load", "read2", "save", "stopped", "evidence"}
Book == {"book", "halt", "recorded"}
MainPc == {"down", "loop", "exit"} \cup Reading \cup Startup \cup InRun \cup Attempt \cup Book
Kind == {"REX_WRITE", "REX_RUN"}

Admission == [run : Nat, read2 : Nat, tstop : Nat]
GateType ==
    [requested : [ns : Nat, signum : Signum \cup {NoSignal}], last : Nat,
     deferred : Signum \cup {NoSignal}, depth : Nat, admissions : Seq(Admission),
     recorded : Nat, active : Nat, evidence : SUBSET (Kind \X Nat)]
MainType ==
    [pc : MainPc, ret : {"down", "admit", "read2", "stopped"}, now : Nat, site : Nat, run : Nat,
     rex : BOOLEAN, outcome : {"COMPLETED", "FAILED", "REFUSED"}, residual : SUBSET Nat]
Row == [event : {"CLEAN_SHUTDOWN", "HALT_OBSERVED"}, residual : SUBSET Nat, life : Nat]
DiskType ==
    [runs : Seq({"RUNNING", "COMPLETED", "FAILED", "HALTED"}), lock : Nat,
     journal : Seq(Row)]
LifeType ==
    [starts : Nat, signals : Nat, other : BOOLEAN, committed : SUBSET Nat, late : SUBSET Nat,
     rex : SUBSET (Kind \X Nat \X Nat)]

HaltTypeOK ==
    /\ gate \in GateType /\ main \in MainType /\ disk \in DiskType /\ life \in LifeType
    /\ clock \in Nat \ {0} /\ stop \in BOOLEAN

\* The process is at p, or at a clock reading that leads there.
At(p) == main.pc = p \/ (main.pc \in Reading /\ main.ret = p)
\* An admitted write that has not got its evidence yet.
Admitted == At("read2") \/ At("stopped") \/ main.pc \in {"load", "save", "evidence"}
Last == gate.admissions[LastAdmission]

\* Where the run of the process stands at each step.
RunControl ==
    /\ main.pc \in Reading => main.ret \in {"admit", "read2", "stopped"}
    /\ main.pc \in InRun => main.run # 0
    /\ main.pc \in {"down", "loop", "exit"} \cup Startup => main.run = 0
    /\ At("stopped") \/ main.pc = "evidence" => main.run # 0
    /\ main.rex <=> main.run # 0
    /\ main.run # 0 /\ main.pc \notin {"claim", "active"} => gate.active = main.run
    /\ Admitted => LastAdmission # 0 /\ Last.run = main.run
    /\ main.pc = "claim" => main.run = Len(disk.runs) + 1
    /\ main.pc = "finish" => main.outcome \in {"COMPLETED", "FAILED"}

\* What the gate has seen at each step: a start-up section defers, so none writes after T_h.
SignalControl ==
    /\ Halted <=> gate.requested.ns # 0
    /\ Halted <=> gate.requested.signum # NoSignal
    /\ gate.depth # 0 <=> main.pc \in {"site_write", "leave"}
    /\ gate.deferred # NoSignal => main.pc \in {"site_write", "leave", "deferred"}
    /\ Halted \/ gate.deferred # NoSignal => stop
    /\ main.pc = "site_write" => ~Halted
    /\ main.pc \in Book => Halted
    /\ main.pc = "down" => gate = NewGate /\ life = NewLife(life.starts)
    /\ life.other => \/ gate.requested.signum = "OTHER" \/ gate.deferred = "OTHER"
                     \/ main.pc = "recorded" \/ gate.recorded # 0

\* The readings of the clock increase, and a pre-save read is before T_h.
Instants ==
    /\ main.pc \in {"now_store", "now_order", "read2", "stopped"} => main.now # 0
    /\ main.pc = "now_store" => main.now > gate.last
    /\ main.pc \in {"now_order", "read2"} => main.now = gate.last
    /\ main.pc \in {"save", "evidence"} \/ At("stopped") =>
         /\ Last.read2 # 0
         /\ Last.read2 <= gate.last
         /\ Halted => Last.read2 < gate.requested.ns

\* A write that reached the account after T_h is the last one admitted, and the stop of a
\* run's is measured before the bookkeeping looks.
LateWrite ==
    /\ life.late \subseteq {LastAdmission} /\ life.late \subseteq life.committed
    /\ life.committed \subseteq 1..LastAdmission
    /\ life.late # {} =>
         /\ Halted
         /\ Last.read2 \in 1..(gate.requested.ns - 1)
         /\ Last.run # 0 =>
              /\ ~ At("stopped") => Last.tstop > gate.requested.ns
              /\ main.pc = "stopped" => main.now > gate.requested.ns
              /\ main.pc = "halt" => LastAdmission \in main.residual

\* The row of this life is written once, and nothing it tells changes after it.
HaltRow ==
    /\ \A j \in DOMAIN disk.journal : disk.journal[j].life <= life.starts
    /\ RowOfThisLife # {} /\ main.pc # "down" =>
         /\ Halted /\ main.pc \in {"recorded", "rex_run", "inactive", "loop", "exit"}
         /\ main.pc = "recorded" \/ gate.recorded # 0
    /\ gate.recorded # 0 => Halted /\ main.pc \in {"rex_run", "inactive", "loop", "exit"}
    /\ main.pc = "recorded" => Len(disk.journal) # 0
    /\ disk.lock <= Len(disk.runs)
    /\ RowIsTrue

\* The evidence the gate has let through, and the rows that are there.
EvidenceRows ==
    /\ \A a \in Nat : <<"REX_WRITE", a>> \in gate.evidence =>
         a <= LastAdmission /\ (Admitted => a # LastAdmission)
    /\ <<"REX_RUN", 0>> \in gate.evidence =>
         /\ Halted
         /\ main.pc = "inactive" \/ (main.run = 0 /\ main.pc \in {"loop", "exit"} \cup Book)
    /\ \A a \in life.committed : gate.admissions[a].run # 0 =>
         \/ <<"REX_WRITE", gate.admissions[a].run, a>> \in life.rex
         \/ a = LastAdmission /\ (At("stopped") \/ main.pc = "evidence")
    /\ main.pc = "inactive" => <<"REX_RUN", main.run, 0>> \in life.rex

HaltInv ==
    /\ HaltTypeOK /\ RunControl /\ SignalControl /\ Instants /\ LateWrite /\ HaltRow
    /\ EvidenceRows

-----------------------------------------------------------------------------
LEMMA Places ==
    /\ "down" \in MainPc /\ "loop" \in MainPc /\ "exit" \in MainPc
    /\ "now_read" \in MainPc /\ "now_store" \in MainPc /\ "now_order" \in MainPc
    /\ "site" \in MainPc /\ "site_write" \in MainPc /\ "leave" \in MainPc /\ "deferred" \in MainPc
    /\ "claim" \in MainPc /\ "active" \in MainPc /\ "metadata" \in MainPc /\ "work" \in MainPc
    /\ "finish" \in MainPc /\ "rex_run" \in MainPc /\ "inactive" \in MainPc
    /\ "admit" \in MainPc /\ "load" \in MainPc /\ "read2" \in MainPc /\ "save" \in MainPc
    /\ "stopped" \in MainPc /\ "evidence" \in MainPc
    /\ "book" \in MainPc /\ "halt" \in MainPc /\ "recorded" \in MainPc
BY DEF MainPc, Reading, Startup, InRun, Attempt, Book

\* The fields of the four records.
LEMMA GateFields ==
    ASSUME gate \in GateType
    PROVE  /\ gate.requested \in [ns : Nat, signum : Signum \cup {NoSignal}]
           /\ gate.requested.ns \in Nat /\ gate.last \in Nat /\ gate.depth \in Nat
           /\ gate.deferred \in Signum \cup {NoSignal}
           /\ gate.admissions \in Seq(Admission) /\ LastAdmission \in Nat
           /\ gate.recorded \in Nat /\ gate.active \in Nat
           /\ gate.evidence \in SUBSET (Kind \X Nat)
BY DEF GateType, LastAdmission

LEMMA MainFields ==
    ASSUME main \in MainType
    PROVE  /\ main.pc \in MainPc /\ main.now \in Nat /\ main.site \in Nat /\ main.run \in Nat
           /\ main.ret \in {"down", "admit", "read2", "stopped"}
           /\ main.rex \in BOOLEAN /\ main.outcome \in {"COMPLETED", "FAILED", "REFUSED"}
           /\ main.residual \in SUBSET Nat
BY DEF MainType

LEMMA DiskFields ==
    ASSUME disk \in DiskType
    PROVE  /\ disk.runs \in Seq({"RUNNING", "COMPLETED", "FAILED", "HALTED"})
           /\ disk.journal \in Seq(Row)
           /\ Len(disk.runs) \in Nat /\ Len(disk.journal) \in Nat /\ disk.lock \in Nat
BY DEF DiskType

LEMMA LifeFields ==
    ASSUME life \in LifeType
    PROVE  /\ life.starts \in Nat /\ life.signals \in Nat /\ life.other \in BOOLEAN
           /\ life.committed \in SUBSET Nat /\ life.late \in SUBSET Nat
           /\ life.rex \in SUBSET (Kind \X Nat \X Nat)
BY DEF LifeType

LEMMA NewTypes ==
    /\ NewGate \in GateType /\ Rest \in MainType
    /\ \A n \in Nat : NewLife(n) \in LifeType
BY Places DEF NewGate, Rest, NewLife, NotHalted, GateType, MainType, LifeType

LEMMA GateWith ==
    ASSUME gate \in GateType
    PROVE  /\ \A n \in Nat : /\ [gate EXCEPT !.last = n] \in GateType
                             /\ [gate EXCEPT !.depth = n] \in GateType
                             /\ [gate EXCEPT !.recorded = n] \in GateType
                             /\ [gate EXCEPT !.active = n] \in GateType
           /\ \A q \in Seq(Admission) : [gate EXCEPT !.admissions = q] \in GateType
           /\ \A e \in SUBSET (Kind \X Nat) : [gate EXCEPT !.evidence = e] \in GateType
BY DEF GateType

LEMMA SeqWith ==
    ASSUME NEW S, NEW q \in Seq(S), NEW i, NEW e \in S
    PROVE  [q EXCEPT ![i] = e] \in Seq(S) /\ Len([q EXCEPT ![i] = e]) = Len(q)
<1>1. CASE i \in DOMAIN q
  BY <1>1
<1>2. CASE i \notin DOMAIN q
  <2>1. [q EXCEPT ![i] = e] = q
    BY <1>2
  <2> QED
    BY <2>1
<1> QED
  BY <1>1, <1>2

\* Readings of the clock, and the marks an attempt puts on its admission.
LEMMA LaterIsNat ==
    ASSUME NEW a \in Nat, NEW b \in Nat
    PROVE  Later(a, b) \in Nat /\ Later(a, b) >= a /\ Later(a, b) >= b
BY DEF Later

LEMMA AdmissionWith ==
    ASSUME NEW q \in Seq(Admission), NEW i \in 1..Len(q), NEW n \in Nat
    PROVE  /\ [q EXCEPT ![i].read2 = n] \in Seq(Admission)
           /\ Len([q EXCEPT ![i].read2 = n]) = Len(q)
           /\ [q EXCEPT ![i].tstop = n] \in Seq(Admission)
           /\ Len([q EXCEPT ![i].tstop = n]) = Len(q)
<1>1. q[i] \in Admission
  OBVIOUS
<1>2. [q[i] EXCEPT !.read2 = n] \in Admission /\ [q[i] EXCEPT !.tstop = n] \in Admission
  BY <1>1 DEF Admission
<1>3. \A a \in Admission : [q EXCEPT ![i] = a] \in Seq(Admission) /\ Len([q EXCEPT ![i] = a]) = Len(q)
  OBVIOUS
<1> QED
  BY <1>2, <1>3

\* What the handler returns.
LEMMA RequestType ==
    ASSUME HaltTypeOK, NEW g \in GateType, NEW s \in Signum
    PROVE  Request(g, s) \in GateType
<1>1. g.last \in Nat /\ Later(clock, g.last + 1) \in Nat
  BY DEF HaltTypeOK, GateType, Later
<1>2. /\ [g EXCEPT !.deferred = s] \in GateType
      /\ [g EXCEPT !.requested = [ns |-> Later(clock, g.last + 1), signum |-> s]] \in GateType
      /\ [g EXCEPT !.requested.signum = s] \in GateType
  BY <1>1 DEF GateType
<1> QED
  BY <1>2 DEF Request

\* Every step keeps the types.
LEMMA GateTypeStep ==
    ASSUME HaltTypeOK, RunControl, [HaltNext]_haltVars
    PROVE  gate' \in GateType
<1>1. gate \in GateType /\ main \in MainType
  BY DEF HaltTypeOK
<1>2. /\ main.now \in Nat /\ main.run \in Nat
      /\ gate.admissions \in Seq(Admission) /\ gate.requested.ns \in Nat
      /\ gate.evidence \in SUBSET (Kind \X Nat) /\ gate.deferred \in Signum \cup {NoSignal}
      /\ LastAdmission = Len(gate.admissions) /\ LastAdmission \in Nat
  BY <1>1, GateFields, MainFields DEF LastAdmission
<1>3. NewGate \in GateType
  BY NewTypes
<1>4. CASE NowStore
  BY <1>1, <1>2, <1>4, GateWith DEF NowStore
<1>5. CASE NowOrder
  <2>1. Later(main.now, gate.requested.ns + 1) \in Nat
    BY <1>2 DEF Later
  <2> QED
    BY <1>1, <1>2, <1>5, <2>1, GateWith DEF NowOrder
<1>6. CASE EnterSite \/ LeaveSite
  BY <1>1, <1>6, SMTT(40) DEF EnterSite, LeaveSite, GateType
<1>7. CASE ApplyDeferred
  <2>1. [gate EXCEPT !.deferred = NoSignal] \in GateType
    BY <1>1 DEF GateType
  <2> QED
    BY <1>1, <1>2, <1>7, <2>1, RequestType DEF ApplyDeferred
<1>8. CASE ConstructorRefused \/ Exit \/ Crash
  BY <1>3, <1>8 DEF ConstructorRefused, Exit, Crash, Gone
<1>9. CASE Activate \/ Deactivate
  BY <1>1, <1>2, <1>9, GateWith DEF Activate, Deactivate
<1>10. CASE Admit
  <2>1. Append(gate.admissions, [run |-> main.run, read2 |-> 0, tstop |-> 0]) \in Seq(Admission)
    BY <1>2 DEF Admission
  <2> QED
    BY <1>1, <1>10, <2>1, GateWith DEF Admit
<1>11. CASE PreSave \/ SaveStopped
  <2>1. LastAdmission \in 1..Len(gate.admissions)
    BY <1>2, <1>11 DEF RunControl, Admitted, At, PreSave, SaveStopped
  <2>2. /\ [gate.admissions EXCEPT ![LastAdmission].read2 = main.now] \in Seq(Admission)
        /\ [gate.admissions EXCEPT ![LastAdmission].tstop = main.now] \in Seq(Admission)
    BY <1>2, <2>1, AdmissionWith
  <2>3. \/ gate' = gate
        \/ gate' = [gate EXCEPT !.admissions = [gate.admissions EXCEPT ![LastAdmission].read2 = main.now]]
        \/ gate' = [gate EXCEPT !.admissions = [gate.admissions EXCEPT ![LastAdmission].tstop = main.now]]
    BY <1>11 DEF PreSave, SaveStopped
  <2> QED
    BY <1>1, <2>2, <2>3, GateWith
<1>12. CASE WriteEvidence \/ RunEvidence
  <2>1. /\ gate.evidence \cup {<<"REX_WRITE", LastAdmission>>} \in SUBSET (Kind \X Nat)
        /\ gate.evidence \cup {<<"REX_RUN", 0>>} \in SUBSET (Kind \X Nat)
    BY <1>2 DEF Kind
  <2> QED
    BY <1>1, <1>12, <2>1, GateWith DEF WriteEvidence, RunEvidence, RexRow
<1>13. CASE Recorded
  <2>1. Len(disk.journal) \in Nat
    BY DiskFields DEF HaltTypeOK
  <2> QED
    BY <1>1, <1>13, <2>1, GateWith DEF Recorded
<1>14. CASE \E s \in Signum : Handler(s)
  BY <1>1, <1>14, RequestType DEF Handler
<1>15. CASE
       \/ NowRead
       \/ SiteWrite
       \/ BeginCycle
       \/ Claim
       \/ Metadata
       \/ BeginWrite
       \/ \E o \in {"COMPLETED", "FAILED"} : EndCycle(o)
       \/ Finish
       \/ \E save \in BOOLEAN : LoadPaper(save)
       \/ \E committed \in BOOLEAN : SaveReturns(committed)
       \/ Payload
       \/ HaltCommit
       \/ HaltRollback
       \/ Close
       \/ ClockMoves
       \/ \E token \in 0..Len(disk.journal) : Start(token)
       \/ UNCHANGED haltVars
  BY <1>1, <1>15 DEF NowRead, SiteWrite, BeginCycle, Claim, Metadata, BeginWrite, EndCycle,
         Finish, LoadPaper, SaveReturns, Payload, HaltCommit, HaltRollback, Close, ClockMoves,
         Start, haltVars
<1> QED
  BY <1>4, <1>5, <1>6, <1>7, <1>8, <1>9, <1>10, <1>11, <1>12, <1>13, <1>14, <1>15
     DEF HaltNext, MainStep

LEMMA DiskTypeStep ==
    ASSUME HaltTypeOK, RunControl, [HaltNext]_haltVars
    PROVE  disk' \in DiskType
<1> DEFINE Outcome == {"RUNNING", "COMPLETED", "FAILED", "HALTED"}
<1>1. disk \in DiskType
  BY DEF HaltTypeOK
<1>2. /\ disk.runs \in Seq(Outcome) /\ disk.journal \in Seq(Row) /\ disk.lock \in Nat
      /\ main.run \in Nat /\ main.residual \in SUBSET Nat /\ life.starts \in Nat
  BY DiskFields, MainFields, LifeFields DEF HaltTypeOK
<1>3. \A q \in Seq(Outcome), n \in Nat : [disk EXCEPT !.runs = q, !.lock = n] \in DiskType
  BY <1>1 DEF DiskType
<1>4. CASE SiteWrite
  <2>1. [r \in DOMAIN disk.runs |-> IF disk.runs[r] = "RUNNING" THEN "FAILED" ELSE disk.runs[r]]
            \in Seq(Outcome)
    BY <1>2
  <2> QED
    BY <1>1, <1>3, <1>4, <2>1 DEF SiteWrite
<1>5. CASE Claim
  <2>1. Append(disk.runs, "RUNNING") \in Seq(Outcome)
    BY <1>2
  <2> HIDE DEF Outcome
  <2> QED
    BY <1>2, <1>3, <1>5, <2>1 DEF Claim
<1>6. CASE Finish
  <2>1. main.outcome \in Outcome
    BY <1>6 DEF Finish, RunControl
  <2> HIDE DEF Outcome
  <2>2. [disk.runs EXCEPT ![main.run] = main.outcome] \in Seq(Outcome)
    BY <1>2, <2>1, SeqWith
  <2> QED
    BY <1>3, <1>6, <2>2 DEF Finish
<1>7. CASE HaltCommit
  <2> DEFINE row == [event |-> JournalEvent, residual |-> main.residual, life |-> life.starts]
  <2>1. row \in Row
    BY <1>2 DEF Row, JournalEvent
  <2>2. Append(disk.journal, row) \in Seq(Row)
    BY <1>2, <2>1
  <2>3. [r \in DOMAIN disk.runs |-> IF r = main.run THEN "HALTED" ELSE disk.runs[r]] \in Seq(Outcome)
    BY <1>2
  <2>4. (IF disk.lock = main.run THEN 0 ELSE disk.lock) \in Nat
    BY <1>2
  <2>5. \A q \in Seq(Outcome), n \in Nat, j \in Seq(Row) :
            [disk EXCEPT !.runs = q, !.lock = n, !.journal = j] \in DiskType
    BY <1>1 DEF DiskType
  <2> QED
    BY <1>7, <2>2, <2>3, <2>4, <2>5 DEF HaltCommit
<1>8. CASE
       \/ NowRead
       \/ NowStore
       \/ NowOrder
       \/ EnterSite
       \/ LeaveSite
       \/ ApplyDeferred
       \/ ConstructorRefused \/ Exit \/ Crash
       \/ BeginCycle
       \/ Activate
       \/ Metadata
       \/ BeginWrite
       \/ \E o \in {"COMPLETED", "FAILED"} : EndCycle(o)
       \/ Admit
       \/ \E save \in BOOLEAN : LoadPaper(save)
       \/ PreSave
       \/ \E committed \in BOOLEAN : SaveReturns(committed)
       \/ SaveStopped
       \/ WriteEvidence
       \/ RunEvidence
       \/ Deactivate
       \/ Payload
       \/ HaltRollback
       \/ Recorded
       \/ Close
       \/ \E s \in Signum : Handler(s)
       \/ ClockMoves
       \/ \E token \in 0..Len(disk.journal) : Start(token)
       \/ UNCHANGED haltVars
  BY <1>1, <1>8 DEF NowRead, NowStore, NowOrder, EnterSite, LeaveSite, ApplyDeferred,
         ConstructorRefused, Exit, Crash, BeginCycle, Activate, Metadata, BeginWrite, EndCycle,
         Admit, LoadPaper, PreSave, SaveReturns, SaveStopped, WriteEvidence, RunEvidence,
         Deactivate, Payload, HaltRollback, Recorded, Close, Handler, ClockMoves, Start, haltVars
<1> QED
  BY <1>4, <1>5, <1>6, <1>7, <1>8 DEF HaltNext, MainStep

LEMMA LifeTypeStep ==
    ASSUME HaltTypeOK, RunControl, [HaltNext]_haltVars
    PROVE  life' \in LifeType
<1>1. life \in LifeType
  BY DEF HaltTypeOK
<1>2. /\ LastAdmission \in Nat /\ main.run \in Nat
      /\ life.starts \in Nat /\ life.signals \in Nat /\ life.other \in BOOLEAN
      /\ life.committed \in SUBSET Nat /\ life.late \in SUBSET Nat
      /\ life.rex \in SUBSET (Kind \X Nat \X Nat)
  BY GateFields, MainFields, LifeFields DEF HaltTypeOK
<1>3. NewLife(life.starts) \in LifeType /\ NewLife(life.starts + 1) \in LifeType
  BY <1>2, NewTypes
<1>4. CASE ConstructorRefused \/ Exit \/ Crash \/ \E token \in 0..Len(disk.journal) : Start(token)
  BY <1>3, <1>4 DEF ConstructorRefused, Exit, Crash, Gone, Start
<1>5. CASE \E committed \in BOOLEAN : SaveReturns(committed)
  <2>1. \A c \in SUBSET Nat, l \in SUBSET Nat : [life EXCEPT !.committed = c, !.late = l] \in LifeType
    BY <1>1 DEF LifeType
  <2>2. life.committed \cup {LastAdmission} \in SUBSET Nat /\ life.late \cup {LastAdmission} \in SUBSET Nat
    BY <1>2
  <2>3. (IF Halted THEN life.late \cup {LastAdmission} ELSE life.late) \in SUBSET Nat
    BY <1>2, <2>2
  <2>4. \/ life' = life
        \/ life' = [life EXCEPT !.committed = life.committed \cup {LastAdmission},
                              !.late = IF Halted THEN life.late \cup {LastAdmission} ELSE life.late]
    BY <1>5 DEF SaveReturns
  <2> QED
    BY <1>1, <1>2, <1>5, <2>1, <2>2, <2>3, <2>4
<1>6. CASE WriteEvidence \/ RunEvidence
  <2>1. \A e \in SUBSET (Kind \X Nat \X Nat) : [life EXCEPT !.rex = e] \in LifeType
    BY <1>1 DEF LifeType
  <2>2. /\ life.rex \cup {<<"REX_WRITE", main.run, LastAdmission>>} \in SUBSET (Kind \X Nat \X Nat)
        /\ life.rex \cup {<<"REX_RUN", main.run, 0>>} \in SUBSET (Kind \X Nat \X Nat)
    BY <1>2 DEF Kind
  <2> QED
    BY <1>1, <1>6, <2>1, <2>2 DEF WriteEvidence, RunEvidence, RexRow
<1>7. CASE \E s \in Signum : Handler(s)
  <2>1. \A n \in Nat, b \in BOOLEAN : [life EXCEPT !.signals = n, !.other = b] \in LifeType
    BY <1>1 DEF LifeType
  <2>2. life.signals + 1 \in Nat
        /\ \A s : (life.other \/ (s # "TERM" /\ main.pc # "recorded" /\ gate.recorded = 0)) \in BOOLEAN
    BY <1>2
  <2> QED
    BY <1>2, <1>7, <2>1, <2>2 DEF Handler
<1>8. CASE
       \/ NowRead
       \/ NowStore
       \/ NowOrder
       \/ EnterSite
       \/ SiteWrite
       \/ LeaveSite
       \/ ApplyDeferred
       \/ BeginCycle
       \/ Claim
       \/ Activate
       \/ Metadata
       \/ BeginWrite
       \/ \E o \in {"COMPLETED", "FAILED"} : EndCycle(o)
       \/ Finish
       \/ Admit
       \/ \E save \in BOOLEAN : LoadPaper(save)
       \/ PreSave
       \/ SaveStopped
       \/ Deactivate
       \/ Payload
       \/ HaltCommit
       \/ HaltRollback
       \/ Recorded
       \/ Close
       \/ ClockMoves
       \/ UNCHANGED haltVars
  BY <1>1, <1>8 DEF NowRead, NowStore, NowOrder, EnterSite, SiteWrite, LeaveSite, ApplyDeferred,
         BeginCycle, Claim, Activate, Metadata, BeginWrite, EndCycle, Finish, Admit, LoadPaper,
         PreSave, SaveStopped, Deactivate, Payload, HaltCommit, HaltRollback, Recorded, Close,
         ClockMoves, haltVars
<1> QED
  BY <1>4, <1>5, <1>6, <1>7, <1>8 DEF HaltNext, MainStep

LEMMA MainTypeStep ==
    ASSUME HaltTypeOK, RunControl, [HaltNext]_haltVars
    PROVE  main' \in MainType
<1>1. main \in MainType
  BY DEF HaltTypeOK
<1>2. /\ main.now \in Nat /\ main.site \in Nat /\ main.ret \in MainPc
      /\ Later(clock, gate.last + 1) \in Nat /\ Later(main.now, gate.requested.ns + 1) \in Nat
      /\ Len(disk.runs) + 1 \in Nat /\ Residual \in SUBSET Nat
  <2>1. gate.last \in Nat /\ gate.requested.ns \in Nat /\ gate.admissions \in Seq(Admission)
    BY GateFields DEF HaltTypeOK
  <2>2. clock \in Nat /\ main.now \in Nat /\ main.site \in Nat /\ Len(disk.runs) \in Nat
    BY MainFields, DiskFields DEF HaltTypeOK
  <2>3. Residual \in SUBSET Nat
    BY <2>1 DEF Residual
  <2>4. main.ret \in MainPc
    BY <1>1, MainFields, Places
  <2> QED
    BY <2>1, <2>2, <2>3, <2>4 DEF Later
<1>3. CASE NowRead
  BY <1>1, <1>2, <1>3, Places DEF NowRead, MainType
<1>4. CASE NowStore
  BY <1>1, <1>2, <1>4, Places DEF NowStore, MainType
<1>5. CASE NowOrder
  BY <1>1, <1>2, <1>5, Places DEF NowOrder, MainType
<1>6. CASE EnterSite \/ SiteWrite \/ LeaveSite
  BY <1>1, <1>2, <1>6, Places DEF EnterSite, SiteWrite, LeaveSite, MainType
<1>7. CASE BeginCycle
  BY <1>1, <1>2, <1>7, Places DEF BeginCycle, MainType
<1>8. CASE Claim \/ Activate \/ Metadata \/ Finish
  BY <1>1, <1>2, <1>8, Places DEF Claim, Activate, Metadata, Finish, Goto, MainType
<1>9. CASE \E o \in {"COMPLETED", "FAILED"} : EndCycle(o)
  BY <1>1, <1>2, <1>9, Places DEF EndCycle, MainType
<1>10. CASE Admit \/ PreSave
  BY <1>1, <1>2, <1>10, Places DEF Admit, PreSave, Refuse, Goto, MainType
<1>11. CASE \E save \in BOOLEAN : LoadPaper(save)
  BY <1>1, <1>2, <1>11, Places DEF LoadPaper, WriteOver, MainType
<1>12. CASE \E committed \in BOOLEAN : SaveReturns(committed)
  BY <1>1, <1>2, <1>12, Places DEF SaveReturns, WriteOver, MainType
<1>13. CASE SaveStopped \/ WriteEvidence \/ RunEvidence
  BY <1>1, <1>2, <1>13, Places DEF SaveStopped, WriteEvidence, RunEvidence, WriteOver, Goto,
         MainType
<1>14. CASE Deactivate
  BY <1>1, <1>2, <1>14, Places DEF Deactivate, MainType
<1>15. CASE Payload
  BY <1>1, <1>2, <1>15, Places DEF Payload, MainType
<1>16. CASE HaltCommit \/ HaltRollback \/ Recorded \/ Close
  BY <1>1, <1>2, <1>16, Places DEF HaltCommit, HaltRollback, Recorded, Close, BookOver, Goto,
         MainType
<1>17. CASE ApplyDeferred
  <2>1. \/ main' = [main EXCEPT !.pc = "site", !.site = main.site + 1]
        \/ main' = [main EXCEPT !.pc = "loop"]
    BY <1>17 DEF ApplyDeferred
  <2>2. main.site + 1 \in Nat
    BY <1>2
  <2> QED
    BY <1>1, <2>1, <2>2, Places DEF MainType
<1>18. CASE BeginWrite
  <2>1. \/ main' = [main EXCEPT !.pc = "now_read", !.ret = "admit"]
        \/ main' = [main EXCEPT !.pc = "now_read", !.ret = "admit", !.run = 0, !.rex = FALSE]
    BY <1>18 DEF BeginWrite
  <2>2. [main EXCEPT !.pc = "now_read", !.ret = "admit"] \in MainType
    BY <1>1, Places DEF MainType
  <2>3. [main EXCEPT !.pc = "now_read", !.ret = "admit", !.run = 0, !.rex = FALSE] \in MainType
    BY <1>1, Places DEF MainType
  <2> QED
    BY <2>1, <2>2, <2>3
<1>19. CASE ConstructorRefused \/ Exit \/ Crash \/ \E token \in 0..Len(disk.journal) : Start(token)
  <2>1. Rest \in MainType /\ [Rest EXCEPT !.pc = "site"] \in MainType
    BY NewTypes, Places DEF MainType
  <2> QED
    BY <1>19, <2>1 DEF ConstructorRefused, Exit, Crash, Gone, Start
<1>20. CASE (\E s \in Signum : Handler(s)) \/ ClockMoves \/ UNCHANGED haltVars
  BY <1>1, <1>20 DEF Handler, ClockMoves, haltVars
<1> QED
  BY <1>3, <1>4, <1>5, <1>6, <1>7, <1>8, <1>9, <1>10, <1>11, <1>12, <1>13, <1>14, <1>15, <1>16,
     <1>17, <1>18, <1>19, <1>20
     DEF HaltNext, MainStep

LEMMA HaltTypeStep ==
    ASSUME HaltTypeOK, RunControl, [HaltNext]_haltVars
    PROVE  HaltTypeOK'
<1>1. clock \in Nat \ {0} /\ stop \in BOOLEAN
  BY DEF HaltTypeOK
<1>2. clock' \in {clock, clock + 1, 1} /\ stop' \in {stop, FALSE, TRUE}
  BY DEF HaltNext, MainStep, NowRead, NowStore, NowOrder, EnterSite, SiteWrite, LeaveSite,
         ApplyDeferred, ConstructorRefused, Exit, Crash, Gone, BeginCycle, Claim, Activate,
         Metadata, BeginWrite, EndCycle, Finish, Admit, LoadPaper, PreSave, SaveReturns,
         SaveStopped, WriteEvidence, RunEvidence, Deactivate, Payload, HaltCommit, HaltRollback,
         Recorded, Close, Handler, ClockMoves, Start, haltVars
<1>3. clock' \in Nat \ {0}
  BY <1>1, <1>2, SMT
<1>4. stop' \in BOOLEAN
  BY <1>1, <1>2, Zenon
<1> QED
  BY <1>3, <1>4, GateTypeStep, MainTypeStep, DiskTypeStep, LifeTypeStep DEF HaltTypeOK


-----------------------------------------------------------------------------
\* What the handler leaves alone.
LEMMA RequestKeeps ==
    ASSUME NEW g \in GateType, NEW s \in Signum
    PROVE  /\ Request(g, s).last = g.last /\ Request(g, s).depth = g.depth
           /\ Request(g, s).admissions = g.admissions /\ Request(g, s).recorded = g.recorded
           /\ Request(g, s).active = g.active /\ Request(g, s).evidence = g.evidence
BY DEF Request, GateType

\* An admission is added at the end, or the last one is marked.
LEMMA AdmissionsStep ==
    ASSUME HaltTypeOK, RunControl
    PROVE  /\ Admit => \/ Halted /\ gate' = gate
                       \/ /\ ~Halted /\ main'.pc = "load" /\ main'.run = main.run
                          /\ LastAdmission' = LastAdmission + 1 /\ LastAdmission' # 0
                          /\ Last' = [run |-> main.run, read2 |-> 0, tstop |-> 0]
                          /\ \A a \in 1..LastAdmission : gate'.admissions[a] = gate.admissions[a]
           /\ PreSave => \/ Halted /\ gate' = gate
                         \/ /\ ~Halted /\ main'.pc = "save" /\ main'.run = main.run
                            /\ LastAdmission' = LastAdmission
                            /\ Last'.read2 = main.now /\ Last'.run = Last.run /\ Last'.tstop = Last.tstop
                            /\ \A a \in 1..LastAdmission : a # LastAdmission =>
                                 gate'.admissions[a] = gate.admissions[a]
           /\ SaveStopped => /\ LastAdmission' = LastAdmission
                             /\ Last'.tstop = main.now /\ Last'.run = Last.run /\ Last'.read2 = Last.read2
                             /\ \A a \in 1..LastAdmission : a # LastAdmission =>
                                  gate'.admissions[a] = gate.admissions[a]
<1> DEFINE new == [run |-> main.run, read2 |-> 0, tstop |-> 0]
<1>1. gate \in GateType /\ main \in MainType
  BY DEF HaltTypeOK
<1>2. gate.admissions \in Seq(Admission) /\ main.now \in Nat /\ main.run \in Nat
  BY <1>1, GateFields, MainFields
<1>3. ASSUME Admit, ~Halted
      PROVE  /\ ~Halted /\ main'.pc = "load" /\ main'.run = main.run
             /\ gate'.admissions = Append(gate.admissions, new)
  BY <1>1, <1>3 DEF Admit, Goto, GateType, MainType
<1>4. /\ Len(Append(gate.admissions, new)) = Len(gate.admissions) + 1
      /\ Append(gate.admissions, new)[Len(gate.admissions) + 1] = new
      /\ \A a \in 1..Len(gate.admissions) : Append(gate.admissions, new)[a] = gate.admissions[a]
  BY <1>2
<1>5. Len(gate.admissions) \in Nat
  BY <1>2
<1>6. ASSUME PreSave, ~Halted
      PROVE  /\ ~Halted /\ main'.pc = "save" /\ main'.run = main.run
             /\ gate'.admissions = [gate.admissions EXCEPT ![LastAdmission].read2 = main.now]
  BY <1>1, <1>6 DEF PreSave, Goto, GateType, MainType
<1>7. ASSUME SaveStopped
      PROVE  gate'.admissions = [gate.admissions EXCEPT ![LastAdmission].tstop = main.now]
  BY <1>1, <1>7 DEF SaveStopped, GateType
<1>8. PreSave \/ SaveStopped => LastAdmission \in 1..Len(gate.admissions)
  BY <1>5 DEF PreSave, SaveStopped, RunControl, Admitted, At, LastAdmission
<1>9. ASSUME LastAdmission \in 1..Len(gate.admissions)
      PROVE  /\ Len([gate.admissions EXCEPT ![LastAdmission].read2 = main.now]) = LastAdmission
             /\ Len([gate.admissions EXCEPT ![LastAdmission].tstop = main.now]) = LastAdmission
             /\ LET l == [gate.admissions EXCEPT ![LastAdmission].read2 = main.now][LastAdmission] IN
                  l.read2 = main.now /\ l.run = Last.run /\ l.tstop = Last.tstop
             /\ LET l == [gate.admissions EXCEPT ![LastAdmission].tstop = main.now][LastAdmission] IN
                  l.tstop = main.now /\ l.run = Last.run /\ l.read2 = Last.read2
             /\ \A a \in 1..LastAdmission : a # LastAdmission =>
                  /\ [gate.admissions EXCEPT ![LastAdmission].read2 = main.now][a] = gate.admissions[a]
                  /\ [gate.admissions EXCEPT ![LastAdmission].tstop = main.now][a] = gate.admissions[a]
  <2> DEFINE q == gate.admissions
  <2>0. q[LastAdmission] \in Admission
    BY <1>2, <1>9
  <2>1. /\ Len([gate.admissions EXCEPT ![LastAdmission].read2 = main.now]) = Len(gate.admissions)
        /\ Len([gate.admissions EXCEPT ![LastAdmission].tstop = main.now]) = Len(gate.admissions)
    BY <1>2, <1>9, AdmissionWith
  <2> QED
    BY <1>2, <1>9, <2>0, <2>1 DEF LastAdmission, Last, Admission
<1>10. Admit => \/ Halted /\ gate' = gate
                \/ /\ ~Halted /\ main'.pc = "load" /\ main'.run = main.run
                   /\ LastAdmission' = LastAdmission + 1 /\ LastAdmission' # 0
                   /\ Last' = new
                   /\ \A a \in 1..LastAdmission : gate'.admissions[a] = gate.admissions[a]
  BY <1>3, <1>4, <1>5 DEF Admit, LastAdmission, Last
<1>11. PreSave /\ Halted => gate' = gate
  BY DEF PreSave
<1> QED
  BY <1>6, <1>7, <1>8, <1>9, <1>10, <1>11 DEF LastAdmission, Last

-----------------------------------------------------------------------------
\* Where the run of the process stands.
LEMMA RunControlStep ==
    ASSUME HaltTypeOK, RunControl, [HaltNext]_haltVars
    PROVE  RunControl'
<1> USE DEF HaltTypeOK, GateType, MainType, RunControl, At, Admitted, Last, LastAdmission,
            Reading, Startup, InRun
<1>1. CASE NowRead
  BY <1>1 DEF NowRead, Later
<1>2. CASE NowStore
  BY <1>2 DEF NowStore
<1>3. CASE NowOrder
  BY <1>3 DEF NowOrder, Later
<1>4. CASE EnterSite
  BY <1>4 DEF EnterSite
<1>5. CASE SiteWrite
  BY <1>5 DEF SiteWrite
<1>6. CASE LeaveSite
  BY <1>6 DEF LeaveSite
<1>7. CASE ApplyDeferred
  BY <1>7 DEF ApplyDeferred
<1>8. CASE ConstructorRefused \/ Exit \/ Crash
  BY <1>8 DEF ConstructorRefused, Exit, Crash, Gone, Rest
<1>9. CASE BeginCycle
  BY <1>9 DEF BeginCycle
<1>10. CASE Claim
  BY <1>10 DEF Claim, Goto
<1>11. CASE Activate
  BY <1>11 DEF Activate, Goto
<1>12. CASE Metadata
  BY <1>12 DEF Metadata, Goto
<1>13. CASE BeginWrite
  <2>1. /\ gate' = gate /\ main'.pc = "now_read" /\ main'.ret = "admit"
        /\ \/ main.pc = "work" /\ main'.run = main.run /\ main'.rex = main.rex
           \/ main'.run = 0 /\ main'.rex = FALSE
    BY <1>13, ZenonT(60) DEF BeginWrite
  <2> QED
    BY <2>1
<1>14. CASE \E o \in {"COMPLETED", "FAILED"} : EndCycle(o)
  BY <1>14 DEF EndCycle
<1>15. CASE Finish
  BY <1>15 DEF Finish, Goto
<1>16. CASE Admit
  <2>1. /\ main'.run = main.run /\ main'.rex = main.rex
        /\ main'.pc = "load" \/ (gate' = gate /\ main'.pc = IF main.run # 0 THEN "book" ELSE "loop")
        /\ gate'.active = gate.active
    BY <1>16 DEF Admit, Refuse, Goto
  <2>2. \/ Halted /\ gate' = gate
        \/ ~Halted /\ LastAdmission' # 0 /\ Last'.run = main.run /\ main'.pc = "load"
    BY <1>16, AdmissionsStep
  <2> QED
    BY <1>16, <2>1, <2>2 DEF Admit, Goto, Refuse
<1>17. CASE \E save \in BOOLEAN : LoadPaper(save)
  BY <1>17 DEF LoadPaper, WriteOver
<1>18. CASE PreSave
  <2>1. /\ main'.run = main.run /\ main'.rex = main.rex
        /\ main'.pc = "save" \/ (gate' = gate /\ main'.pc = IF main.run # 0 THEN "book" ELSE "loop")
        /\ gate'.active = gate.active
    BY <1>18 DEF PreSave, Refuse, Goto
  <2>2. \/ Halted /\ gate' = gate
        \/ ~Halted /\ LastAdmission' # 0 /\ Last'.run = main.run /\ main'.pc = "save"
    BY <1>18, AdmissionsStep DEF PreSave
  <2> QED
    BY <1>18, <2>1, <2>2 DEF PreSave
<1>19. CASE \E committed \in BOOLEAN : SaveReturns(committed)
  BY <1>19 DEF SaveReturns, WriteOver
<1>20. CASE SaveStopped
  BY <1>20 DEF SaveStopped, Goto
<1>21. CASE WriteEvidence
  BY <1>21 DEF WriteEvidence, RexRow, AllowEvidence, WriteOver, Goto
<1>22. CASE RunEvidence
  BY <1>22 DEF RunEvidence, RexRow, AllowEvidence, Goto
<1>23. CASE Deactivate
  BY <1>23 DEF Deactivate
<1>24. CASE Payload
  BY <1>24 DEF Payload, Residual
<1>25. CASE HaltCommit
  BY <1>25 DEF HaltCommit, JournalEvent, Goto
<1>26. CASE HaltRollback
  BY <1>26 DEF HaltRollback, BookOver, Goto
<1>27. CASE Recorded
  BY <1>27 DEF Recorded, BookOver, Goto
<1>28. CASE Close
  BY <1>28 DEF Close, Goto
<1>29. CASE \E s \in Signum : Handler(s)
  <2>1. gate'.active = gate.active /\ gate'.admissions = gate.admissions
    BY <1>29, RequestKeeps DEF Handler
  <2> QED
    BY <1>29, <2>1 DEF Handler
<1>30. CASE ClockMoves
  BY <1>30 DEF ClockMoves
<1>31. CASE \E token \in 0..Len(disk.journal) : Start(token)
  BY <1>31 DEF Start, Rest
<1>32. CASE UNCHANGED haltVars
  BY <1>32 DEF haltVars
<1> QED
  BY <1>1, <1>2, <1>3, <1>4, <1>5, <1>6, <1>7, <1>8, <1>9, <1>10, <1>11, <1>12, <1>13,
     <1>14, <1>15, <1>16, <1>17, <1>18, <1>19, <1>20, <1>21, <1>22, <1>23, <1>24, <1>25, <1>26,
     <1>27, <1>28, <1>29, <1>30, <1>31, <1>32
     DEF HaltNext, MainStep


\* What the handler does with a cause, by what the gate had.
LEMMA RequestEffect ==
    ASSUME HaltTypeOK, NEW g \in GateType, NEW s \in Signum
    PROVE  /\ g.requested = NotHalted /\ g.depth > 0 =>
                /\ Request(g, s).requested = NotHalted
                /\ Request(g, s).deferred = IF g.deferred \in {NoSignal, "TERM"} THEN s ELSE g.deferred
           /\ g.requested = NotHalted /\ ~ g.depth > 0 =>
                /\ Request(g, s).requested.ns > g.last /\ Request(g, s).requested.signum = s
                /\ Request(g, s).requested.ns \in Nat /\ Request(g, s).requested.ns > 0
                /\ Request(g, s).deferred = g.deferred
           /\ g.requested # NotHalted =>
                /\ Request(g, s).requested.ns = g.requested.ns
                /\ Request(g, s).deferred = g.deferred
                /\ Request(g, s).requested.signum =
                     IF g.recorded = 0 /\ g.requested.signum = "TERM" /\ s # "TERM"
                     THEN s ELSE g.requested.signum
<1>1. clock \in Nat
  BY DEF HaltTypeOK
<1>2. g.last \in Nat /\ Later(clock, g.last + 1) \in Nat /\ Later(clock, g.last + 1) > g.last
  BY <1>1 DEF GateType, Later
<1> QED
  BY <1>2 DEF Request, GateType

LEMMA HaltedMeans ==
    ASSUME NEW r \in [ns : Nat, signum : Signum \cup {NoSignal}]
    PROVE  r = NotHalted <=> r.ns = 0 /\ r.signum = NoSignal
BY DEF NotHalted

\* What the gate has seen.
LEMMA SignalControlStep ==
    ASSUME HaltTypeOK, RunControl, SignalControl, [HaltNext]_haltVars,
           main.pc = "recorded" => Len(disk.journal) # 0
    PROVE  SignalControl'
<1> USE DEF HaltTypeOK, GateType, MainType, LifeType, SignalControl, Halted, Book
<1>1. CASE NowRead
  BY <1>1 DEF NowRead, Later
<1>2. CASE NowStore
  BY <1>2 DEF NowStore
<1>3. CASE NowOrder
  <2>1. /\ gate'.requested = gate.requested /\ gate'.deferred = gate.deferred
        /\ gate'.depth = gate.depth /\ gate'.recorded = gate.recorded
        /\ main'.pc = main.ret /\ UNCHANGED <<life, stop>>
    BY <1>3 DEF NowOrder
  <2> QED
    BY <1>3, <2>1 DEF NowOrder, RunControl, Reading
<1>4. CASE EnterSite
  BY <1>4 DEF EnterSite
<1>5. CASE SiteWrite
  BY <1>5 DEF SiteWrite
<1>6. CASE LeaveSite
  BY <1>6 DEF LeaveSite
<1>7. CASE ApplyDeferred
  <2>1. \/ gate.deferred = NoSignal /\ gate' = gate
        \/ gate.deferred \in Signum /\ gate' = Request([gate EXCEPT !.deferred = NoSignal], gate.deferred)
    BY <1>7 DEF ApplyDeferred
  <2>2. main'.pc \in {"site", "loop"} /\ UNCHANGED <<life, stop>> /\ gate.depth = 0
    BY <1>7 DEF ApplyDeferred
  <2>3. CASE gate' = gate /\ gate.deferred = NoSignal
    BY <1>7, <2>2, <2>3 DEF ApplyDeferred
  <2>4. CASE gate.deferred \in Signum /\ gate' = Request([gate EXCEPT !.deferred = NoSignal], gate.deferred)
    <3> DEFINE g == [gate EXCEPT !.deferred = NoSignal]
    <3>1. /\ g \in GateType /\ g.requested = gate.requested /\ g.depth = 0 /\ g.deferred = NoSignal
          /\ g.recorded = gate.recorded
      BY <2>2
    <3> HIDE DEF g
    <3>2. gate' = Request(g, gate.deferred) /\ gate.deferred \in Signum
      BY <2>4 DEF g
    <3> HIDE DEF HaltTypeOK, GateType, MainType, LifeType
    <3>3. gate'.depth = 0 /\ gate'.recorded = gate.recorded
      BY <3>1, <3>2, RequestKeeps
    <3>4. /\ g.requested = NotHalted => /\ gate'.requested.ns > 0
                                        /\ gate'.requested.signum = gate.deferred
          /\ g.requested # NotHalted =>
               /\ gate'.requested.ns = g.requested.ns
               /\ gate'.requested.signum =
                    IF g.recorded = 0 /\ g.requested.signum = "TERM" /\ gate.deferred # "TERM"
                    THEN gate.deferred ELSE g.requested.signum
          /\ gate'.deferred = NoSignal
      BY <3>1, <3>2, RequestEffect
    <3>5. gate.requested \in [ns : Nat, signum : Signum \cup {NoSignal}]
      BY GateFields DEF HaltTypeOK
    <3>6. gate.deferred # NoSignal /\ stop = TRUE
      BY <2>4 DEF SignalControl, Signum, NoSignal
    <3> QED
      BY <2>2, <3>1, <3>2, <3>3, <3>4, <3>5, <3>6, HaltedMeans DEF Signum, NoSignal, NotHalted
  <2> QED
    BY <2>1, <2>3, <2>4
<1>8. CASE ConstructorRefused \/ Exit \/ Crash
  BY <1>8 DEF ConstructorRefused, Exit, Crash, Gone, NewGate, Rest, NewLife, NotHalted, NoSignal
<1>9. CASE BeginCycle
  BY <1>9 DEF BeginCycle
<1>10. CASE Claim
  BY <1>10 DEF Claim, Goto
<1>11. CASE Activate
  BY <1>11 DEF Activate, Goto
<1>12. CASE Metadata
  BY <1>12 DEF Metadata, Goto
<1>13. CASE BeginWrite
  <2>1. gate' = gate /\ life' = life /\ stop' = stop /\ main'.pc = "now_read" /\ main.pc \in {"work", "loop"}
    BY <1>13 DEF BeginWrite
  <2> QED
    BY <2>1
<1>14. CASE \E o \in {"COMPLETED", "FAILED"} : EndCycle(o)
  BY <1>14 DEF EndCycle
<1>15. CASE Finish
  BY <1>15 DEF Finish, Goto
<1>16. CASE Admit
  BY <1>16, SMTT(40) DEF Admit, Refuse, Goto
<1>17. CASE \E save \in BOOLEAN : LoadPaper(save)
  BY <1>17 DEF LoadPaper, WriteOver
<1>18. CASE PreSave
  BY <1>18 DEF PreSave, Refuse, Goto
<1>19. CASE \E committed \in BOOLEAN : SaveReturns(committed)
  BY <1>19 DEF SaveReturns, WriteOver
<1>20. CASE SaveStopped
  BY <1>20 DEF SaveStopped, Goto
<1>21. CASE WriteEvidence
  BY <1>21, SMTT(40) DEF WriteEvidence, RexRow, AllowEvidence, WriteOver, Goto
<1>22. CASE RunEvidence
  BY <1>22, ZenonT(60) DEF RunEvidence, RexRow, AllowEvidence, Goto
<1>23. CASE Deactivate
  BY <1>23 DEF Deactivate
<1>24. CASE Payload
  BY <1>24 DEF Payload, Residual
<1>25. CASE HaltCommit
  BY <1>25 DEF HaltCommit, JournalEvent, Goto
<1>26. CASE HaltRollback
  BY <1>26 DEF HaltRollback, BookOver, Goto
<1>27. CASE Recorded
  <2>1. /\ gate'.requested = gate.requested /\ gate'.deferred = gate.deferred
        /\ gate'.depth = gate.depth /\ gate'.recorded = Len(disk.journal)
        /\ main'.pc \in {"rex_run", "exit"} /\ UNCHANGED <<life, stop>>
    BY <1>27 DEF Recorded, BookOver, Goto
  <2> QED
    BY <1>27, <2>1 DEF Recorded
<1>28. CASE Close
  BY <1>28 DEF Close, Goto
<1>29. CASE \E s \in Signum : Handler(s)
  <2>1. PICK s \in Signum : Handler(s)
    BY <1>29
  <2>2. /\ main' = main /\ main.pc # "down" /\ gate' = Request(gate, s) /\ stop' = TRUE
        /\ life'.other = (life.other \/ (s # "TERM" /\ main.pc # "recorded" /\ gate.recorded = 0))
    BY <2>1 DEF Handler
  <2>3. gate'.depth = gate.depth /\ gate'.recorded = gate.recorded
    BY <2>2, RequestKeeps
  <2>4. s \in {"TERM", "OTHER"} /\ s # NoSignal
    BY DEF Signum, NoSignal
  <2>5. gate \in GateType
    BY DEF HaltTypeOK
  <2> HIDE DEF HaltTypeOK, GateType, MainType, LifeType
  <2>6. /\ gate.requested = NotHalted /\ gate.depth > 0 =>
             /\ gate'.requested = NotHalted
             /\ gate'.deferred = IF gate.deferred \in {NoSignal, "TERM"} THEN s ELSE gate.deferred
        /\ gate.requested = NotHalted /\ ~ gate.depth > 0 =>
             gate'.requested.ns > 0 /\ gate'.requested.signum = s /\ gate'.deferred = gate.deferred
        /\ gate.requested # NotHalted =>
             /\ gate'.requested.ns = gate.requested.ns
             /\ gate'.deferred = gate.deferred
             /\ gate'.requested.signum = IF gate.recorded = 0 /\ gate.requested.signum = "TERM" /\ s # "TERM"
                                         THEN s ELSE gate.requested.signum
    BY <2>2, <2>5, RequestEffect
  <2>7. gate.requested \in [ns : Nat, signum : Signum \cup {NoSignal}] /\ gate.depth \in Nat
        /\ gate.deferred \in Signum \cup {NoSignal}
    BY <2>5, GateFields
  <2>8. /\ Halted' <=> gate'.requested.ns # 0
        /\ Halted' <=> gate'.requested.signum # NoSignal
        /\ Halted => Halted'
    BY <2>4, <2>6, <2>7, HaltedMeans DEF NotHalted
  <2>9. /\ gate'.deferred # NoSignal => main.pc \in {"site_write", "leave", "deferred"}
        /\ main.pc = "site_write" => ~Halted'
    BY <2>3, <2>4, <2>6, <2>7 DEF NotHalted
  <2>10. life'.other => \/ gate'.requested.signum = "OTHER" \/ gate'.deferred = "OTHER"
                        \/ main.pc = "recorded" \/ gate.recorded # 0
    BY <2>2, <2>4, <2>6, <2>7, HaltedMeans DEF NoSignal, Signum, NotHalted
  <2> QED
    BY <2>2, <2>3, <2>8, <2>9, <2>10
<1>30. CASE ClockMoves
  BY <1>30 DEF ClockMoves
<1>31. CASE \E token \in 0..Len(disk.journal) : Start(token)
  BY <1>31 DEF Start, Rest, NewLife, NewGate, NotHalted, NoSignal
<1>32. CASE UNCHANGED haltVars
  BY <1>32 DEF haltVars
<1> QED
  BY <1>1, <1>2, <1>3, <1>4, <1>5, <1>6, <1>7, <1>8, <1>9, <1>10, <1>11, <1>12, <1>13,
     <1>14, <1>15, <1>16, <1>17, <1>18, <1>19, <1>20, <1>21, <1>22, <1>23, <1>24, <1>25, <1>26,
     <1>27, <1>28, <1>29, <1>30, <1>31, <1>32
     DEF HaltNext, MainStep


LEMMA LastType ==
    ASSUME HaltTypeOK, LastAdmission # 0
    PROVE  Last.run \in Nat /\ Last.read2 \in Nat /\ Last.tstop \in Nat
<1>1. gate.admissions \in Seq(Admission)
  BY GateFields DEF HaltTypeOK
<1>2. Last \in Admission
  BY <1>1 DEF Last, LastAdmission
<1> QED
  BY <1>2 DEF Admission

\* The readings increase, and the one before a save is before T_h.
LEMMA InstantsStep ==
    ASSUME HaltTypeOK, RunControl, SignalControl, Instants, [HaltNext]_haltVars
    PROVE  Instants'
<1>0. /\ gate.last \in Nat /\ gate.requested.ns \in Nat /\ clock \in Nat /\ main.now \in Nat
      /\ Later(clock, gate.last + 1) \in Nat /\ Later(clock, gate.last + 1) > gate.last
      /\ main.pc \in {"save", "evidence"} \/ At("stopped") => Last.read2 \in Nat /\ LastAdmission # 0
  BY GateFields, MainFields, LastType, SMTT(40) DEF HaltTypeOK, RunControl, Admitted, Later
<1> USE DEF HaltTypeOK, GateType, MainType, Instants, At, Last, LastAdmission, Reading, Halted
<1>1. CASE NowRead
  BY <1>1, <1>0 DEF NowRead, Later
<1>2. CASE NowStore
  BY <1>2, <1>0 DEF NowStore
<1>3. CASE NowOrder
  BY <1>3, <1>0 DEF NowOrder, Later
<1>4. CASE EnterSite
  BY <1>4, <1>0 DEF EnterSite
<1>5. CASE SiteWrite
  BY <1>5, <1>0 DEF SiteWrite
<1>6. CASE LeaveSite
  BY <1>6, <1>0 DEF LeaveSite
<1>7. CASE ApplyDeferred
  BY <1>7, <1>0 DEF ApplyDeferred
<1>8. CASE ConstructorRefused \/ Exit \/ Crash
  BY <1>8 DEF ConstructorRefused, Exit, Crash, Gone, NewGate, Rest, Instants, At, Reading
<1>9. CASE BeginCycle
  BY <1>9, <1>0 DEF BeginCycle
<1>10. CASE Claim
  BY <1>10, <1>0 DEF Claim, Goto
<1>11. CASE Activate
  BY <1>11, <1>0 DEF Activate, Goto
<1>12. CASE Metadata
  BY <1>12, <1>0 DEF Metadata, Goto
<1>13. CASE BeginWrite
  <2>1. gate' = gate /\ main'.pc = "now_read" /\ main'.ret = "admit"
    BY <1>13 DEF BeginWrite
  <2> QED
    BY <2>1
<1>14. CASE \E o \in {"COMPLETED", "FAILED"} : EndCycle(o)
  BY <1>14, <1>0 DEF EndCycle
<1>15. CASE Finish
  BY <1>15, <1>0 DEF Finish, Goto
<1>16. CASE Admit
  BY <1>16, <1>0, SMTT(40) DEF Admit, Refuse, Goto
<1>17. CASE \E save \in BOOLEAN : LoadPaper(save)
  BY <1>17, <1>0 DEF LoadPaper, WriteOver
<1>18. CASE PreSave
  <2>1. /\ main'.pc # "save" => main'.pc \in {"book", "loop"}
        /\ gate'.last = gate.last /\ gate'.requested = gate.requested /\ main'.now = main.now
        /\ main.pc = "read2"
    BY <1>18 DEF PreSave, Refuse, Goto
  <2>2. main'.pc = "save" => ~Halted /\ Last'.read2 = main.now
    BY <1>18, AdmissionsStep DEF PreSave, Refuse, Goto
  <2> QED
    BY <1>0, <2>1, <2>2, SMTT(40)
<1>19. CASE \E committed \in BOOLEAN : SaveReturns(committed)
  BY <1>19, <1>0 DEF SaveReturns, WriteOver
<1>20. CASE SaveStopped
  BY <1>20, <1>0 DEF SaveStopped, Goto
<1>21. CASE WriteEvidence
  BY <1>21, <1>0 DEF WriteEvidence, RexRow, AllowEvidence, WriteOver, Goto
<1>22. CASE RunEvidence
  BY <1>22, <1>0 DEF RunEvidence, RexRow, AllowEvidence, Goto
<1>23. CASE Deactivate
  BY <1>23, <1>0 DEF Deactivate
<1>24. CASE Payload
  BY <1>24, <1>0 DEF Payload, Residual
<1>25. CASE HaltCommit
  BY <1>25, <1>0 DEF HaltCommit, JournalEvent, Goto
<1>26. CASE HaltRollback
  BY <1>26, <1>0 DEF HaltRollback, BookOver, Goto
<1>27. CASE Recorded
  BY <1>27, <1>0 DEF Recorded, BookOver, Goto
<1>28. CASE Close
  BY <1>28, <1>0 DEF Close, Goto
<1>29. CASE \E s \in Signum : Handler(s)
  <2>1. PICK s \in Signum : Handler(s)
    BY <1>29
  <2>2. main' = main /\ gate' = Request(gate, s) /\ gate \in GateType
    BY <2>1 DEF Handler
  <2> HIDE DEF HaltTypeOK, GateType, MainType
  <2>3. gate'.last = gate.last /\ gate'.admissions = gate.admissions
    BY <2>2, RequestKeeps
  <2>4. /\ gate.requested = NotHalted /\ gate.depth > 0 => gate'.requested = NotHalted
        /\ gate.requested = NotHalted /\ ~ gate.depth > 0 => gate'.requested.ns > gate.last
        /\ gate.requested # NotHalted => gate'.requested.ns = gate.requested.ns
        /\ gate'.requested = NotHalted \/ gate'.requested.ns \in Nat
    BY <1>0, <2>2, RequestEffect
  <2> QED
    BY <1>0, <2>2, <2>3, <2>4
<1>30. CASE ClockMoves
  BY <1>30, <1>0 DEF ClockMoves
<1>31. CASE \E token \in 0..Len(disk.journal) : Start(token)
  BY <1>31, <1>0 DEF Start
<1>32. CASE UNCHANGED haltVars
  BY <1>32, <1>0 DEF haltVars
<1> QED
  BY <1>1, <1>2, <1>3, <1>4, <1>5, <1>6, <1>7, <1>8, <1>9, <1>10, <1>11, <1>12, <1>13,
     <1>14, <1>15, <1>16, <1>17, <1>18, <1>19, <1>20, <1>21, <1>22, <1>23, <1>24, <1>25, <1>26,
     <1>27, <1>28, <1>29, <1>30, <1>31, <1>32
     DEF HaltNext, MainStep


\* The late write.
LEMMA LateWriteStep ==
    ASSUME HaltTypeOK, RunControl, SignalControl, Instants, LateWrite, [HaltNext]_haltVars
    PROVE  LateWrite'
<1>0. /\ gate.requested.ns \in Nat /\ main.now \in Nat /\ LastAdmission \in Nat
      /\ LastAdmission # 0 => Last.run \in Nat /\ Last.read2 \in Nat /\ Last.tstop \in Nat
      /\ life.late # {} => LastAdmission # 0
  BY GateFields, MainFields, LastType DEF HaltTypeOK, LateWrite
<1> USE DEF HaltTypeOK, GateType, MainType, LifeType, LateWrite, At, Last, LastAdmission, Reading,
            Halted
<1>1. CASE NowRead
  BY <1>1, <1>0 DEF NowRead, Later
<1>2. CASE NowStore
  BY <1>2, <1>0 DEF NowStore
<1>3. CASE NowOrder
  <2>1. /\ main.pc = "now_order" /\ main'.pc = main.ret /\ main'.ret = main.ret
        /\ main'.residual = main.residual /\ life' = life
        /\ gate'.admissions = gate.admissions /\ gate'.requested = gate.requested
    BY <1>3 DEF NowOrder
  <2>2. Halted => main'.now > gate.requested.ns
    BY <1>3, <1>0 DEF NowOrder, Later
  <2>3. main'.pc \in {"admit", "read2", "stopped"}
    BY <2>1 DEF RunControl
  <2> HIDE DEF HaltTypeOK, GateType, MainType, LifeType
  <2> QED
    BY <1>0, <2>1, <2>2, <2>3
<1>4. CASE EnterSite
  BY <1>4, <1>0 DEF EnterSite
<1>5. CASE SiteWrite
  BY <1>5, <1>0 DEF SiteWrite
<1>6. CASE LeaveSite
  BY <1>6, <1>0 DEF LeaveSite
<1>7. CASE ApplyDeferred
  <2>1. \/ gate' = gate
        \/ gate.deferred \in Signum /\ gate' = Request([gate EXCEPT !.deferred = NoSignal], gate.deferred)
    BY <1>7 DEF ApplyDeferred
  <2>2. /\ main'.pc \in {"site", "loop"} /\ main'.ret = main.ret /\ main.pc = "deferred"
        /\ life' = life
    BY <1>7 DEF ApplyDeferred
  <2>3. CASE gate' = gate
    BY <1>0, <2>2, <2>3
  <2>4. CASE gate.deferred \in Signum /\ gate' = Request([gate EXCEPT !.deferred = NoSignal], gate.deferred)
    <3> DEFINE g == [gate EXCEPT !.deferred = NoSignal]
    <3>1. g \in GateType /\ g.requested = gate.requested /\ g.admissions = gate.admissions
      BY DEF GateType
    <3>2. gate' = Request(g, gate.deferred)
      BY <2>4
    <3> HIDE DEF g, HaltTypeOK, GateType, MainType, LifeType
    <3>3. gate'.admissions = gate.admissions
      BY <2>4, <3>1, <3>2, RequestKeeps
    <3>4. Halted => gate'.requested.ns = gate.requested.ns
      BY <2>4, <3>1, <3>2, RequestEffect
    <3>5. life.late # {} => gate'.requested # NotHalted
      <4>1. life.late # {} => gate.requested.ns # 0
        BY DEF SignalControl
      <4> QED
        BY <3>4, <4>1 DEF NotHalted
    <3> QED
      BY <1>0, <2>2, <3>3, <3>4, <3>5
  <2> QED
    BY <2>1, <2>3, <2>4
<1>8. CASE ConstructorRefused \/ Exit \/ Crash
  BY <1>8 DEF ConstructorRefused, Exit, Crash, Gone, NewGate, Rest, NewLife
<1>9. CASE BeginCycle
  BY <1>9, <1>0 DEF BeginCycle
<1>10. CASE Claim
  BY <1>10, <1>0 DEF Claim, Goto
<1>11. CASE Activate
  BY <1>11, <1>0 DEF Activate, Goto
<1>12. CASE Metadata
  BY <1>12, <1>0 DEF Metadata, Goto
<1>13. CASE BeginWrite
  <2>1. gate' = gate /\ life' = life /\ main'.pc = "now_read" /\ main'.ret = "admit"
        /\ main.pc \in {"work", "loop"}
    BY <1>13 DEF BeginWrite
  <2> QED
    BY <2>1, <1>0
<1>14. CASE \E o \in {"COMPLETED", "FAILED"} : EndCycle(o)
  BY <1>14, <1>0, SMTT(40) DEF EndCycle
<1>15. CASE Finish
  BY <1>15, <1>0 DEF Finish, Goto
<1>16. CASE Admit
  <2>1. life' = life /\ main'.pc \in {"load", "book", "loop"} /\ main.pc = "admit"
        /\ (Halted => gate' = gate /\ main'.pc # "load")
    BY <1>16 DEF Admit, Refuse, Goto
  <2>2. CASE Halted
    BY <1>0, <2>1, <2>2
  <2>3. CASE ~Halted
    <3>1. LastAdmission' = LastAdmission + 1
      BY <1>16, <2>3, AdmissionsStep DEF Admit
    <3>2. life.late = {} /\ life.committed \subseteq 1..LastAdmission
      BY <2>3
    <3> HIDE DEF HaltTypeOK, GateType, MainType, LifeType, LastAdmission
    <3>3. life'.committed \subseteq 1..LastAdmission'
      BY <1>0, <2>1, <3>1, <3>2
    <3> QED
      BY <2>1, <3>2, <3>3
  <2> QED
    BY <2>2, <2>3
<1>17. CASE \E save \in BOOLEAN : LoadPaper(save)
  BY <1>17, <1>0, SMTT(40) DEF LoadPaper, WriteOver
<1>18. CASE PreSave
  <2>1. life' = life /\ main'.pc \in {"save", "book", "loop"} /\ main.pc = "read2"
        /\ (Halted => gate' = gate)
    BY <1>18 DEF PreSave, Refuse, Goto
  <2>2. ~Halted => LastAdmission' = LastAdmission
    BY <1>18, AdmissionsStep DEF PreSave
  <2> QED
    BY <1>0, <2>1, <2>2
<1>19. CASE \E committed \in BOOLEAN : SaveReturns(committed)
  <2>1. gate' = gate /\ main.pc = "save" /\ main'.now = main.now
        /\ \/ main.rex /\ main'.pc = "now_read" /\ main'.ret = "stopped"
           \/ ~main.rex /\ main'.pc \in {"work", "loop"}
    BY <1>19 DEF SaveReturns, WriteOver
  <2>2. \/ life'.late = life.late /\ life'.committed = life.committed
        \/ /\ life'.committed = life.committed \cup {LastAdmission}
           /\ life'.late = IF Halted THEN life.late \cup {LastAdmission} ELSE life.late
    BY <1>19 DEF SaveReturns
  <2>3. LastAdmission # 0 /\ Last.run = main.run /\ (main.rex <=> main.run # 0)
    BY <2>1 DEF RunControl, Admitted
  <2>4. Last.read2 # 0 /\ (Halted => Last.read2 < gate.requested.ns)
    BY <2>1 DEF Instants
  <2> HIDE DEF HaltTypeOK, GateType, MainType, LifeType
  <2>5. life'.late \subseteq {LastAdmission} /\ life'.late \subseteq life'.committed
    BY <2>2
  <2>6. life'.committed \subseteq 1..LastAdmission
    BY <1>0, <2>2, <2>3
  <2>7. life'.late # {} => Halted
    BY <2>2
  <2>8. life'.late # {} => Last.read2 \in 1..(gate.requested.ns - 1)
    BY <1>0, <2>3, <2>4, <2>7
  <2> QED
    BY <2>1, <2>3, <2>5, <2>6, <2>7, <2>8
<1>20. CASE SaveStopped
  BY <1>20, <1>0, SMTT(40) DEF SaveStopped, Goto
<1>21. CASE WriteEvidence
  <2>1. /\ gate'.admissions = gate.admissions /\ gate'.requested = gate.requested
        /\ life'.late = life.late /\ life'.committed = life.committed
        /\ main.pc = "evidence" /\ main'.pc \in {"work", "loop"} /\ main'.ret = main.ret
    BY <1>21 DEF WriteEvidence, RexRow, WriteOver, Goto
  <2> QED
    BY <1>0, <2>1
<1>22. CASE RunEvidence
  BY <1>22, <1>0 DEF RunEvidence, RexRow, AllowEvidence, Goto
<1>23. CASE Deactivate
  BY <1>23, <1>0 DEF Deactivate
<1>24. CASE Payload
  BY <1>24, <1>0, SMTT(40) DEF Payload, Residual
<1>25. CASE HaltCommit
  BY <1>25, <1>0 DEF HaltCommit, JournalEvent, Goto
<1>26. CASE HaltRollback
  BY <1>26, <1>0 DEF HaltRollback, BookOver, Goto
<1>27. CASE Recorded
  BY <1>27, <1>0 DEF Recorded, BookOver, Goto
<1>28. CASE Close
  BY <1>28, <1>0 DEF Close, Goto
<1>29. CASE \E s \in Signum : Handler(s)
  <2>1. PICK s \in Signum : Handler(s)
    BY <1>29
  <2>2. /\ main' = main /\ gate' = Request(gate, s) /\ gate \in GateType
        /\ life'.late = life.late /\ life'.committed = life.committed
    BY <2>1 DEF Handler
  <2> HIDE DEF HaltTypeOK, GateType, MainType, LifeType
  <2>3. gate'.admissions = gate.admissions
    BY <2>2, RequestKeeps
  <2>4. Halted => gate'.requested.ns = gate.requested.ns
    BY <2>2, RequestEffect
  <2>5. life.late # {} => gate'.requested.ns # 0
    BY <2>4 DEF SignalControl
  <2>6. gate' \in GateType
    BY <2>2, RequestType
  <2>7. gate'.requested \in [ns : Nat, signum : Signum \cup {NoSignal}]
    BY <2>6 DEF GateType
  <2>8. Halted' <=> ~(gate'.requested.ns = 0 /\ gate'.requested.signum = NoSignal)
    BY <2>7, HaltedMeans
  <2> QED
    BY <1>0, <2>2, <2>3, <2>4, <2>5, <2>8
<1>30. CASE ClockMoves
  BY <1>30, <1>0 DEF ClockMoves
<1>31. CASE \E token \in 0..Len(disk.journal) : Start(token)
  BY <1>31 DEF Start, NewLife
<1>32. CASE UNCHANGED haltVars
  BY <1>32, <1>0, SMTT(40) DEF haltVars
<1> QED
  BY <1>1, <1>2, <1>3, <1>4, <1>5, <1>6, <1>7, <1>8, <1>9, <1>10, <1>11, <1>12, <1>13,
     <1>14, <1>15, <1>16, <1>17, <1>18, <1>19, <1>20, <1>21, <1>22, <1>23, <1>24, <1>25, <1>26,
     <1>27, <1>28, <1>29, <1>30, <1>31, <1>32
     DEF HaltNext, MainStep


\* The row of this life.
LEMMA HaltRowStep ==
    ASSUME HaltTypeOK, RunControl, SignalControl, LateWrite, HaltRow, [HaltNext]_haltVars
    PROVE  HaltRow'
<1>0. /\ disk.runs \in Seq({"RUNNING", "COMPLETED", "FAILED", "HALTED"}) /\ disk.journal \in Seq(Row)
      /\ Len(disk.runs) \in Nat /\ disk.lock \in Nat /\ life.starts \in Nat /\ LastAdmission \in Nat
      /\ Len(disk.journal) \in Nat /\ main.run \in Nat
  BY GateFields, MainFields, DiskFields, LifeFields DEF HaltTypeOK
<1> USE DEF HaltTypeOK, GateType, MainType, DiskType, LifeType, HaltRow, RowIsTrue, RowOfThisLife,
            Halted, Book
<1>1. CASE NowRead
  BY <1>1, <1>0 DEF NowRead, Later
<1>2. CASE NowStore
  BY <1>2, <1>0 DEF NowStore
<1>3. CASE NowOrder
  BY <1>3, <1>0 DEF NowOrder, Later
<1>4. CASE EnterSite
  BY <1>4, <1>0 DEF EnterSite
<1>5. CASE SiteWrite
  BY <1>5, <1>0, SMTT(40) DEF SiteWrite
<1>6. CASE LeaveSite
  BY <1>6, <1>0 DEF LeaveSite
<1>7. CASE ApplyDeferred
  <2>1. /\ main.pc = "deferred" /\ main'.pc \in {"site", "loop"}
        /\ gate' = gate \/ (/\ gate.deferred \in Signum
                            /\ gate' = Request([gate EXCEPT !.deferred = NoSignal], gate.deferred))
        /\ UNCHANGED <<disk, life>>
    BY <1>7 DEF ApplyDeferred
  <2>2. /\ [gate EXCEPT !.deferred = NoSignal] \in GateType
        /\ [gate EXCEPT !.deferred = NoSignal].recorded = gate.recorded
    OBVIOUS
  <2> HIDE DEF HaltTypeOK, GateType, MainType, DiskType, LifeType
  <2>3. gate'.recorded = gate.recorded
    BY <2>1, <2>2, RequestKeeps
  <2> QED
    BY <2>1, <2>3
<1>8. CASE ConstructorRefused \/ Exit \/ Crash
  BY <1>8, <1>0 DEF ConstructorRefused, Exit, Crash, Gone, NewGate, Rest, NewLife
<1>9. CASE BeginCycle
  BY <1>9, <1>0 DEF BeginCycle
<1>10. CASE Claim
  <2>1. /\ main.pc = "claim" /\ main'.pc = "active" /\ gate' = gate /\ life' = life
        /\ disk'.runs = Append(disk.runs, "RUNNING") /\ disk'.lock = main.run
        /\ disk'.journal = disk.journal /\ main.run = Len(disk.runs) + 1
    BY <1>10 DEF Claim, Goto, RunControl
  <2> HIDE DEF HaltTypeOK, GateType, MainType, DiskType, LifeType
  <2>2. disk'.lock <= Len(disk'.runs) /\ disk'.runs[disk'.lock] = "RUNNING"
    BY <1>0, <2>1
  <2>3. RowOfThisLife' = {} /\ RowOfThisLife = {}
    BY <2>1
  <2> QED
    BY <2>1, <2>2, <2>3
<1>11. CASE Activate
  BY <1>11, <1>0 DEF Activate, Goto
<1>12. CASE Metadata
  BY <1>12, <1>0 DEF Metadata, Goto
<1>13. CASE BeginWrite
  <2>1. /\ gate' = gate /\ life' = life /\ disk' = disk /\ main'.pc = "now_read"
        /\ main.pc = "work" \/ (main.pc = "loop" /\ ~Halted)
    BY <1>13 DEF BeginWrite
  <2>2. RowOfThisLife = {} /\ RowOfThisLife' = {} /\ gate.recorded = 0
    BY <2>1, SMTT(40)
  <2> QED
    BY <2>1, <2>2
<1>14. CASE \E o \in {"COMPLETED", "FAILED"} : EndCycle(o)
  BY <1>14, <1>0, SMTT(40) DEF EndCycle
<1>15. CASE Finish
  BY <1>15, <1>0 DEF Finish, Goto
<1>16. CASE Admit
  BY <1>16, <1>0, SMTT(40) DEF Admit, Refuse, Goto
<1>17. CASE \E save \in BOOLEAN : LoadPaper(save)
  BY <1>17, <1>0 DEF LoadPaper, WriteOver
<1>18. CASE PreSave
  BY <1>18, <1>0, SMTT(40) DEF PreSave, Refuse, Goto
<1>19. CASE \E committed \in BOOLEAN : SaveReturns(committed)
  BY <1>19, <1>0, SMTT(40) DEF SaveReturns, WriteOver
<1>20. CASE SaveStopped
  BY <1>20, <1>0, SMTT(40) DEF SaveStopped, Goto
<1>21. CASE WriteEvidence
  <2>1. /\ gate'.recorded = gate.recorded /\ life'.starts = life.starts /\ disk' = disk
        /\ main.pc = "evidence" /\ main'.pc \in {"work", "loop"}
    BY <1>21 DEF WriteEvidence, RexRow, WriteOver, Goto
  <2>2. RowOfThisLife = {} /\ RowOfThisLife' = {} /\ gate.recorded = 0
    BY <2>1
  <2> HIDE DEF HaltTypeOK, GateType, MainType, DiskType, LifeType
  <2> QED
    BY <2>1, <2>2
<1>22. CASE RunEvidence
  <2>1. /\ gate'.recorded = gate.recorded /\ gate'.requested = gate.requested
        /\ gate'.admissions = gate.admissions /\ life'.late = life.late
        /\ life'.starts = life.starts /\ life'.other = life.other /\ disk' = disk
        /\ main.pc = "rex_run" /\ main'.pc = "inactive"
    BY <1>22, SMTT(40) DEF RunEvidence, RexRow, Goto
  <2> HIDE DEF HaltTypeOK, GateType, MainType, DiskType, LifeType
  <2> QED
    BY <2>1
<1>23. CASE Deactivate
  BY <1>23, <1>0, SMTT(40) DEF Deactivate
<1>24. CASE Payload
  BY <1>24, <1>0, SMTT(40) DEF Payload, Residual
<1>25. CASE HaltCommit
  <2> DEFINE row == [event |-> JournalEvent, residual |-> main.residual, life |-> life.starts]
  <2>1. /\ main.pc = "halt" /\ main'.pc = "recorded" /\ gate' = gate /\ life' = life
        /\ disk'.runs = [r \in DOMAIN disk.runs |-> IF r = main.run THEN "HALTED" ELSE disk.runs[r]]
        /\ disk'.lock = IF disk.lock = main.run THEN 0 ELSE disk.lock
        /\ disk'.journal = Append(disk.journal, row)
    BY <1>25 DEF HaltCommit, Goto
  <2> HIDE DEF HaltTypeOK, GateType, MainType, DiskType, LifeType
  <2>2. Halted /\ gate.recorded = 0 /\ gate.deferred = NoSignal /\ RowOfThisLife = {}
    BY <2>1 DEF SignalControl
  <2>3. life.other => row.event = "HALT_OBSERVED"
    BY <2>1, <2>2 DEF SignalControl, JournalEvent, NoSignal
  <2>4. {a \in life.late : gate.admissions[a].run # 0} \subseteq row.residual
    BY <2>1 DEF LateWrite, Last
  <2> HIDE DEF row
  <2>5. /\ DOMAIN disk'.journal = 1..(Len(disk.journal) + 1) /\ Len(disk'.journal) = Len(disk.journal) + 1
        /\ DOMAIN disk.journal = 1..Len(disk.journal)
        /\ \A j \in 1..Len(disk.journal) : disk'.journal[j] = disk.journal[j]
        /\ disk'.journal[Len(disk.journal) + 1] = row
    <3>1. row \in Row
      BY <1>0, MainFields DEF row, Row, JournalEvent, HaltTypeOK
    <3> QED
      BY <1>0, <2>1, <3>1
  <2>6. row.life = life.starts
    BY DEF row
  <2>7. \A j \in DOMAIN disk'.journal : j = Len(disk.journal) + 1 \/ j \in DOMAIN disk.journal
    BY <1>0, <2>5
  <2>8. \A j \in DOMAIN disk'.journal : disk'.journal[j].life <= life.starts
    BY <1>0, <2>5, <2>6, <2>7, SMTT(40)
  <2>9. \A j \in RowOfThisLife' : disk'.journal[j] = row
    BY <2>1, <2>2, <2>5, <2>7
  <2>10. disk'.lock <= Len(disk'.runs) /\ (disk'.lock # 0 => disk'.runs[disk'.lock] = "RUNNING")
    <3>1. Len(disk'.runs) = Len(disk.runs) /\ DOMAIN disk.runs = 1..Len(disk.runs)
      BY <1>0, <2>1
    <3> QED
      BY <1>0, <2>1, <3>1
  <2> QED
    BY <1>0, <2>1, <2>2, <2>3, <2>4, <2>5, <2>8, <2>9, <2>10
<1>26. CASE HaltRollback
  BY <1>26, <1>0 DEF HaltRollback, BookOver, Goto
<1>27. CASE Recorded
  <2>1. /\ main.pc = "recorded" /\ main'.pc \in {"rex_run", "exit"}
        /\ gate'.requested = gate.requested /\ gate'.admissions = gate.admissions
        /\ gate'.recorded = Len(disk.journal) /\ UNCHANGED <<disk, life>>
    BY <1>27 DEF Recorded, BookOver, Goto
  <2>2. Halted
    BY <2>1 DEF SignalControl
  <2> HIDE DEF HaltTypeOK, GateType, MainType, DiskType, LifeType
  <2> QED
    BY <2>1, <2>2
<1>28. CASE Close
  BY <1>28, <1>0, SMTT(40) DEF Close, Goto
<1>29. CASE \E s \in Signum : Handler(s)
  <2>1. PICK s \in Signum : Handler(s)
    BY <1>29
  <2>2. /\ main' = main /\ gate' = Request(gate, s) /\ gate \in GateType /\ disk' = disk
        /\ life'.late = life.late /\ life'.starts = life.starts
        /\ main.pc = "recorded" \/ gate.recorded # 0 => (life'.other <=> life.other)
        /\ main.pc # "down"
    BY <2>1 DEF Handler
  <2> HIDE DEF HaltTypeOK, GateType, MainType, DiskType, LifeType
  <2>3. gate'.admissions = gate.admissions /\ gate'.recorded = gate.recorded
    BY <2>2, RequestKeeps
  <2>4. Halted => Halted'
    <3>1. Halted => gate'.requested.ns = gate.requested.ns /\ gate.requested.ns # 0
      BY <2>2, RequestEffect DEF SignalControl
    <3> QED
      BY <3>1 DEF NotHalted
  <2> QED
    BY <2>2, <2>3, <2>4
<1>30. CASE ClockMoves
  BY <1>30, <1>0, SMTT(40) DEF ClockMoves
<1>31. CASE \E token \in 0..Len(disk.journal) : Start(token)
  <2>1. /\ main.pc = "down" /\ main'.pc = "site" /\ gate' = gate /\ disk' = disk
        /\ life'.starts = life.starts + 1
    BY <1>31 DEF Start, Rest, NewLife
  <2>2. gate.recorded = 0
    BY <2>1
  <2> HIDE DEF HaltTypeOK, GateType, MainType, DiskType, LifeType
  <2>3. \A j \in DOMAIN disk.journal : disk.journal[j].life \in Nat
    <3>1. \A j \in DOMAIN disk.journal : disk.journal[j] \in Row
      BY <1>0
    <3> QED
      BY <3>1 DEF Row
  <2>4. RowOfThisLife' = {}
    BY <1>0, <2>1, <2>3
  <2>5. \A j \in DOMAIN disk.journal : disk.journal[j].life <= life.starts + 1
    BY <1>0, <2>3
  <2> QED
    BY <2>1, <2>2, <2>4, <2>5
<1>32. CASE UNCHANGED haltVars
  BY <1>32, <1>0 DEF haltVars
<1> QED
  BY <1>1, <1>2, <1>3, <1>4, <1>5, <1>6, <1>7, <1>8, <1>9, <1>10, <1>11, <1>12, <1>13,
     <1>14, <1>15, <1>16, <1>17, <1>18, <1>19, <1>20, <1>21, <1>22, <1>23, <1>24, <1>25, <1>26,
     <1>27, <1>28, <1>29, <1>30, <1>31, <1>32
     DEF HaltNext, MainStep


\* The evidence of the writes and of the run.
LEMMA EvidenceRowsStep ==
    ASSUME HaltTypeOK, RunControl, SignalControl, Instants, LateWrite, EvidenceRows,
           [HaltNext]_haltVars
    PROVE  EvidenceRows'
<1>0. LastAdmission \in Nat /\ main.run \in Nat /\ life.committed \in SUBSET Nat
  BY GateFields, MainFields, LifeFields DEF HaltTypeOK
<1> USE DEF HaltTypeOK, GateType, MainType, LifeType, EvidenceRows, At, Admitted, LastAdmission,
            Reading, Halted, Book
<1>1. CASE NowRead
  BY <1>1, <1>0 DEF NowRead, Later
<1>2. CASE NowStore
  BY <1>2, <1>0 DEF NowStore
<1>3. CASE NowOrder
  BY <1>3, <1>0 DEF NowOrder, Later
<1>4. CASE EnterSite
  BY <1>4, <1>0 DEF EnterSite
<1>5. CASE SiteWrite
  BY <1>5, <1>0 DEF SiteWrite
<1>6. CASE LeaveSite
  BY <1>6, <1>0 DEF LeaveSite
<1>7. CASE ApplyDeferred
  <2>1. /\ main.pc = "deferred" /\ main'.pc \in {"site", "loop"} /\ main'.ret = main.ret
        /\ gate' = gate \/ (/\ gate.deferred \in Signum
                            /\ gate' = Request([gate EXCEPT !.deferred = NoSignal], gate.deferred))
        /\ life' = life
    BY <1>7 DEF ApplyDeferred
  <2>2. /\ [gate EXCEPT !.deferred = NoSignal] \in GateType
        /\ [gate EXCEPT !.deferred = NoSignal].admissions = gate.admissions
        /\ [gate EXCEPT !.deferred = NoSignal].evidence = gate.evidence
    OBVIOUS
  <2> HIDE DEF HaltTypeOK, GateType, MainType, LifeType
  <2>3. gate'.admissions = gate.admissions /\ gate'.evidence = gate.evidence
    BY <2>1, <2>2, RequestKeeps
  <2> QED
    BY <2>1, <2>3
<1>8. CASE ConstructorRefused \/ Exit \/ Crash
  BY <1>8, <1>0 DEF ConstructorRefused, Exit, Crash, Gone, NewGate, Rest, NewLife
<1>9. CASE BeginCycle
  BY <1>9, <1>0 DEF BeginCycle
<1>10. CASE Claim
  BY <1>10, <1>0 DEF Claim, Goto
<1>11. CASE Activate
  BY <1>11, <1>0 DEF Activate, Goto
<1>12. CASE Metadata
  BY <1>12, <1>0 DEF Metadata, Goto
<1>13. CASE BeginWrite
  <2>1. /\ gate' = gate /\ life' = life /\ main'.pc = "now_read" /\ main'.ret = "admit"
        /\ main.pc = "work" \/ (main.pc = "loop" /\ ~Halted)
    BY <1>13 DEF BeginWrite
  <2> QED
    BY <2>1
<1>14. CASE \E o \in {"COMPLETED", "FAILED"} : EndCycle(o)
  BY <1>14, <1>0, SMTT(40) DEF EndCycle
<1>15. CASE Finish
  BY <1>15, <1>0 DEF Finish, Goto
<1>16. CASE Admit
  <2>1. /\ life' = life /\ main'.run = main.run /\ main.pc = "admit"
        /\ gate'.evidence = gate.evidence /\ gate'.requested = gate.requested
        /\ Halted => gate' = gate /\ main'.pc \in {"book", "loop"} /\ (main.run # 0 => main'.pc = "book")
    BY <1>16 DEF Admit, Refuse, Goto
  <2>2. CASE Halted
    BY <2>1, <2>2
  <2>3. CASE ~Halted
    <3>1. /\ LastAdmission' = LastAdmission + 1 /\ main'.pc = "load"
          /\ \A a \in 1..LastAdmission : gate'.admissions[a] = gate.admissions[a]
      BY <1>16, <2>3, AdmissionsStep DEF Admit
    <3>2. life.committed \subseteq 1..LastAdmission
      BY DEF LateWrite
    <3> HIDE DEF HaltTypeOK, GateType, MainType, LifeType, LastAdmission
    <3>3. \A a \in Nat : <<"REX_WRITE", a>> \in gate'.evidence => a <= LastAdmission' /\ a # LastAdmission'
      BY <1>0, <2>1, <3>1
    <3>4. \A a \in life.committed : gate'.admissions[a] = gate.admissions[a]
      BY <3>1, <3>2
    <3> QED
      BY <2>1, <2>3, <3>1, <3>3, <3>4
  <2> QED
    BY <2>2, <2>3
<1>17. CASE \E save \in BOOLEAN : LoadPaper(save)
  BY <1>17, <1>0 DEF LoadPaper, WriteOver
<1>18. CASE PreSave
  <2>1. /\ life' = life /\ main'.run = main.run /\ main.pc = "read2"
        /\ gate'.evidence = gate.evidence /\ gate'.requested = gate.requested
        /\ Halted => gate' = gate /\ main'.pc \in {"book", "loop"}
    BY <1>18 DEF PreSave, Refuse, Goto
  <2>2. CASE Halted
    BY <2>1, <2>2
  <2>3. CASE ~Halted
    <3>1. /\ LastAdmission' = LastAdmission /\ main'.pc = "save" /\ Last'.run = Last.run
          /\ \A a \in 1..LastAdmission : a # LastAdmission => gate'.admissions[a] = gate.admissions[a]
      BY <1>18, <2>3, AdmissionsStep DEF PreSave
    <3>2. life.committed \subseteq 1..LastAdmission
      BY DEF LateWrite
    <3> HIDE DEF HaltTypeOK, GateType, MainType, LifeType, LastAdmission
    <3>3. \A a \in life.committed : gate'.admissions[a].run = gate.admissions[a].run
      BY <3>1, <3>2 DEF Last
    <3> QED
      BY <2>1, <2>3, <3>1, <3>3
  <2> QED
    BY <2>2, <2>3
<1>19. CASE \E committed \in BOOLEAN : SaveReturns(committed)
  <2>1. gate' = gate /\ main.pc = "save" /\ life'.rex = life.rex
        /\ \/ main.rex /\ main'.pc = "now_read" /\ main'.ret = "stopped"
           \/ ~main.rex /\ main'.pc \in {"work", "loop"}
    BY <1>19 DEF SaveReturns, WriteOver
  <2>2. life'.committed \subseteq life.committed \cup {LastAdmission}
    BY <1>19 DEF SaveReturns
  <2>3. Last.run = main.run /\ (main.rex <=> main.run # 0)
    BY <2>1 DEF RunControl
  <2>4. main'.run = main.run
    BY <1>19 DEF SaveReturns
  <2> HIDE DEF HaltTypeOK, GateType, MainType, LifeType
  <2> QED
    BY <2>1, <2>2, <2>3, <2>4 DEF Last
<1>20. CASE SaveStopped
  BY <1>20, <1>0 DEF SaveStopped, Goto
<1>21. CASE WriteEvidence
  <2>1. /\ gate'.admissions = gate.admissions /\ gate'.requested = gate.requested
        /\ life'.committed = life.committed /\ main'.run = main.run
        /\ main.pc = "evidence" /\ main'.pc \in {"work", "loop"}
    BY <1>21 DEF WriteEvidence, RexRow, WriteOver, Goto
  <2>2. /\ main.run # 0 /\ main.run = gate.active /\ LastAdmission # 0 /\ Last.run = main.run
    BY <2>1 DEF RunControl
  <2>3. Last.read2 # 0 /\ (Halted => Last.read2 < gate.requested.ns)
    BY <2>1 DEF Instants
  <2>4. AllowEvidence("REX_WRITE", main.run, LastAdmission)
    <3>1. <<"REX_WRITE", LastAdmission>> \notin gate.evidence
      BY <1>0, <2>1
    <3> QED
      BY <2>2, <2>3, <3>1 DEF AllowEvidence, Last
  <2>5. /\ life'.rex = life.rex \cup {<<"REX_WRITE", main.run, LastAdmission>>}
        /\ gate'.evidence \subseteq gate.evidence \cup {<<"REX_WRITE", LastAdmission>>}
    BY <1>21, <2>4 DEF WriteEvidence, RexRow
  <2> HIDE DEF HaltTypeOK, GateType, MainType, LifeType, LastAdmission
  <2>6. LastAdmission' = LastAdmission
    BY <2>1 DEF LastAdmission
  <2>7. \A a \in Nat : <<"REX_WRITE", a>> \in gate'.evidence => a <= LastAdmission
    BY <1>0, <2>5
  <2>8. <<"REX_RUN", 0>> \notin gate'.evidence
    BY <2>1, <2>2, <2>5
  <2>9. \A a \in life.committed : gate.admissions[a].run # 0 =>
            <<"REX_WRITE", gate.admissions[a].run, a>> \in life'.rex
    BY <2>1, <2>2, <2>5 DEF Last
  <2> QED
    BY <2>1, <2>6, <2>7, <2>8, <2>9
<1>22. CASE RunEvidence
  <2>1. /\ gate'.admissions = gate.admissions /\ gate'.requested = gate.requested
        /\ life'.committed = life.committed /\ main'.run = main.run
        /\ main.pc = "rex_run" /\ main'.pc = "inactive"
    BY <1>22 DEF RunEvidence, RexRow, Goto
  <2>2. main.run # 0 /\ main.run = gate.active
    BY <2>1 DEF RunControl, InRun
  <2>3. AllowEvidence("REX_RUN", main.run, 0)
    BY <2>1, <2>2 DEF AllowEvidence
  <2>4. /\ life'.rex = life.rex \cup {<<"REX_RUN", main.run, 0>>}
        /\ gate'.evidence = IF Halted THEN gate.evidence \cup {<<"REX_RUN", 0>>} ELSE gate.evidence
    BY <1>22, <2>3 DEF RunEvidence, RexRow
  <2> HIDE DEF HaltTypeOK, GateType, MainType, LifeType
  <2>5. \A a \in Nat : <<"REX_WRITE", a>> \in gate'.evidence => <<"REX_WRITE", a>> \in gate.evidence
    BY <2>4
  <2> QED
    BY <2>1, <2>4, <2>5
<1>23. CASE Deactivate
  BY <1>23, <1>0 DEF Deactivate
<1>24. CASE Payload
  BY <1>24, <1>0 DEF Payload, Residual
<1>25. CASE HaltCommit
  BY <1>25, <1>0 DEF HaltCommit, JournalEvent, Goto
<1>26. CASE HaltRollback
  BY <1>26, <1>0 DEF HaltRollback, BookOver, Goto
<1>27. CASE Recorded
  BY <1>27, <1>0 DEF Recorded, BookOver, Goto
<1>28. CASE Close
  BY <1>28, <1>0 DEF Close, Goto
<1>29. CASE \E s \in Signum : Handler(s)
  <2>1. PICK s \in Signum : Handler(s)
    BY <1>29
  <2>2. /\ main' = main /\ gate' = Request(gate, s) /\ gate \in GateType
        /\ life'.committed = life.committed /\ life'.rex = life.rex
    BY <2>1 DEF Handler
  <2> HIDE DEF HaltTypeOK, GateType, MainType, LifeType
  <2>3. gate'.admissions = gate.admissions /\ gate'.evidence = gate.evidence
    BY <2>2, RequestKeeps
  <2>4. Halted => Halted'
    <3>1. Halted => gate'.requested.ns = gate.requested.ns /\ gate.requested.ns # 0
      BY <2>2, RequestEffect DEF SignalControl
    <3> QED
      BY <3>1 DEF NotHalted
  <2> QED
    BY <2>2, <2>3, <2>4
<1>30. CASE ClockMoves
  BY <1>30, <1>0 DEF ClockMoves
<1>31. CASE \E token \in 0..Len(disk.journal) : Start(token)
  <2>1. /\ main'.pc = "site" /\ gate.evidence = {} /\ gate' = gate /\ life'.committed = {}
    BY <1>31 DEF Start, Rest, NewLife, SignalControl, NewGate
  <2> QED
    BY <2>1
<1>32. CASE UNCHANGED haltVars
  BY <1>32, <1>0 DEF haltVars
<1> QED
  BY <1>1, <1>2, <1>3, <1>4, <1>5, <1>6, <1>7, <1>8, <1>9, <1>10, <1>11, <1>12, <1>13,
     <1>14, <1>15, <1>16, <1>17, <1>18, <1>19, <1>20, <1>21, <1>22, <1>23, <1>24, <1>25, <1>26,
     <1>27, <1>28, <1>29, <1>30, <1>31, <1>32
     DEF HaltNext, MainStep


-----------------------------------------------------------------------------
LEMMA HaltInvInit ==
    ASSUME HaltInit
    PROVE  HaltInv
<1> USE DEF HaltInit
<1>1. HaltTypeOK
  <2>1. disk \in DiskType
    BY DEF DiskType
  <2>2. clock \in Nat \ {0}
    OBVIOUS
  <2>3. stop \in BOOLEAN
    OBVIOUS
  <2> QED
    BY <2>1, <2>2, <2>3, NewTypes DEF HaltTypeOK
<1>2. RunControl /\ SignalControl
  BY DEF RunControl, SignalControl, NewGate, Rest, NewLife, Halted, NotHalted, NoSignal, At,
         Admitted, Reading, Startup, InRun, Book
<1>3. Instants /\ LateWrite
  BY DEF Instants, LateWrite, NewGate, Rest, NewLife, At, Reading
<1>4. HaltRow
  BY DEF HaltRow, RowIsTrue, RowOfThisLife, NewGate, Rest, NewLife
<1>5. EvidenceRows
  BY DEF EvidenceRows, NewGate, Rest, NewLife
<1> QED
  BY <1>1, <1>2, <1>3, <1>4, <1>5 DEF HaltInv

\* The invariant of the halt gate: where the run stands, what the gate has seen, the
\* order of the clock readings, the late write, the row of this life and the evidence,
\* through every handler, crash and restart.
THEOREM HaltInvariant == HaltSpec => []HaltInv
<1>1. HaltInit => HaltInv
  BY HaltInvInit
<1>2. HaltInv /\ [HaltNext]_haltVars => HaltInv'
  <2> SUFFICES ASSUME HaltInv, [HaltNext]_haltVars
               PROVE  HaltInv'
    OBVIOUS
  <2> USE DEF HaltInv
  <2>1. HaltTypeOK' /\ RunControl'
    BY HaltTypeStep, RunControlStep
  <2>2. SignalControl'
    BY SignalControlStep DEF HaltRow
  <2>3. Instants' /\ LateWrite'
    BY InstantsStep, LateWriteStep
  <2>4. HaltRow' /\ EvidenceRows'
    BY HaltRowStep, EvidenceRowsStep
  <2> QED
    BY <2>1, <2>2, <2>3, <2>4
<1> QED
  BY <1>1, <1>2, PTL DEF HaltSpec

\* Type correctness of the gate, the main thread, the disk and the process.
THEOREM HaltTypeCorrect == HaltSpec => []HaltTypeOK
<1>1. HaltInv => HaltTypeOK
  BY DEF HaltInv
<1> QED
  BY <1>1, HaltInvariant, PTL

\* _guarded_paper_write, halt_bookkeeping and allow_evidence, for any number of runs,
\* writes and signals and for a clock of any resolution: after T_h at most one write
\* reaches the account, read before T_h; the row of a process tells its cause and every
\* late write of a run; a halted run keeps no lock; every commit of a run has its
\* REX_WRITE row once the attempt is over, and the run its REX_RUN row.
THEOREM HaltKeptHolds == HaltSpec => []HaltKept
<1>1. ASSUME HaltInv PROVE HaltKept
  <2> USE <1>1
  <2>1. AtMostOneResidual
    <3>1. life.late = {} \/ life.late = {LastAdmission}
      BY DEF HaltInv, LateWrite
    <3>2. Cardinality({}) = 0 /\ Cardinality({LastAdmission}) = 1
      BY FS_EmptySet, FS_Singleton
    <3>3. Cardinality(life.late) <= 1
      BY <3>1, <3>2
    <3>4. \A a \in life.late : gate.admissions[a].read2 \in 1..(gate.requested.ns - 1)
      BY DEF HaltInv, LateWrite, Last
    <3> QED
      BY <3>3, <3>4 DEF AtMostOneResidual
  <2>2. RowIsTrue
    BY DEF HaltInv, HaltRow
  <2>3. EvidenceKept
    BY DEF HaltInv, EvidenceRows, EvidenceKept, At, Reading
  <2> QED
    BY <2>1, <2>2, <2>3 DEF HaltKept
<1> QED
  BY <1>1, HaltInvariant, PTL

\* startup_write: no start-up section writes after T_h, wherever the signals fall.
THEOREM StartupBeforeHaltHolds == HaltSpec => StartupBeforeHalt
<1>1. HaltInv /\ [HaltNext]_haltVars => [main.pc = "site_write" /\ main'.pc = "leave" => ~Halted]_haltVars
  BY DEF HaltInv, SignalControl
<1> QED
  BY <1>1, HaltInvariant, PTL DEF HaltSpec, StartupBeforeHalt
=============================================================================
