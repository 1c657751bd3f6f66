---------------------------- MODULE RunEvidence -----------------------------
(***************************************************************************)
(* Evidence of the economic writes of a run (runtime/rex.py), the sealed   *)
(* start that compares the account with it (runtime/genesis.py) and the    *)
(* verifiers that certify a period (replay/rex_chain.py,                   *)
(* replay/genesis_verifier.py).                                            *)
(*                                                                         *)
(* The account is known by its digest. A row of the journal is known by    *)
(* its place. The evidence of a write follows its commit in a transaction  *)
(* of its own, so a crash or a failed insert can come between them; other  *)
(* writers and writes without a run can come in anywhere.                  *)
(***************************************************************************)
EXTENDS Naturals, Sequences, SequencesExt, FiniteSets

CONSTANTS
    Genesis,        \* digest of the anchored account
    Digests,        \* digests of the account
    RunIds,
    None,
    MaxLives,       \* bound: starts of the process
    MaxSaves,       \* bound: attempts to save
    MaxTrouble      \* bound: crashes, failures of the recorder, writes of others

VARIABLES
    digest,     \* the paper account
    rexLog,     \* journal
    process,    \* "down", "recovered", "ready"; starts so far
    rec,        \* the run in flight: RexRecorder and the write under way
    trouble,    \* what was not the recorder's normal course
    commits     \* commits to the account: observed

rexVars == <<digest, rexLog, process, rec, trouble, commits>>

NoRun == [pc |-> "idle", run |-> None, rex |-> TRUE, expected |-> None, pre |-> None, preFailed |-> FALSE,
          result |-> None, changes |-> 0, writes |-> <<>>, failures |-> 0]

RexInit ==
    /\ digest = Genesis
    /\ rexLog = <<[kind |-> "PREPARED", run |-> None]>>     \* genesis_prepare, one transaction
    /\ process = [pc |-> "down", lives |-> 0, saves |-> 0]
    /\ rec = NoRun
    /\ trouble = [total |-> 0, foreign |-> 0]
    /\ commits = <<>>

Row(kind, run) == [kind |-> kind, run |-> run]
Ids(kind) == {i \in DOMAIN rexLog : rexLog[i].kind = kind}
Trouble(n) == trouble' = [trouble EXCEPT !.total = @ + 1, !.foreign = @ + n]
MayGoWrong == trouble.total < MaxTrouble
Idle == process.pc = "ready" /\ rec.pc = "idle"

-----------------------------------------------------------------------------
\* Process start in SEALED_RUNTIME.

Recover ==
    /\ process.pc = "down" /\ process.lives < MaxLives
    /\ process' = [process EXCEPT !.pc = "recovered", !.lives = @ + 1]
    /\ rexLog' = Append(rexLog, Row("RECOVERY", None))
    /\ UNCHANGED <<digest, rec, trouble, commits>>

\* chain_head: edg_after of the newest committed REX_WRITE; None if that one is unreadable.
ChainHead(log) ==
    LET committed == {i \in DOMAIN log : log[i].kind = "WRITE" /\ log[i].result = "COMMITTED"} IN
    IF committed = {} THEN Genesis ELSE LET w == log[Max(committed)] IN IF w.post = None THEN None ELSE w.post.digest

SealCheck_Genesis ==   \* mutant: after a restart the account is still compared with the genesis
    /\ process.pc = "recovered"
    /\ LET pass == digest = Genesis \/ Ids("E0") # {} IN
       /\ rexLog' = Append(rexLog, [kind |-> "SEAL", run |-> None, pass |-> pass])
       /\ process' = [process EXCEPT !.pc = IF pass THEN "ready" ELSE "down"]
    /\ UNCHANGED <<digest, rec, trouble, commits>>

\* seal_check: the verdict is a row, and a failure ends the process.
SealCheck ==
    /\ process.pc = "recovered"
    /\ LET expected == IF Ids("E0") # {} THEN ChainHead(rexLog) ELSE Genesis
           pass == expected # None /\ digest = expected IN
       /\ rexLog' = Append(rexLog, [kind |-> "SEAL", run |-> None, pass |-> pass])
       /\ process' = [process EXCEPT !.pc = IF pass THEN "ready" ELSE "down"]
    /\ UNCHANGED <<digest, rec, trouble, commits>>

StartExperiment ==
    /\ Idle /\ Ids("E0") = {}
    /\ rexLog' = Append(rexLog, Row("E0", None))
    /\ UNCHANGED <<digest, process, rec, trouble, commits>>

-----------------------------------------------------------------------------
\* A claimed run and its guarded writes through RexStore.

\* _new_rex may fail: the run then saves through the plain store.
ClaimRun(r) ==
    /\ Idle /\ Ids("E0") # {} /\ \A i \in Ids("STARTED") : rexLog[i].run # r
    /\ rexLog' = Append(rexLog, Row("STARTED", r))
    /\ \/ rec' = [NoRun EXCEPT !.pc = "run", !.run = r] /\ trouble' = trouble
       \/ MayGoWrong /\ rec' = [NoRun EXCEPT !.pc = "run", !.run = r, !.rex = FALSE] /\ Trouble(0)
    /\ UNCHANGED <<digest, process, commits>>

LoadAccount ==
    /\ process.pc = "ready" /\ rec.pc = "run" /\ process.saves < MaxSaves
    /\ process' = [process EXCEPT !.saves = @ + 1]
    /\ rec' = [rec EXCEPT !.pc = IF rec.rex THEN "before" ELSE "save", !.expected = digest]
    /\ UNCHANGED <<digest, rexLog, trouble, commits>>

Snapshot == [digest |-> digest, max |-> Len(rexLog), foreign |-> trouble.foreign]
\* before_write: the snapshot, or what made it fail.
BeforeWrite ==
    /\ process.pc = "ready" /\ rec.pc = "before"
    /\ \/ rec' = [rec EXCEPT !.pc = "save", !.pre = Snapshot, !.preFailed = FALSE] /\ trouble' = trouble
       \/ MayGoWrong /\ rec' = [rec EXCEPT !.pc = "save", !.pre = None, !.preFailed = TRUE] /\ Trouble(0)
    /\ UNCHANGED <<digest, rexLog, process, commits>>

Commit(by, d, evented) == commits' = Append(commits, [by |-> by, digest |-> d, row |-> IF evented THEN Len(rexLog) + 1 ELSE 0,
                                                      recorded |-> FALSE])
Econ(evented, r) == rexLog' = IF evented THEN Append(rexLog, Row("ECON", r)) ELSE rexLog
\* save_paper: stale, refused, or the account with the events of the write (a bar that only
\* moves the watermark has none).
SavePaper ==
    /\ process.pc = "ready" /\ rec.pc = "save"
    /\ \/ /\ digest # rec.expected
          /\ rec' = [rec EXCEPT !.pc = IF rec.rex THEN "after" ELSE "run", !.result = "STALE"]
          /\ UNCHANGED <<digest, rexLog, commits, trouble>>
       \/ /\ MayGoWrong /\ Trouble(0)
          /\ rec' = [rec EXCEPT !.pc = IF rec.rex THEN "after" ELSE "run", !.result = "RAISED"]
          /\ UNCHANGED <<digest, rexLog, commits>>
       \/ /\ digest = rec.expected
          /\ \E d \in Digests \ {digest}, evented \in BOOLEAN :
               /\ digest' = d /\ Econ(evented, rec.run) /\ Commit("rex", d, evented)
          /\ rec' = [rec EXCEPT !.pc = IF rec.rex THEN "after" ELSE "run", !.result = "COMMITTED"]
          /\ trouble' = trouble
    /\ UNCHANGED process

\* The entry of after_write: complete only if both snapshots are there, nobody else committed
\* between them and the account is the one that was expected and saved.
OwnSave == Max({i \in DOMAIN commits : commits[i].by = "rex"})
Entry(post) ==
    LET pre == rec.pre IN
    [kind |-> "WRITE", run |-> rec.run, result |-> rec.result, pre |-> pre, post |-> post,
     events |-> IF pre = None \/ post = None THEN {} ELSE pre.max + 1..post.max,
     complete |-> /\ pre # None /\ post # None /\ ~rec.preFailed
                  /\ pre.foreign = post.foreign
                  /\ IF rec.result = "COMMITTED" THEN rec.expected = pre.digest /\ commits[OwnSave].digest = post.digest
                     ELSE post.digest = pre.digest]
Recorded == commits' = IF rec.result = "COMMITTED"
                       THEN [commits EXCEPT ![OwnSave].recorded = TRUE]
                       ELSE commits
AfterWrite ==
    /\ process.pc = "ready" /\ rec.pc = "after"
    /\ \/ /\ rexLog' = Append(rexLog, Entry(Snapshot)) /\ trouble' = trouble /\ Recorded
          /\ rec' = [rec EXCEPT !.pc = "run", !.writes = Append(@, Len(rexLog) + 1)]
       \/ /\ MayGoWrong /\ Trouble(0) /\ Recorded                \* the post snapshot fails
          /\ rexLog' = rexLog \o <<Row("FAILURE", rec.run), Entry(None)>>
          /\ rec' = [rec EXCEPT !.pc = "run", !.writes = Append(@, Len(rexLog) + 2), !.failures = @ + 1]
       \/ /\ MayGoWrong /\ Trouble(0)                            \* the row cannot be written
          /\ rec' = [rec EXCEPT !.pc = "run", !.failures = @ + 1]
          /\ UNCHANGED <<rexLog, commits>>
    /\ UNCHANGED <<digest, process>>

\* finish: the REX_RUN row lists the writes of the run.
FinishRun ==
    /\ process.pc = "ready" /\ rec.pc = "run"
    /\ \/ /\ rec.rex /\ trouble' = trouble
          /\ rexLog' = Append(rexLog, [kind |-> "RUN", run |-> rec.run, writes |-> rec.writes])
       \/ rec.rex /\ MayGoWrong /\ Trouble(0) /\ rexLog' = Append(rexLog, Row("FAILURE", rec.run))
       \/ ~rec.rex /\ UNCHANGED <<trouble, rexLog>>
    /\ rec' = NoRun
    /\ UNCHANGED <<digest, process, commits>>

-----------------------------------------------------------------------------
\* What is not the normal course.

\* A pass without a run saves through the plain store.
KeylessWrite ==
    /\ Idle /\ MayGoWrong /\ Trouble(0)
    /\ \E d \in Digests \ {digest} : digest' = d /\ Econ(TRUE, None) /\ Commit("keyless", d, TRUE)
    /\ UNCHANGED <<process, rec>>
\* Another connection: with its events, without any, or a row that is not economic.
OutsideWrite ==
    /\ MayGoWrong /\ Trouble(1)
    /\ \/ \E d \in Digests, evented \in BOOLEAN : digest' = d /\ Econ(evented, None) /\ Commit("outside", d, evented)
       \/ rexLog' = Append(rexLog, Row("OTHER", None)) /\ UNCHANGED <<digest, commits>>
    /\ UNCHANGED <<process, rec>>
Crash ==
    /\ process.pc # "down" /\ MayGoWrong /\ Trouble(0)
    /\ process' = [process EXCEPT !.pc = "down"] /\ rec' = NoRun
    /\ UNCHANGED <<digest, rexLog, commits>>
Shutdown ==
    /\ Idle /\ process' = [process EXCEPT !.pc = "down"]
    /\ UNCHANGED <<digest, rexLog, rec, trouble, commits>>

RexNext ==
    \/ Recover \/ SealCheck \/ StartExperiment \/ LoadAccount \/ BeforeWrite \/ SavePaper \/ AfterWrite
    \/ FinishRun \/ KeylessWrite \/ OutsideWrite \/ Crash \/ Shutdown
    \/ \E r \in RunIds : ClaimRun(r)
RexSpec == RexInit /\ [][RexNext]_rexVars

-----------------------------------------------------------------------------
\* rex_chain.analyze on a copy of the database.

EconIds(log) == {i \in DOMAIN log : log[i].kind = "ECON"}
WriteIds(log) == {i \in DOMAIN log : log[i].kind = "WRITE"}
Unreadable(w) == w.pre = None \/ w.post = None

\* _check_write: sound or not, after the digest the chain has reached (None: unknown).
CheckWrite(log, id, head) ==
    LET w == log[id] IN
    /\ w.complete /\ ~Unreadable(w)
    /\ head # None => w.pre.digest = head
    /\ IF w.result = "COMMITTED"
       THEN /\ w.events = {j \in EconIds(log) : w.pre.max < j /\ j < id}
            /\ \A j \in w.events : log[j].run = w.run
            /\ w.post.max < id /\ \A o \in WriteIds(log) : ~(w.post.max < o /\ o < id)
       ELSE w.events = {} /\ w.pre.digest = w.post.digest
NextHead(w, head) ==
    CASE Unreadable(w) -> None
      [] ~Unreadable(w) /\ w.result = "COMMITTED" -> w.post.digest
      [] OTHER -> IF head = None THEN w.pre.digest ELSE head
Chain(log) ==
    FoldLeft(LAMBDA acc, id : [sound |-> acc.sound /\ CheckWrite(log, id, acc.head), head |-> NextHead(log[id], acc.head)],
             [sound |-> TRUE, head |-> Genesis], SetToSortSeq(WriteIds(log), LAMBDA a, b : a < b))

Referenced(log, j) == {i \in WriteIds(log) : log[i].result = "COMMITTED" /\ j \in log[i].events}
NoOrphan_Any(log) == TRUE   \* mutant: an economic event needs no write
\* Every economic event belongs to exactly one committed write.
NoOrphan(log) == \A j \in EconIds(log) : Cardinality(Referenced(log, j)) = 1

\* _check_run_record: the writes of a run are those its record lists, before it.
RunCovered(log, r) ==
    LET records == {i \in DOMAIN log : log[i].kind = "RUN" /\ log[i].run = r}
        own == {i \in WriteIds(log) : log[i].run = r} IN
    IF records = {} THEN own = {}
    ELSE /\ Cardinality(records) = 1
         /\ \A i \in records : Range(log[i].writes) = own /\ \A w \in own : w < i

\* genesis_verifier.check: one genesis, nothing economic before E0, no failed seal.
GenesisSound(log) ==
    /\ Cardinality({i \in DOMAIN log : log[i].kind = "PREPARED"}) = 1 /\ log[1].kind = "PREPARED"
    /\ \A i \in DOMAIN log : log[i].kind = "SEAL" => log[i].pass
    /\ \A j \in EconIds(log) : \E e \in DOMAIN log : e < j /\ log[e].kind = "E0"

Certified(log, current) ==
    /\ Chain(log).sound /\ (Chain(log).head # None => Chain(log).head = current)
    /\ NoOrphan(log) /\ GenesisSound(log)
    /\ \A r \in RunIds : RunCovered(log, r)

-----------------------------------------------------------------------------
LastRecorded == LET ok == {i \in DOMAIN commits : commits[i].recorded} IN
                IF ok = {} THEN Genesis ELSE commits[Max(ok)].digest

\* A period that passes the checks hides nothing that left a trace: every commit with an event
\* is one the recorder made and recorded, and the account is as the last recorded write left
\* it, so a crash between a save and its row, a failed row, a write without a run or of
\* someone else shows ("a write without evidence ... CERTIFICATION_INVALID", rex.py).
CertifiedIsEvidenced ==
    Certified(rexLog, digest) =>
        /\ \A i \in DOMAIN commits : commits[i].row # 0 => commits[i].by = "rex" /\ commits[i].recorded
        /\ digest = LastRecorded

\* The recorder and the verifier agree: without trouble every moment between runs is certified,
\* restarts, stale attempts and refused starts included.
CleanIsCertified == trouble.total = 0 /\ rec.pc = "idle" => Certified(rexLog, digest)

\* No start goes on from an account that the evidence does not lead to: a sealed process is
\* only ready on the account of the last recorded save, whatever happened while it was down,
\* unless the row of a write already says that it is not complete (another writer came between
\* the save and the snapshot after it, and chain_head takes that snapshot).
SealedStep ==
    process.pc = "recovered" /\ process'.pc = "ready" =>
        digest = LastRecorded \/ ~Chain(rexLog).sound
=============================================================================
