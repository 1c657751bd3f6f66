--------------------------- MODULE MarketEvidence ---------------------------
(***************************************************************************)
(* Committed market evidence (data/market_evidence.py) in its own SQLite   *)
(* file (storage/evidence_store.py), and the review of provider revisions  *)
(* in the trading database (runtime/revision_review.py).                   *)
(*                                                                         *)
(* One stream; a bar is its start, a number, and its content. Writers are  *)
(* runtimes that ingest overlapping windows: bar by bar, a transaction     *)
(* each, or in one batch with a time budget. The gate reads the two        *)
(* databases one after the other.                                          *)
(***************************************************************************)
EXTENDS Naturals, Sequences, SequencesExt, FiniteSets

CONSTANTS
    Writer,
    MaxStart,       \* bound: starts of bars
    MaxIngests,     \* bound: presentations
    MaxWindow,      \* bound: bars of a presentation
    MaxReviews,     \* bound: decisions of the owner
    MaxForeign,     \* bound: rows that revision_review did not write
    Nobody

ASSUME EvidenceAssumption == Nobody \notin Writer /\ MaxStart \in Nat

\* Content of a bar: whether it reaches the stop of the position.
Content == {"calm", "cross"}
Closed == 1..MaxStart
MarketBar == [start : Closed, content : Content]

VARIABLES
    evidence,   \* market_evidence rows by stream_seq
    anomalies,  \* evidence_anomalies rows
    writing,    \* writer that holds the write lock across steps
    ingest,     \* writer -> its ingestion
    journal,    \* journal rows EVIDENCE_REVISION and EVIDENCE_REVISION_REVIEWED
    held,       \* an open position that catch-up manages and that began before every bar
    clearance,  \* the gate: anomalies it read, verdict
    told,       \* bars that a committed unit has dealt with (observed)
    spent       \* presentations and foreign rows so far

evidenceVars == <<evidence, anomalies, writing, ingest, journal, held, clearance, told, spent>>

NoIngest == [pc |-> "idle", bars |-> <<>>, mode |-> "bar", revisions |-> {},
             stage |-> Nobody, records |-> {}]

EvidenceInit ==
    /\ evidence = <<>> /\ anomalies = {} /\ writing = Nobody
    /\ ingest = [w \in Writer |-> NoIngest]
    /\ journal = <<>> /\ held = TRUE
    /\ clearance = [pc |-> "idle", read |-> {}, status |-> "NONE"]
    /\ told = {} /\ spent = [ingests |-> 0, foreign |-> 0]

-----------------------------------------------------------------------------
\* One unit: what _commit makes of the database and a bar.

Db == [evidence |-> evidence, anomalies |-> anomalies, told |-> told, kind |-> "NONE"]
Noted(db, a) == IF \E x \in db.anomalies : x.kind = a.kind /\ x.start = a.start /\ x.content = a.content
                THEN db.anomalies ELSE db.anomalies \cup {a}   \* INSERT OR IGNORE
Anomaly(kind, bar, after) == [kind |-> kind, start |-> bar.start, content |-> bar.content, after |-> after]

CommitBar_LateTaken(db, bar) ==   \* mutant: the watermark is not looked at
    LET known == {i \in DOMAIN db.evidence : db.evidence[i].start = bar.start}
        marked == [db EXCEPT !.told = @ \cup {bar}] IN
    IF known # {}
    THEN IF \E i \in known : db.evidence[i].content = bar.content
         THEN [marked EXCEPT !.kind = "DUPLICATE"]
         ELSE [marked EXCEPT !.kind = "REVISION", !.anomalies = Noted(db, Anomaly("REVISION", bar, 0))]
    ELSE [marked EXCEPT !.kind = "COMMITTED", !.evidence = Append(@, bar)]

\* Identity, watermark, gap record and insert, all of them or none.
CommitBar(db, bar) ==
    LET known == {i \in DOMAIN db.evidence : db.evidence[i].start = bar.start}
        watermark == IF db.evidence = <<>> THEN 0 ELSE Last(db.evidence).start
        marked == [db EXCEPT !.told = @ \cup {bar}] IN
    CASE known # {} /\ \E i \in known : db.evidence[i].content = bar.content ->
           [marked EXCEPT !.kind = "DUPLICATE"]
      [] known # {} /\ \A i \in known : db.evidence[i].content # bar.content ->
           [marked EXCEPT !.kind = "REVISION", !.anomalies = Noted(db, Anomaly("REVISION", bar, 0))]
      [] known = {} /\ db.evidence # <<>> /\ bar.start <= watermark ->
           [marked EXCEPT !.kind = "LATE", !.anomalies = Noted(db, Anomaly("LATE", bar, watermark))]
      [] OTHER ->
           [marked EXCEPT !.kind = "COMMITTED", !.evidence = Append(@, bar),
                          !.anomalies = IF db.evidence # <<>> /\ bar.start > watermark + 1
                                        THEN Noted(db, Anomaly("GAP", bar, watermark)) ELSE @]

\* A snapshot is presented: its bars, sorted, up to the first that is not closed. One that
\* breaks the contract commits nothing (EvidenceError).
Ordered == {bars \in UNION {[1..n -> MarketBar] : n \in 0..MaxWindow} :
              \A i, j \in DOMAIN bars : i < j => bars[i].start < bars[j].start}
SplitClosed(ordered, index) == SubSeq(ordered, 1, index)
Present(w) ==
    /\ ingest[w].pc = "idle" /\ spent.ingests < MaxIngests
    /\ \E ordered \in Ordered, mode \in {"bar", "batch"} : \E index \in 0..Len(ordered) :
           ingest' = [ingest EXCEPT ![w] = [NoIngest EXCEPT
                        !.pc = IF mode = "bar" THEN "unit" ELSE "begin", !.mode = mode,
                        !.bars = SplitClosed(ordered, index)]]
    /\ spent' = [spent EXCEPT !.ingests = @ + 1]
    /\ UNCHANGED <<evidence, anomalies, writing, journal, held, clearance, told>>

Revised(w, db) ==
    IF db.kind = "REVISION" THEN ingest[w].revisions \cup {Head(ingest[w].bars)} ELSE ingest[w].revisions

\* A bar in a transaction of its own; after the last one the revisions are looked at.
UnitAlone(w) ==
    /\ ingest[w].pc = "unit" /\ ingest[w].mode = "bar" /\ ingest[w].bars # <<>> /\ writing = Nobody
    /\ LET db == CommitBar(Db, Head(ingest[w].bars)) IN
       /\ evidence' = db.evidence /\ anomalies' = db.anomalies /\ told' = db.told
       /\ ingest' = [ingest EXCEPT ![w].bars = Tail(@), ![w].revisions = Revised(w, db)]
    /\ UNCHANGED <<writing, journal, held, clearance, spent>>
IngestDone(w) ==
    /\ ingest[w].pc = "unit" /\ ingest[w].mode = "bar" /\ ingest[w].bars = <<>>
    /\ ingest' = [ingest EXCEPT ![w] = IF @.revisions = {} THEN NoIngest ELSE [@ EXCEPT !.pc = "records"]]
    /\ UNCHANGED <<evidence, anomalies, writing, journal, held, clearance, told, spent>>

\* EvidenceStore.batch: one transaction around the units.
BatchBegin(w) ==
    /\ ingest[w].pc = "begin" /\ writing = Nobody
    /\ writing' = w
    /\ ingest' = [ingest EXCEPT ![w].pc = "unit", ![w].stage = Db]
    /\ UNCHANGED <<evidence, anomalies, journal, held, clearance, told, spent>>
BatchUnit(w) ==
    /\ ingest[w].pc = "unit" /\ ingest[w].mode = "batch" /\ ingest[w].bars # <<>>
    /\ ingest' = [ingest EXCEPT ![w].stage = CommitBar(@, Head(ingest[w].bars)), ![w].bars = Tail(@)]
    /\ UNCHANGED <<evidence, anomalies, writing, journal, held, clearance, told, spent>>
\* All units done, or the budget is over before the next: what was done is committed.
BatchCommit(w) ==
    /\ ingest[w].pc = "unit" /\ ingest[w].mode = "batch"
    /\ evidence' = ingest[w].stage.evidence
    /\ anomalies' = ingest[w].stage.anomalies
    /\ told' = told \cup ingest[w].stage.told
    /\ writing' = Nobody
    /\ ingest' = [ingest EXCEPT ![w] = NoIngest]
    /\ UNCHANGED <<journal, held, clearance, spent>>

\* Busy, interrupted, any other error, or the process dies: an open transaction is rolled back,
\* the units committed before it stay, and nothing is made of their revisions.
IngestFails(w) ==
    /\ ingest[w].pc # "idle"
    /\ ingest' = [ingest EXCEPT ![w] = NoIngest]
    /\ writing' = IF writing = w THEN Nobody ELSE writing
    /\ UNCHANGED <<evidence, anomalies, journal, held, clearance, told, spent>>

-----------------------------------------------------------------------------
\* Revisions. A row is about an anomaly, named by its start and content (anomaly_id).

Final == "ACCEPTED_FIRST_COMMITTED"
Decisions == {Final, "ESCALATED"}
Classifications(rows, id) == {i \in DOMAIN rows : rows[i].event = "REVISION" /\ rows[i].id = id}
Reviews(rows, id) == {i \in DOMAIN rows : rows[i].event = "REVIEWED" /\ rows[i].id = id}
LatestDecision(rows, id) ==
    LET of == Reviews(rows, id) IN IF of = {} THEN "NONE" ELSE rows[Max(of)].decision

\* classify: the presented bar reaches the stop of a position and the committed one does not.
Classify(w) ==
    /\ ingest[w].pc = "records"
    /\ ingest' = [ingest EXCEPT ![w].pc = "journal",
         ![w].records = {[id |-> b, material |->
              /\ held /\ b.content = "cross"
              /\ \E i \in DOMAIN evidence : evidence[i].start = b.start /\ evidence[i].content # "cross"]
            : b \in ingest[w].revisions}]
    /\ UNCHANGED <<evidence, anomalies, writing, journal, held, clearance, told, spent>>

Classification(r) == [event |-> "REVISION", id |-> r.id, material |-> r.material, decision |-> "NONE",
                      previous |-> "NONE", sound |-> TRUE]
\* journal: one row per anomaly, whoever presented it first.
JournalRevisions(w) ==
    /\ ingest[w].pc = "journal"
    /\ journal' = journal \o SetToSeq({Classification(r) : r \in
                     {x \in ingest[w].records : Classifications(journal, x.id) = {}}})
    /\ ingest' = [ingest EXCEPT ![w] = NoIngest]
    /\ UNCHANGED <<evidence, anomalies, writing, held, clearance, told, spent>>

\* record_review: a decision of the owner with the literal decision before it.
RecordReview(id, d) ==
    /\ Classifications(journal, id) # {}
    /\ Cardinality({i \in DOMAIN journal : journal[i].event = "REVIEWED" /\ journal[i].sound}) < MaxReviews
    /\ journal' = Append(journal, [event |-> "REVIEWED", id |-> id, material |-> FALSE, decision |-> d,
                                 previous |-> LatestDecision(journal, id), sound |-> TRUE])
    /\ UNCHANGED <<evidence, anomalies, writing, ingest, held, clearance, told, spent>>

\* Rows that are not of this module: another source, a malformed payload, a broken chain.
ForeignRow(id) ==
    /\ spent.foreign < MaxForeign
    /\ \E a \in anomalies : a.kind = "REVISION" /\ a.start = id.start /\ a.content = id.content
    /\ \E e \in {"REVISION", "REVIEWED"}, d \in Decisions, p \in Decisions \cup {"NONE"}, sound \in BOOLEAN :
         /\ ~sound \/ (e = "REVIEWED" /\ p # LatestDecision(journal, id))
         /\ journal' = Append(journal, [event |-> e, id |-> id, material |-> FALSE,
                         decision |-> IF e = "REVIEWED" THEN d ELSE "NONE", previous |-> p, sound |-> sound])
    /\ spent' = [spent EXCEPT !.foreign = @ + 1]
    /\ UNCHANGED <<evidence, anomalies, writing, ingest, held, clearance, told>>

\* The position is closed meanwhile.
Positions ==
    /\ held /\ held' = FALSE
    /\ UNCHANGED <<evidence, anomalies, writing, ingest, journal, clearance, told, spent>>

-----------------------------------------------------------------------------
\* demo_gate: first the evidence database, then the trading database.

GateReadsEvidence ==
    /\ clearance.pc = "idle"
    /\ clearance' = [pc |-> "half", status |-> "NONE",
                     read |-> {[start |-> a.start, content |-> a.content] : a \in {x \in anomalies : x.kind = "REVISION"}}]
    /\ UNCHANGED <<evidence, anomalies, writing, ingest, journal, held, told, spent>>

SoundClass(rows, id) == {i \in Classifications(rows, id) : rows[i].sound}
\* _review_states: a row is valid if it is this module's, of a recorded anomaly, and chained.
ValidReview(rows, i) ==
    /\ rows[i].sound /\ SoundClass(rows, rows[i].id) # {}
    /\ rows[i].previous = LatestDecision(SubSeq(rows, 1, i - 1), rows[i].id)
Effective_Fallback(rows, id) ==   \* mutant: an invalid latest row falls back to a valid one
    LET of == {i \in Reviews(rows, id) : ValidReview(rows, i)} IN
    IF of = {} THEN "NONE" ELSE rows[Max(of)].decision
Effective(rows, id) ==
    LET of == Reviews(rows, id) IN
    IF of = {} THEN "NONE" ELSE IF ValidReview(rows, Max(of)) THEN rows[Max(of)].decision ELSE "INVALID_DECISION"

Blocked(read, rows) ==
    LET ids == {rows[i].id : i \in DOMAIN rows}
        classified == {id \in ids : SoundClass(rows, id) # {}} IN
    \/ read \ classified # {}                                              \* UNCLASSIFIED
    \/ classified \ read # {}                                              \* CLASSIFICATION_WITHOUT_ANOMALY
    \/ \E id \in classified : /\ rows[Min(SoundClass(rows, id))].material
                              /\ Effective(rows, id) = "NONE"              \* MATERIAL_UNREVIEWED
    \/ \E id \in classified : Effective(rows, id) \in {"ESCALATED", "INVALID_DECISION"}
    \/ \E i \in DOMAIN rows : rows[i].event = "REVIEWED" /\ rows[i].id \notin classified   \* REVIEW_WITHOUT_RECORD
    \/ \E id \in ids : Cardinality(Classifications(rows, id)) > 1          \* CLASSIFICATION_CONFLICT
    \/ \E i \in DOMAIN rows : rows[i].event = "REVISION" /\ ~rows[i].sound \* CLASSIFICATION_MALFORMED

GateReadsTrading ==
    /\ clearance.pc = "half"
    /\ clearance' = [clearance EXCEPT !.pc = "idle", !.read = {},
                                           !.status = IF Blocked(clearance.read, journal) THEN "BLOCKED" ELSE "CLEAR"]
    /\ UNCHANGED <<evidence, anomalies, writing, ingest, journal, held, told, spent>>

EvidenceNext ==
    \/ \E w \in Writer : \/ Present(w) \/ UnitAlone(w) \/ IngestDone(w) \/ BatchBegin(w) \/ BatchUnit(w)
                         \/ BatchCommit(w) \/ IngestFails(w) \/ Classify(w) \/ JournalRevisions(w)
    \/ \E id \in [start : Closed, content : Content] : ForeignRow(id) \/ \E d \in Decisions : RecordReview(id, d)
    \/ Positions \/ GateReadsEvidence \/ GateReadsTrading
EvidenceSpec == EvidenceInit /\ [][EvidenceNext]_evidenceVars

-----------------------------------------------------------------------------
\* Evidence is chronological and nothing that was dealt with is silent, whatever windows
\* overlapped, failed or were cut short: stream_seq is the order of the bars, a hole before a
\* bar has the GAP row of exactly that hole and no other has one, and a bar that was dealt
\* with is committed as it was shown or recorded as LATE or REVISION.
EvidenceComplete ==
    /\ \A i, j \in DOMAIN evidence : i < j => evidence[i].start < evidence[j].start
    /\ \A i \in DOMAIN evidence :
         LET gaps == {a \in anomalies : a.kind = "GAP" /\ a.start = evidence[i].start} IN
         IF i > 1 /\ evidence[i].start > evidence[i - 1].start + 1
         THEN {a.after : a \in gaps} = {evidence[i - 1].start} ELSE gaps = {}
    /\ \A b \in told : \/ b \in Range(evidence)
                       \/ \E a \in anomalies : a.kind \in {"LATE", "REVISION"} /\ a.start = b.start /\ a.content = b.content

\* A CLEAR gate means what the owner reads into it, though its two reads are apart: every
\* revision it read has one classification, the row the runtime wrote, and if that one is
\* material, or anyone reviewed it, the last word is a genuine final decision.
ClearStep ==
    clearance'.status = "CLEAR" /\ clearance.status # "CLEAR" =>
        \A id \in clearance.read :
            \E i \in DOMAIN journal :
                /\ Classifications(journal, id) = {i} /\ journal[i].sound
                /\ journal[i].material \/ Reviews(journal, id) # {} =>
                     \E j \in Reviews(journal, id) :
                         /\ journal[j].sound /\ journal[j].decision = Final
                         /\ \A k \in Reviews(journal, id) : k <= j
=============================================================================
