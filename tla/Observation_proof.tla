-------------------------- MODULE Observation_proof --------------------------
(***************************************************************************)
(* The modules of MCObservation that keep records, for any constants:      *)
(*   PaperLedger    one exposure per symbol, every result booked once;     *)
(*   MarketEvidence every bar that was dealt with is in the evidence or an *)
(*                  anomaly, and a CLEAR gate is clear for a reason;       *)
(*   AiReview       eligible means reviewed within the budget, and an      *)
(*                  outage is told once;                                   *)
(*   DemoReadCache  one paced read at a time, stale told from current;     *)
(*   MacroFeed      a HIGH event that was shown blocks through its window. *)
(* Each part gives its inductive invariant, one lemma per action that      *)
(* disturbs it, and the theorems that follow from it.                      *)
(***************************************************************************)
EXTENDS PaperLedger, MarketEvidence, AiReview, DemoReadCache, MacroFeed, FiniteSetTheorems, WellFoundedInduction, TLAPS

-----------------------------------------------------------------------------
\* PaperLedger.
LedgerInv == LedgerTypeOK /\ OneExposure /\ BookedOnce

LEMMA LedgerInitInv == LedgerInit => LedgerInv
<1> SUFFICES ASSUME LedgerInit PROVE LedgerInv
  OBVIOUS
<1>0. 0 \in Slot
  BY MaxSlotAssumption DEF Slot
<1>1. PICK first \in [Symbol -> {"NONE", "PENDING"}] :
        order = [s \in Symbol |-> [t \in Slot |->
                   IF t > 0 THEN "NONE" ELSE IF position[s] = Flat THEN first[s] ELSE "FILLED"]]
  BY DEF LedgerInit
<1>2. LedgerTypeOK
  BY <1>0, <1>1 DEF LedgerInit, LedgerTypeOK, OrderStatus, Position
<1>3. OneExposure
  <2> SUFFICES ASSUME NEW s \in Symbol
               PROVE (\A t, u \in Pending(s) : t = u) /\ (position[s] # Flat => Pending(s) = {})
    BY DEF OneExposure
  <2>1. \A t \in Slot : order[s][t] = IF t > 0 THEN "NONE"
                                      ELSE IF position[s] = Flat THEN first[s] ELSE "FILLED"
    BY <1>1
  <2>2. \A t \in Pending(s) : t = 0 /\ position[s] = Flat
    BY <2>1, MaxSlotAssumption DEF Pending, Slot
  <2> QED
    BY <2>2
<1>4. BookedOnce
  BY <1>0, <1>1 DEF LedgerInit, BookedOnce, Position
<1> QED
  BY <1>2, <1>3, <1>4 DEF LedgerInv

LEMMA LedgerNextInv == LedgerInv /\ [LedgerNext]_ledgerVars => LedgerInv'
<1> SUFFICES ASSUME LedgerInv, [LedgerNext]_ledgerVars PROVE LedgerInv'
  OBVIOUS
<1> USE DEF LedgerInv, LedgerTypeOK, Pending
<1>1. ASSUME NEW s \in Symbol, NEW t \in Slot, Submit(s, t) PROVE LedgerInv'
  <2>1. LedgerTypeOK'
    BY <1>1 DEF Submit, OrderStatus
  <2>2. OneExposure'
    BY <1>1 DEF Submit, OneExposure
  <2>3. BookedOnce'
    BY <1>1 DEF Submit, BookedOnce
  <2> QED
    BY <2>1, <2>2, <2>3
<1>2. ASSUME NEW s \in Symbol, NEW due \in SUBSET Slot, Settle(s, due) PROVE LedgerInv'
  <2>1. PICK r \in {"CANCELLED", "REJECTED"} :
          order' = [order EXCEPT ![s] = [t \in Slot |-> IF t \in due THEN r ELSE order[s][t]]]
    BY <1>2 DEF Settle
  <2>2. \A u \in Symbol, t \in Slot :
          order'[u][t] = IF u = s /\ t \in due THEN r ELSE order[u][t]
    BY <2>1
  <2>3. LedgerTypeOK'
    BY <1>2, <2>1 DEF Settle, OrderStatus
  <2>4. OneExposure'
    BY <1>2, <2>2 DEF Settle, OneExposure
  <2>5. BookedOnce'
    BY <1>2, <2>2 DEF Settle, BookedOnce
  <2> QED
    BY <2>3, <2>4, <2>5
<1>3. ASSUME NEW s \in Symbol, NEW t \in Slot, NEW b \in Slot, Fill(s, t, b) PROVE LedgerInv'
  <2>1. [run |-> t, opened |-> b, mark |-> b] \in Position
    BY DEF Position
  <2>2. LedgerTypeOK'
    BY <1>3, <2>1 DEF Fill, OrderStatus
  <2>3. OneExposure'
    BY <1>3 DEF Fill, OneExposure
  <2>4. BookedOnce'
    BY <1>3, <2>1, FlatAssumption DEF Fill, BookedOnce
  <2> QED
    BY <2>2, <2>3, <2>4
<1>4. ASSUME NEW s \in Symbol, NEW b \in Slot, Bar(s, b) PROVE LedgerInv'
  <2>1. position[s] \in Position
    BY <1>4 DEF Bar
  <2>2. [position[s] EXCEPT !.mark = b] \in Position /\ position'[s] = [position[s] EXCEPT !.mark = b]
    BY <1>4, <2>1 DEF Bar, Position
  <2>3. position'[s] # Flat /\ position'[s].run = position[s].run
    BY <2>1, <2>2, FlatAssumption DEF Position
  <2>4. LedgerTypeOK'
    BY <1>4, <2>2 DEF Bar
  <2>5. OneExposure'
    BY <1>4, <2>3 DEF Bar, OneExposure
  <2>6. BookedOnce'
    BY <1>4, <2>3 DEF Bar, BookedOnce
  <2> QED
    BY <2>4, <2>5, <2>6
<1>5. ASSUME NEW s \in Symbol, Close(s) PROVE LedgerInv'
  <2>1. position[s] \in Position /\ position[s].run \in Slot
    BY <1>5 DEF Close, Position
  <2>2. LedgerTypeOK'
    BY <1>5, <2>1 DEF Close
  <2>3. OneExposure'
    BY <1>5 DEF Close, OneExposure
  <2>4. trades[s][position[s].run] = 0
    <3>1. trades[s][position[s].run] \in Nat
      BY <2>1
    <3>2. \A t \in Slot : trades[s][t] <= 1 /\ (trades[s][t] = 1 => position[s] = Flat \/ position[s].run # t)
      BY DEF BookedOnce
    <3>3. trades[s][position[s].run] <= 1 /\ trades[s][position[s].run] # 1
      BY <1>5, <2>1, <3>2 DEF Close
    <3>4. \A n \in Nat : n <= 1 /\ n # 1 => n = 0
      OBVIOUS
    <3> HIDE DEF LedgerInv, LedgerTypeOK, Pending
    <3> QED
      BY ONLY <3>1, <3>3, <3>4
  <2>5. BookedOnce'
    BY <1>5, <2>1, <2>4 DEF Close, BookedOnce
  <2> QED
    BY <2>2, <2>3, <2>5
<1>6. CASE UNCHANGED ledgerVars
  BY <1>6 DEF ledgerVars, OneExposure, BookedOnce
<1> QED
  BY <1>1, <1>2, <1>3, <1>4, <1>5, <1>6 DEF LedgerNext

\* The account keeps its types, never holds two exposures of a symbol and books the
\* result of a run once.
THEOREM LedgerInvariant == LedgerSpec => []LedgerInv
<1>1. LedgerInit => LedgerInv
  BY LedgerInitInv
<1>2. LedgerInv /\ [LedgerNext]_ledgerVars => LedgerInv'
  BY LedgerNextInv
<1> QED
  BY <1>1, <1>2, PTL DEF LedgerSpec

\* One pending order or open position per symbol, for every behaviour of the ledger.
THEOREM OneExposureHolds == LedgerSpec => []OneExposure
<1>1. LedgerInv => OneExposure
  BY DEF LedgerInv
<1> QED
  BY <1>1, LedgerInvariant, PTL

\* No trade is booked twice, for every behaviour of the ledger.
THEOREM BookedOnceHolds == LedgerSpec => []BookedOnce
<1>1. LedgerInv => BookedOnce
  BY DEF LedgerInv
<1> QED
  BY <1>1, LedgerInvariant, PTL

\* The account holds one exposure per symbol and books each result once, for any symbols and
\* any horizon (paper_broker.py submit_plan, trade_manager.py _close).
THEOREM LedgerSoundHolds == LedgerSpec => []LedgerSound
<1>1. LedgerInv => LedgerSound
  BY DEF LedgerInv, LedgerSound
<1> QED
  BY <1>1, LedgerInvariant, PTL

-----------------------------------------------------------------------------
\* MarketEvidence: what the database holds, committed or staged in a batch.
AnomalyRows == [kind : {"REVISION", "LATE", "GAP"}, start : Closed, content : Content, after : Nat]
Dbs == [evidence : Seq(MarketBar), anomalies : SUBSET AnomalyRows, told : SUBSET MarketBar,
        kind : {"NONE", "DUPLICATE", "REVISION", "LATE", "COMMITTED"}]
Chronological(db) ==
    \A i, j \in 1..Len(db.evidence) : i < j => db.evidence[i].start < db.evidence[j].start
GapsAt(db, start) == {a \in db.anomalies : a.kind = "GAP" /\ a.start = start}
Follows(db, i) == i > 1 /\ db.evidence[i].start > db.evidence[i - 1].start + 1
GapsNoted(db) ==
    \A i \in 1..Len(db.evidence) :
       IF Follows(db, i)
       THEN {a.after : a \in GapsAt(db, db.evidence[i].start)} = {db.evidence[i - 1].start}
       ELSE GapsAt(db, db.evidence[i].start) = {}
\* A hole is only noted before a bar that is there.
GapsOfBars(db) ==
    \A a \in db.anomalies : a.kind = "GAP" => \E i \in 1..Len(db.evidence) : db.evidence[i].start = a.start
AsShown(db, b) == \E i \in 1..Len(db.evidence) : db.evidence[i] = b
Refused(db, b) ==
    \E a \in db.anomalies : a.kind \in {"LATE", "REVISION"} /\ a.start = b.start /\ a.content = b.content
NoneSilent(db) == \A b \in db.told : AsShown(db, b) \/ Refused(db, b)
DbOK(db) == db \in Dbs /\ Chronological(db) /\ GapsNoted(db) /\ GapsOfBars(db) /\ NoneSilent(db)

\* A batch works on a copy that only its holder of the write lock changes; the rows about
\* revisions are of bars, and a decision is one of the two.
JournalRow == [event : {"REVISION", "REVIEWED"}, id : MarketBar, material : BOOLEAN,
               decision : Decisions \cup {"NONE"}, previous : Decisions \cup {"NONE"}, sound : BOOLEAN]
RowOK(r) == r \in JournalRow /\ (r.event = "REVIEWED" => r.decision \in Decisions)
IngestTypes == [pc : {"idle", "unit", "begin", "records", "journal"}, bars : Seq(MarketBar),
                mode : {"bar", "batch"}, revisions : SUBSET MarketBar, stage : Dbs \cup {Nobody},
                records : SUBSET [id : MarketBar, material : BOOLEAN]]
InBatch(w) == ingest[w].mode = "batch" /\ ingest[w].pc = "unit"
StageOK(w) == InBatch(w) => writing = w /\ DbOK(ingest[w].stage) /\ told \subseteq ingest[w].stage.told
FiniteOK(w) == IsFiniteSet(ingest[w].revisions) /\ IsFiniteSet(ingest[w].records)
EvidenceInv ==
    /\ DbOK(Db)
    /\ ingest \in [Writer -> IngestTypes]
    /\ \A w \in Writer : StageOK(w) /\ FiniteOK(w)
    /\ journal \in Seq(JournalRow)
    /\ \A i \in 1..Len(journal) : RowOK(journal[i])

-----------------------------------------------------------------------------
\* One unit keeps a database sound.

\* Noting an anomaly keeps what is noted and adds the row or finds it there.
LEMMA NotedIs ==
    ASSUME NEW db, NEW a \in AnomalyRows, db.anomalies \in SUBSET AnomalyRows
    PROVE  /\ Noted(db, a) \in SUBSET AnomalyRows /\ db.anomalies \subseteq Noted(db, a)
           /\ Noted(db, a) \subseteq db.anomalies \cup {a}
           /\ \E x \in Noted(db, a) : x.kind = a.kind /\ x.start = a.start /\ x.content = a.content
BY DEF Noted

\* A bar that is there already, or comes late: nothing is appended, and what is noted is no gap.
LEMMA NothingAppended ==
    ASSUME NEW db, DbOK(db), NEW bar \in MarketBar, NEW new \in Dbs,
           new.evidence = db.evidence, new.told = db.told \cup {bar},
           db.anomalies \subseteq new.anomalies,
           \A a \in new.anomalies : a.kind = "GAP" => a \in db.anomalies,
           AsShown(new, bar) \/ Refused(new, bar)
    PROVE  DbOK(new)
<1> USE DEF DbOK
<1>1. Chronological(new)
  BY DEF Chronological
<1>2. \A s : GapsAt(new, s) = GapsAt(db, s)
  BY DEF GapsAt
<1>3. GapsNoted(new)
  BY <1>2 DEF GapsNoted, Follows
<1>4. GapsOfBars(new)
  BY DEF GapsOfBars
<1>5. NoneSilent(new)
  BY DEF NoneSilent, AsShown, Refused
<1> QED BY <1>1, <1>3, <1>4, <1>5

\* A new bar past the watermark is appended, with the row of the hole before it if there is one.
LEMMA BarAppended ==
    ASSUME NEW db, DbOK(db), NEW bar \in MarketBar, NEW new \in Dbs,
           \A i \in 1..Len(db.evidence) : db.evidence[i].start # bar.start,
           db.evidence # <<>> => bar.start > Last(db.evidence).start,
           new.evidence = Append(db.evidence, bar), new.told = db.told \cup {bar},
           new.anomalies = IF db.evidence # <<>> /\ bar.start > Last(db.evidence).start + 1
                           THEN Noted(db, Anomaly("GAP", bar, Last(db.evidence).start)) ELSE db.anomalies
    PROVE  DbOK(new)
<1> USE DEF DbOK
<1> DEFINE n == Len(db.evidence)
<1> DEFINE hole == db.evidence # <<>> /\ bar.start > Last(db.evidence).start + 1
<1>0. /\ db.evidence \in Seq(MarketBar) /\ n \in Nat /\ db.anomalies \in SUBSET AnomalyRows
      /\ \A i \in 1..n : db.evidence[i] \in MarketBar
      /\ bar.start \in Nat /\ \A b \in MarketBar : b.start \in Nat
  <2>1. db \in Dbs
    OBVIOUS
  <2>2. \A b \in MarketBar : b.start \in Nat
    BY EvidenceAssumption DEF MarketBar, Closed
  <2>3. db.evidence \in Seq(MarketBar) /\ db.anomalies \in SUBSET AnomalyRows
    BY <2>1 DEF Dbs
  <2> QED BY <2>2, <2>3
<1>1. /\ Len(new.evidence) = n + 1 /\ new.evidence[n + 1] = bar
      /\ \A i \in 1..n : new.evidence[i] = db.evidence[i]
  BY <1>0
<1>2. db.evidence # <<>> => n > 0 /\ Last(db.evidence) = db.evidence[n]
  BY <1>0 DEF Last
<1>3. \A i \in 1..n + 1 : i \in 1..n \/ i = n + 1
  BY <1>0
<1>4. Chronological(new)
  <2> SUFFICES ASSUME NEW i \in 1..n + 1, NEW j \in 1..n + 1, i < j
               PROVE  new.evidence[i].start < new.evidence[j].start
    BY <1>1 DEF Chronological
  <2>1. i \in 1..n
    BY <1>0
  <2>2. CASE j \in 1..n
    BY <1>1, <2>1, <2>2 DEF Chronological
  <2>3. CASE j = n + 1
    <3>1. db.evidence[i].start <= db.evidence[n].start
      <4>1. CASE i = n
        BY <1>0, <2>1, <4>1
      <4>2. CASE i < n
        BY <1>0, <2>1, <4>2 DEF Chronological
      <4> QED BY <1>0, <2>1, <4>1, <4>2
    <3>2. db.evidence # <<>>
      BY <1>0, <2>1
    <3> QED BY <1>0, <1>1, <1>2, <2>1, <2>3, <3>1, <3>2
  <2> QED BY <1>3, <2>2, <2>3
<1>5. \A a \in db.anomalies : a.kind = "GAP" => a.start # bar.start
  BY DEF GapsOfBars
<1>6. /\ hole => Anomaly("GAP", bar, Last(db.evidence).start) \in AnomalyRows
      /\ hole => new.anomalies = db.anomalies \cup {Anomaly("GAP", bar, Last(db.evidence).start)}
      /\ ~hole => new.anomalies = db.anomalies
  <2>1. ASSUME hole PROVE Anomaly("GAP", bar, Last(db.evidence).start) \in AnomalyRows
    BY <1>0, <1>2, <2>1 DEF Anomaly, AnomalyRows, MarketBar
  <2>2. ASSUME hole
        PROVE  new.anomalies = db.anomalies \cup {Anomaly("GAP", bar, Last(db.evidence).start)}
    BY <1>5, <2>2 DEF Noted, Anomaly
  <2> QED BY <2>1, <2>2
<1>7. GapsNoted(new)
  <2> SUFFICES ASSUME NEW i \in 1..n + 1
               PROVE  IF Follows(new, i)
                      THEN {a.after : a \in GapsAt(new, new.evidence[i].start)} = {new.evidence[i - 1].start}
                      ELSE GapsAt(new, new.evidence[i].start) = {}
    BY <1>1 DEF GapsNoted
  <2>1. CASE i \in 1..n
    <3>1. /\ new.evidence[i] = db.evidence[i] /\ db.evidence[i].start # bar.start
          /\ i > 1 => new.evidence[i - 1] = db.evidence[i - 1]
      BY <1>0, <1>1, <2>1
    <3>2. GapsAt(new, new.evidence[i].start) = GapsAt(db, db.evidence[i].start)
      BY <1>6, <3>1 DEF GapsAt, Anomaly
    <3>3. Follows(new, i) <=> Follows(db, i)
      BY <3>1 DEF Follows
    <3>4. Follows(db, i) => new.evidence[i - 1] = db.evidence[i - 1]
      BY <3>1 DEF Follows
    <3> QED BY <2>1, <3>2, <3>3, <3>4 DEF GapsNoted
  <2>2. CASE i = n + 1
    <3>1. GapsAt(db, bar.start) = {}
      BY <1>5 DEF GapsAt
    <3>2. new.evidence[i] = bar /\ (i > 1 => n > 0 /\ new.evidence[i - 1] = db.evidence[n])
      BY <1>0, <1>1, <2>2
    <3>3. i > 1 <=> db.evidence # <<>>
      BY <1>0, <1>2, <2>2
    <3>4. Follows(new, i) <=> hole
      BY <1>2, <3>2, <3>3 DEF Follows
    <3>5. CASE hole
      <4> DEFINE a == Anomaly("GAP", bar, Last(db.evidence).start)
      <4>1. a.kind = "GAP" /\ a.start = bar.start /\ a.after = Last(db.evidence).start
        BY DEF Anomaly
      <4>2. GapsAt(new, bar.start) = {a}
        BY <1>6, <3>1, <3>5, <4>1 DEF GapsAt
      <4>3. {x.after : x \in {a}} = {a.after}
        OBVIOUS
      <4> HIDE DEF a
      <4> QED BY <1>2, <3>2, <3>3, <3>4, <3>5, <4>1, <4>2, <4>3
    <3>6. CASE ~hole
      BY <1>6, <3>1, <3>2, <3>4, <3>6 DEF GapsAt
    <3> QED BY <3>5, <3>6
  <2> QED BY <1>3, <2>1, <2>2
<1>8. GapsOfBars(new)
  <2> SUFFICES ASSUME NEW a \in new.anomalies, a.kind = "GAP"
               PROVE  \E i \in 1..n + 1 : new.evidence[i].start = a.start
    BY <1>1 DEF GapsOfBars
  <2>1. CASE a \in db.anomalies
    <3>1. PICK i \in 1..n : db.evidence[i].start = a.start
      BY <2>1 DEF GapsOfBars
    <3> QED BY <1>0, <1>1, <3>1
  <2>2. CASE a \notin db.anomalies
    <3>1. a.start = bar.start
      BY <1>6, <2>2 DEF Anomaly
    <3> QED BY <1>0, <1>1, <3>1
  <2> QED BY <2>1, <2>2
<1>9. NoneSilent(new)
  <2>1. AsShown(new, bar)
    BY <1>0, <1>1 DEF AsShown
  <2>2. ASSUME NEW b \in db.told PROVE AsShown(new, b) \/ Refused(new, b)
    <3>1. AsShown(db, b) => AsShown(new, b)
      BY <1>0, <1>1 DEF AsShown
    <3>2. Refused(db, b) => Refused(new, b)
      BY <1>6 DEF Refused
    <3> QED BY <3>1, <3>2 DEF NoneSilent
  <2> QED BY <2>1, <2>2 DEF NoneSilent
<1> QED BY <1>4, <1>7, <1>8, <1>9

\* _commit: whatever it makes of a bar, the database stays sound and the bar is dealt with.
LEMMA CommitBarKeeps ==
    ASSUME NEW db, DbOK(db), NEW bar \in MarketBar
    PROVE  DbOK(CommitBar(db, bar)) /\ db.told \subseteq CommitBar(db, bar).told
<1> DEFINE new == CommitBar(db, bar)
<1> DEFINE known == {i \in DOMAIN db.evidence : db.evidence[i].start = bar.start}
<1> DEFINE watermark == IF db.evidence = <<>> THEN 0 ELSE Last(db.evidence).start
<1> DEFINE marked == [db EXCEPT !.told = @ \cup {bar}]
<1>0. /\ db \in Dbs /\ db.evidence \in Seq(MarketBar) /\ DOMAIN db.evidence = 1..Len(db.evidence)
      /\ db.anomalies \in SUBSET AnomalyRows
  BY DEF DbOK, Dbs
<1>1. marked \in Dbs /\ marked.told = db.told \cup {bar} /\ marked.evidence = db.evidence /\ marked.anomalies = db.anomalies
  BY <1>0 DEF Dbs
<1>2. bar.start \in Closed /\ bar.start \in Nat /\ bar.content \in Content
  BY EvidenceAssumption DEF MarketBar, Closed
<1>3. db.evidence # <<>> => watermark = Last(db.evidence).start /\ watermark \in Nat
  <2>1. db.evidence # <<>> => db.evidence[Len(db.evidence)] \in MarketBar
    BY <1>0
  <2> QED BY <2>1, EvidenceAssumption DEF Last, MarketBar, Closed
<1>4. CASE known # {} /\ \E i \in known : db.evidence[i].content = bar.content
  <2>1. new = [marked EXCEPT !.kind = "DUPLICATE"]
    BY <1>4 DEF CommitBar
  <2>2. new \in Dbs /\ new.evidence = db.evidence /\ new.told = db.told \cup {bar} /\ new.anomalies = db.anomalies
    BY <1>1, <2>1 DEF Dbs
  <2>3. AsShown(new, bar)
    <3>1. PICK i \in 1..Len(db.evidence) : db.evidence[i].start = bar.start /\ db.evidence[i].content = bar.content
      BY <1>0, <1>4
    <3>2. db.evidence[i] \in MarketBar
      BY <1>0
    <3>3. db.evidence[i] = bar
      BY <3>1, <3>2 DEF MarketBar
    <3> QED BY <2>2, <3>3 DEF AsShown
  <2> HIDE DEF new
  <2>4. DbOK(new)
    BY <2>2, <2>3, NothingAppended
  <2> QED BY <2>2, <2>4 DEF new
<1>5. CASE known # {} /\ \A i \in known : db.evidence[i].content # bar.content
  <2> DEFINE a == Anomaly("REVISION", bar, 0)
  <2>1. new = [marked EXCEPT !.kind = "REVISION", !.anomalies = Noted(db, a)]
    BY <1>5 DEF CommitBar
  <2>2. a \in AnomalyRows /\ a.kind = "REVISION" /\ a.start = bar.start /\ a.content = bar.content
    BY <1>2 DEF Anomaly, AnomalyRows
  <2> HIDE DEF a
  <2>3. /\ Noted(db, a) \in SUBSET AnomalyRows /\ db.anomalies \subseteq Noted(db, a)
        /\ Noted(db, a) \subseteq db.anomalies \cup {a}
        /\ \E x \in Noted(db, a) : x.kind = a.kind /\ x.start = a.start /\ x.content = a.content
    BY <1>0, <2>2, NotedIs
  <2>4. new \in Dbs /\ new.evidence = db.evidence /\ new.told = db.told \cup {bar} /\ new.anomalies = Noted(db, a)
    BY <1>1, <2>1, <2>3 DEF Dbs
  <2> HIDE DEF new
  <2>5. Refused(new, bar)
    BY <2>2, <2>3, <2>4 DEF Refused
  <2>6. DbOK(new)
    BY <2>2, <2>3, <2>4, <2>5, NothingAppended
  <2> QED BY <2>4, <2>6 DEF new
<1>6. CASE known = {} /\ db.evidence # <<>> /\ bar.start <= watermark
  <2> DEFINE a == Anomaly("LATE", bar, watermark)
  <2>1. new = [marked EXCEPT !.kind = "LATE", !.anomalies = Noted(db, a)]
    BY <1>6 DEF CommitBar
  <2>2. a \in AnomalyRows /\ a.kind = "LATE" /\ a.start = bar.start /\ a.content = bar.content
    BY <1>2, <1>3, <1>6 DEF Anomaly, AnomalyRows
  <2> HIDE DEF a
  <2>3. /\ Noted(db, a) \in SUBSET AnomalyRows /\ db.anomalies \subseteq Noted(db, a)
        /\ Noted(db, a) \subseteq db.anomalies \cup {a}
        /\ \E x \in Noted(db, a) : x.kind = a.kind /\ x.start = a.start /\ x.content = a.content
    BY <1>0, <2>2, NotedIs
  <2>4. new \in Dbs /\ new.evidence = db.evidence /\ new.told = db.told \cup {bar} /\ new.anomalies = Noted(db, a)
    BY <1>1, <2>1, <2>3 DEF Dbs
  <2> HIDE DEF new
  <2>5. Refused(new, bar)
    BY <2>2, <2>3, <2>4 DEF Refused
  <2>6. DbOK(new)
    BY <2>2, <2>3, <2>4, <2>5, NothingAppended
  <2> QED BY <2>4, <2>6 DEF new
<1>7. CASE known = {} /\ (db.evidence = <<>> \/ bar.start > watermark)
  <2> DEFINE a == Anomaly("GAP", bar, watermark)
  <2> DEFINE rows == IF db.evidence # <<>> /\ bar.start > watermark + 1 THEN Noted(db, a) ELSE db.anomalies
  <2>1. new = [marked EXCEPT !.kind = "COMMITTED", !.evidence = Append(@, bar), !.anomalies = rows]
    BY <1>1, <1>2, <1>3, <1>7 DEF CommitBar
  <2>2. rows \in SUBSET AnomalyRows
    <3>1. CASE db.evidence # <<>>
      <4>1. a \in AnomalyRows
        BY <1>2, <1>3, <3>1 DEF Anomaly, AnomalyRows
      <4> HIDE DEF a
      <4> QED BY <1>0, <4>1, NotedIs
    <3> QED BY <1>0, <3>1
  <2>3. rows = IF db.evidence # <<>> /\ bar.start > Last(db.evidence).start + 1
               THEN Noted(db, Anomaly("GAP", bar, Last(db.evidence).start)) ELSE db.anomalies
    OBVIOUS
  <2> HIDE DEF rows
  <2>9. Append(db.evidence, bar) \in Seq(MarketBar)
    BY <1>0
  <2>4. new \in Dbs /\ new.evidence = Append(db.evidence, bar) /\ new.told = db.told \cup {bar} /\ new.anomalies = rows
    <3> HIDE DEF new, known, watermark
    <3>1. new = [evidence |-> Append(db.evidence, bar), anomalies |-> rows, told |-> db.told \cup {bar},
                 kind |-> "COMMITTED"]
      BY <1>0, <2>1 DEF Dbs
    <3> QED BY <1>0, <2>2, <2>9, <3>1 DEF Dbs
  <2> HIDE DEF new
  <2>5. /\ \A i \in 1..Len(db.evidence) : db.evidence[i].start # bar.start
        /\ db.evidence # <<>> => bar.start > Last(db.evidence).start
    BY <1>0, <1>3, <1>7
  <2>6. DbOK(new)
    BY <2>3, <2>4, <2>5, BarAppended
  <2> QED BY <2>4, <2>6 DEF new
<1>8. db.evidence = <<>> \/ bar.start > watermark \/ bar.start <= watermark
  BY <1>2, <1>3
<1> QED BY <1>4, <1>5, <1>6, <1>7, <1>8

-----------------------------------------------------------------------------
\* The steps keep the invariant.

\* DbOK does not look at what the last unit was.
LEMMA KindIsNoMatter ==
    ASSUME NEW db, DbOK(db), NEW new \in Dbs,
           new.evidence = db.evidence, new.anomalies = db.anomalies, new.told = db.told
    PROVE  DbOK(new)
<1>1. \A s : GapsAt(new, s) = GapsAt(db, s)
  BY DEF GapsAt
<1>2. GapsNoted(new)
  BY <1>1 DEF DbOK, GapsNoted, Follows
<1>3. Chronological(new) /\ GapsOfBars(new)
  BY DEF DbOK, Chronological, GapsOfBars
<1>4. NoneSilent(new)
  BY DEF DbOK, NoneSilent, AsShown, Refused
<1> QED BY <1>1, <1>2, <1>3, <1>4 DEF DbOK

\* A step of one writer: the others keep their batch, if they are in one.
LEMMA OneWriter ==
    ASSUME EvidenceInv, NEW w \in Writer, NEW x \in IngestTypes, ingest' = [ingest EXCEPT ![w] = x],
           x.mode = "batch" /\ x.pc = "unit" => writing' = w /\ DbOK(x.stage) /\ told' \subseteq x.stage.told,
           IsFiniteSet(x.revisions) /\ IsFiniteSet(x.records),
           \A v \in Writer \ {w} : InBatch(v) => writing' = v /\ told' \subseteq told
    PROVE  (ingest \in [Writer -> IngestTypes] /\ \A v \in Writer : StageOK(v) /\ FiniteOK(v))'
<1>1. ingest' \in [Writer -> IngestTypes] /\ ingest'[w] = x /\ \A v \in Writer \ {w} : ingest'[v] = ingest[v]
  BY DEF EvidenceInv
<1>2. (StageOK(w) /\ FiniteOK(w))'
  BY <1>1 DEF StageOK, FiniteOK, InBatch
<1>3. ASSUME NEW v \in Writer \ {w} PROVE (StageOK(v) /\ FiniteOK(v))'
  <2>1. FiniteOK(v)'
    BY <1>1 DEF FiniteOK, EvidenceInv
  <2>2. StageOK(v) /\ (InBatch(v) => writing' = v /\ told' \subseteq told)
    BY DEF EvidenceInv
  <2>3. StageOK(v)'
    BY <1>1, <2>2 DEF StageOK, InBatch
  <2> QED BY <2>1, <2>3
<1> QED BY <1>1, <1>2, <1>3

\* A step that leaves the database, the journal and the lock alone and does not touch a batch.
LEMMA OnlyThisWriter ==
    ASSUME EvidenceInv, NEW w \in Writer, NEW x \in IngestTypes, ingest' = [ingest EXCEPT ![w] = x],
           ~(x.mode = "batch" /\ x.pc = "unit"),
           IsFiniteSet(x.revisions) /\ IsFiniteSet(x.records),
           UNCHANGED <<evidence, anomalies, told, journal, writing>>
    PROVE  EvidenceInv'
<1>1. \A v \in Writer \ {w} : InBatch(v) => writing' = v /\ told' \subseteq told
  BY DEF EvidenceInv, StageOK
<1>2. (ingest \in [Writer -> IngestTypes] /\ \A v \in Writer : StageOK(v) /\ FiniteOK(v))'
  BY <1>1, OneWriter
<1>3. DbOK(Db)'
  BY DEF EvidenceInv, Db
<1> QED BY <1>2, <1>3 DEF EvidenceInv

\* The writer's own record.
LEMMA WriterTyped ==
    ASSUME EvidenceInv, NEW w \in Writer
    PROVE  /\ ingest[w] \in IngestTypes /\ StageOK(w) /\ FiniteOK(w)
           /\ ingest[w].bars # <<>> => Head(ingest[w].bars) \in MarketBar /\ Tail(ingest[w].bars) \in Seq(MarketBar)
<1>1. ingest[w] \in IngestTypes
  BY DEF EvidenceInv
<1>2. ingest[w].bars \in Seq(MarketBar)
  BY <1>1 DEF IngestTypes
<1> QED BY <1>1, <1>2 DEF EvidenceInv

LEMMA NoIngestTyped == NoIngest \in IngestTypes /\ IsFiniteSet(NoIngest.revisions) /\ IsFiniteSet(NoIngest.records)
<1>1. <<>> \in Seq(MarketBar)
  OBVIOUS
<1> QED BY <1>1, FS_EmptySet DEF NoIngest, IngestTypes

LEMMA InitInv == EvidenceInit => EvidenceInv
<1> SUFFICES ASSUME EvidenceInit PROVE EvidenceInv
  OBVIOUS
<1>1. <<>> \in Seq(MarketBar) /\ <<>> \in Seq(JournalRow) /\ Len(<<>>) = 0
  OBVIOUS
<1>2. DbOK(Db)
  BY <1>1 DEF EvidenceInit, Db, DbOK, Dbs, Chronological, GapsNoted, GapsOfBars, NoneSilent
<1>3. ingest \in [Writer -> IngestTypes] /\ \A w \in Writer : ingest[w] = NoIngest
  BY NoIngestTyped DEF EvidenceInit
<1>4. \A w \in Writer : StageOK(w) /\ FiniteOK(w)
  <2>1. NoIngest.mode = "bar"
    BY DEF NoIngest
  <2> QED BY <1>3, <2>1, NoIngestTyped DEF StageOK, InBatch, FiniteOK
<1> QED BY <1>1, <1>2, <1>3, <1>4 DEF EvidenceInit, EvidenceInv

LEMMA PresentKeeps == ASSUME EvidenceInv, NEW w \in Writer, Present(w) PROVE EvidenceInv'
<1>0. PICK ordered \in Ordered, how \in {"bar", "batch"} : \E index \in 0..Len(ordered) :
          ingest' = [ingest EXCEPT ![w] = [NoIngest EXCEPT
                        !.pc = IF how = "bar" THEN "unit" ELSE "begin", !.mode = how,
                        !.bars = SplitClosed(ordered, index)]]
  BY DEF Present
<1>1. PICK index \in 0..Len(ordered) :
          ingest' = [ingest EXCEPT ![w] = [NoIngest EXCEPT
                        !.pc = IF how = "bar" THEN "unit" ELSE "begin", !.mode = how,
                        !.bars = SplitClosed(ordered, index)]]
  BY <1>0
<1> DEFINE x == [NoIngest EXCEPT !.pc = IF how = "bar" THEN "unit" ELSE "begin", !.mode = how,
                                 !.bars = SplitClosed(ordered, index)]
<1>2. SplitClosed(ordered, index) \in Seq(MarketBar)
  <2>1. PICK n \in 0..MaxWindow : ordered \in [1..n -> MarketBar]
    BY DEF Ordered
  <2>2. n \in Nat /\ ordered \in Seq(MarketBar)
    BY <2>1
  <2> QED BY <2>2 DEF SplitClosed
<1>3. x \in IngestTypes /\ ~(x.mode = "batch" /\ x.pc = "unit") /\ IsFiniteSet(x.revisions) /\ IsFiniteSet(x.records)
  BY <1>2, NoIngestTyped DEF NoIngest, IngestTypes
<1> HIDE DEF x
<1>4. UNCHANGED <<evidence, anomalies, told, journal, writing>>
  BY DEF Present
<1> QED BY <1>1, <1>3, <1>4, OnlyThisWriter DEF x

LEMMA UnitAloneKeeps == ASSUME EvidenceInv, NEW w \in Writer, UnitAlone(w) PROVE EvidenceInv'
<1> DEFINE bar == Head(ingest[w].bars)
<1> DEFINE db == CommitBar(Db, bar)
<1> DEFINE x == [ingest[w] EXCEPT !.bars = Tail(@), !.revisions = Revised(w, db)]
<1>1. /\ ingest[w].bars # <<>> /\ ingest[w].mode = "bar" /\ writing = Nobody
      /\ evidence' = db.evidence /\ anomalies' = db.anomalies /\ told' = db.told
      /\ ingest' = [ingest EXCEPT ![w].bars = Tail(@), ![w].revisions = Revised(w, db)]
      /\ UNCHANGED <<writing, journal>>
  BY DEF UnitAlone
<1>2. ingest[w] \in IngestTypes /\ bar \in MarketBar /\ Tail(ingest[w].bars) \in Seq(MarketBar) /\ FiniteOK(w)
  BY <1>1, WriterTyped
<1>3. DbOK(Db)
  BY DEF EvidenceInv
<1>4. DbOK(db) /\ db \in Dbs
  BY <1>2, <1>3, CommitBarKeeps DEF DbOK
<1> HIDE DEF db
<1>5. Revised(w, db) \in SUBSET MarketBar /\ IsFiniteSet(Revised(w, db))
  <2>1. ingest[w].revisions \in SUBSET MarketBar
    BY <1>2 DEF IngestTypes
  <2>2. IsFiniteSet(ingest[w].revisions \cup {bar})
    BY <1>2, FS_AddElement DEF FiniteOK
  <2> QED BY <1>2, <2>1, <2>2 DEF Revised, FiniteOK
<1>6. DbOK(Db)'
  <2>1. Db' \in Dbs /\ Db'.evidence = db.evidence /\ Db'.anomalies = db.anomalies /\ Db'.told = db.told
    BY <1>1, <1>4 DEF Db, Dbs
  <2> HIDE DEF bar
  <2> QED BY <1>4, <2>1, KindIsNoMatter
<1>7. ingest' = [ingest EXCEPT ![w] = x]
  BY <1>1 DEF EvidenceInv
<1>8. x \in IngestTypes /\ x.mode = "bar" /\ IsFiniteSet(x.revisions) /\ IsFiniteSet(x.records)
  BY <1>1, <1>2, <1>5 DEF IngestTypes, FiniteOK
<1>9. \A v \in Writer : ~InBatch(v)
  BY <1>1, EvidenceAssumption DEF EvidenceInv, StageOK
<1> HIDE DEF x
<1>10. (ingest \in [Writer -> IngestTypes] /\ \A v \in Writer : StageOK(v) /\ FiniteOK(v))'
  BY <1>7, <1>8, <1>9, OneWriter
<1> QED BY <1>1, <1>6, <1>10 DEF EvidenceInv

LEMMA IngestDoneKeeps == ASSUME EvidenceInv, NEW w \in Writer, IngestDone(w) PROVE EvidenceInv'
<1> DEFINE x == IF ingest[w].revisions = {} THEN NoIngest ELSE [ingest[w] EXCEPT !.pc = "records"]
<1>1. ingest' = [ingest EXCEPT ![w] = x] /\ UNCHANGED <<evidence, anomalies, told, journal, writing>>
  BY DEF IngestDone, EvidenceInv
<1>2. x \in IngestTypes /\ ~(x.mode = "batch" /\ x.pc = "unit") /\ IsFiniteSet(x.revisions) /\ IsFiniteSet(x.records)
  BY WriterTyped, NoIngestTyped DEF IngestTypes, FiniteOK, NoIngest
<1> HIDE DEF x
<1> QED BY <1>1, <1>2, OnlyThisWriter

LEMMA BatchBeginKeeps == ASSUME EvidenceInv, NEW w \in Writer, BatchBegin(w) PROVE EvidenceInv'
<1> DEFINE x == [ingest[w] EXCEPT !.pc = "unit", !.stage = Db]
<1>1. /\ ingest' = [ingest EXCEPT ![w] = x] /\ writing = Nobody /\ writing' = w
      /\ UNCHANGED <<evidence, anomalies, told, journal>>
  BY DEF BatchBegin, EvidenceInv
<1>2. DbOK(Db) /\ Db \in Dbs /\ Db.told = told
  BY DEF EvidenceInv, DbOK, Db
<1>3. x \in IngestTypes /\ x.stage = Db /\ IsFiniteSet(x.revisions) /\ IsFiniteSet(x.records)
  BY <1>2, WriterTyped DEF IngestTypes, FiniteOK
<1>4. \A v \in Writer : ~InBatch(v)
  BY <1>1, EvidenceAssumption DEF EvidenceInv, StageOK
<1> HIDE DEF x
<1>5. (ingest \in [Writer -> IngestTypes] /\ \A v \in Writer : StageOK(v) /\ FiniteOK(v))'
  BY <1>1, <1>2, <1>3, <1>4, OneWriter
<1>6. DbOK(Db)'
  BY <1>1, <1>2 DEF Db
<1> QED BY <1>1, <1>5, <1>6 DEF EvidenceInv

LEMMA BatchUnitKeeps == ASSUME EvidenceInv, NEW w \in Writer, BatchUnit(w) PROVE EvidenceInv'
<1> DEFINE db == CommitBar(ingest[w].stage, Head(ingest[w].bars))
<1> DEFINE x == [ingest[w] EXCEPT !.stage = db, !.bars = Tail(@)]
<1>1. /\ ingest' = [ingest EXCEPT ![w] = x] /\ InBatch(w) /\ ingest[w].bars # <<>>
      /\ UNCHANGED <<evidence, anomalies, told, journal, writing>>
  BY DEF BatchUnit, EvidenceInv, InBatch
<1>2. /\ ingest[w] \in IngestTypes /\ Head(ingest[w].bars) \in MarketBar /\ Tail(ingest[w].bars) \in Seq(MarketBar)
      /\ FiniteOK(w) /\ writing = w /\ DbOK(ingest[w].stage) /\ told \subseteq ingest[w].stage.told
  BY <1>1, WriterTyped DEF StageOK
<1>3. DbOK(db) /\ db \in Dbs /\ ingest[w].stage.told \subseteq db.told
  BY <1>2, CommitBarKeeps DEF DbOK
<1> HIDE DEF db
<1>4. x \in IngestTypes /\ x.stage = db /\ IsFiniteSet(x.revisions) /\ IsFiniteSet(x.records)
  BY <1>2, <1>3 DEF IngestTypes, FiniteOK
<1>5. \A v \in Writer \ {w} : InBatch(v) => writing' = v /\ told' \subseteq told
  BY <1>1 DEF EvidenceInv, StageOK
<1> HIDE DEF x
<1>6. (ingest \in [Writer -> IngestTypes] /\ \A v \in Writer : StageOK(v) /\ FiniteOK(v))'
  BY <1>1, <1>2, <1>3, <1>4, <1>5, OneWriter
<1>7. DbOK(Db)'
  BY <1>1 DEF Db, EvidenceInv
<1> QED BY <1>1, <1>6, <1>7 DEF EvidenceInv

LEMMA BatchCommitKeeps == ASSUME EvidenceInv, NEW w \in Writer, BatchCommit(w) PROVE EvidenceInv'
<1> DEFINE db == ingest[w].stage
<1>1. /\ ingest' = [ingest EXCEPT ![w] = NoIngest] /\ InBatch(w)
      /\ evidence' = db.evidence /\ anomalies' = db.anomalies /\ told' = told \cup db.told /\ UNCHANGED journal
  BY DEF BatchCommit, InBatch
<1>2. writing = w /\ DbOK(db) /\ db \in Dbs /\ told \subseteq db.told
  BY <1>1, WriterTyped DEF StageOK, DbOK
<1>3. DbOK(Db)'
  <2>1. told' = db.told
    BY <1>1, <1>2
  <2>2. Db' \in Dbs /\ Db'.evidence = db.evidence /\ Db'.anomalies = db.anomalies /\ Db'.told = db.told
    BY <1>1, <1>2, <2>1 DEF Db, Dbs
  <2> QED BY <1>2, <2>2, KindIsNoMatter
<1>4. \A v \in Writer \ {w} : ~InBatch(v)
  BY <1>2 DEF EvidenceInv, StageOK
<1>5. (ingest \in [Writer -> IngestTypes] /\ \A v \in Writer : StageOK(v) /\ FiniteOK(v))'
  BY <1>1, <1>4, NoIngestTyped, OneWriter DEF NoIngest
<1> QED BY <1>1, <1>3, <1>5 DEF EvidenceInv

LEMMA IngestFailsKeeps == ASSUME EvidenceInv, NEW w \in Writer, IngestFails(w) PROVE EvidenceInv'
<1>1. /\ ingest' = [ingest EXCEPT ![w] = NoIngest]
      /\ UNCHANGED <<evidence, anomalies, told, journal>> /\ writing' = IF writing = w THEN Nobody ELSE writing
  BY DEF IngestFails
<1>2. \A v \in Writer \ {w} : InBatch(v) => writing' = v /\ told' \subseteq told
  BY <1>1 DEF EvidenceInv, StageOK
<1>3. (ingest \in [Writer -> IngestTypes] /\ \A v \in Writer : StageOK(v) /\ FiniteOK(v))'
  BY <1>1, <1>2, NoIngestTyped, OneWriter DEF NoIngest
<1>4. DbOK(Db)'
  BY <1>1 DEF EvidenceInv, Db
<1> QED BY <1>1, <1>3, <1>4 DEF EvidenceInv

\* Rows of a finite set put into a sequence are such rows.
LEMMA SetInSequence == ASSUME NEW S, IsFiniteSet(S) PROVE SetToSeq(S) \in Seq(S)
<1>1. Cardinality(S) \in Nat /\ ExistsBijection(1..Cardinality(S), S)
  BY FS_CardinalityType
<1>2. \E f \in [1..Cardinality(S) -> S] : IsInjective(f)
  BY <1>1 DEF ExistsBijection, Bijection, Injection, IsInjective
<1>3. SetToSeq(S) \in [1..Cardinality(S) -> S]
  BY <1>2 DEF SetToSeq
<1> QED BY <1>1, <1>3

LEMMA ImageIsFinite ==
    ASSUME NEW S, IsFiniteSet(S), NEW f, DOMAIN f = S
    PROVE  IsFiniteSet({f[x] : x \in S})
<1> DEFINE T == {f[x] : x \in S}
<1> DEFINE g == [x \in S |-> f[x]]
<1>1. g \in Surjection(S, T)
  BY DEF Surjection
<1> HIDE DEF T, g
<1> QED BY <1>1, FS_Surjection DEF T

LEMMA ClassifyKeeps == ASSUME EvidenceInv, NEW w \in Writer, Classify(w) PROVE EvidenceInv'
<1> DEFINE Record(b) == [id |-> b, material |->
              /\ held /\ b.content = "cross"
              /\ \E i \in DOMAIN evidence : evidence[i].start = b.start /\ evidence[i].content # "cross"]
<1> DEFINE records == {Record(b) : b \in ingest[w].revisions}
<1> DEFINE x == [ingest[w] EXCEPT !.pc = "journal", !.records = records]
<1>1. ingest' = [ingest EXCEPT ![w] = x] /\ UNCHANGED <<evidence, anomalies, told, journal, writing>>
  BY DEF Classify, EvidenceInv
<1>2. ingest[w] \in IngestTypes /\ IsFiniteSet(ingest[w].revisions)
  BY WriterTyped DEF FiniteOK
<1>3. ingest[w].revisions \subseteq MarketBar
  BY <1>2 DEF IngestTypes
<1>4. records \in SUBSET [id : MarketBar, material : BOOLEAN]
  <2> SUFFICES ASSUME NEW b \in ingest[w].revisions PROVE Record(b) \in [id : MarketBar, material : BOOLEAN]
    OBVIOUS
  <2>1. b \in MarketBar
    BY <1>3
  <2> QED BY <2>1
<1>5. IsFiniteSet(records)
  <2> DEFINE f == [b \in ingest[w].revisions |-> Record(b)]
  <2>1. records = {f[b] : b \in ingest[w].revisions} /\ DOMAIN f = ingest[w].revisions
    OBVIOUS
  <2> HIDE DEF f, records
  <2> QED BY <1>2, <2>1, ImageIsFinite
<1> HIDE DEF records
<1>6. x \in IngestTypes /\ x.pc = "journal" /\ IsFiniteSet(x.revisions) /\ IsFiniteSet(x.records)
  BY <1>2, <1>4, <1>5 DEF IngestTypes
<1> HIDE DEF x
<1> QED BY <1>1, <1>6, OnlyThisWriter

\* A step that only adds rows to the journal, and nothing to the databases or batches.
LEMMA RowsAdded ==
    ASSUME EvidenceInv, NEW rows \in Seq(JournalRow), \A i \in 1..Len(rows) : RowOK(rows[i]),
           journal' = journal \o rows
    PROVE  (journal \in Seq(JournalRow) /\ \A i \in 1..Len(journal) : RowOK(journal[i]))'
<1>1. journal \in Seq(JournalRow) /\ \A i \in 1..Len(journal) : RowOK(journal[i])
  BY DEF EvidenceInv
<1>2. journal' \in Seq(JournalRow) /\ Len(journal') = Len(journal) + Len(rows)
  BY <1>1
<1>3. ASSUME NEW i \in 1..Len(journal') PROVE RowOK(journal'[i])
  <2>1. CASE i <= Len(journal)
    BY <1>1, <1>2, <2>1
  <2>2. CASE i > Len(journal)
    <3>1. i - Len(journal) \in 1..Len(rows) /\ journal'[i] = rows[i - Len(journal)]
      BY <1>1, <1>2, <2>2
    <3> QED BY <3>1
  <2> QED BY <1>1, <1>2, <2>1, <2>2
<1> QED BY <1>2, <1>3

LEMMA RowAdded ==
    ASSUME EvidenceInv, NEW row, RowOK(row), journal' = Append(journal, row)
    PROVE  (journal \in Seq(JournalRow) /\ \A i \in 1..Len(journal) : RowOK(journal[i]))'
<1>1. <<row>> \in Seq(JournalRow) /\ Len(<<row>>) = 1 /\ <<row>>[1] = row
  BY DEF RowOK
<1>2. \A i \in 1..Len(<<row>>) : RowOK(<<row>>[i])
  BY <1>1
<1>3. journal' = journal \o <<row>>
  <2>1. journal \in Seq(JournalRow)
    BY DEF EvidenceInv
  <2> QED BY <2>1 DEF RowOK
<1> QED BY <1>1, <1>2, <1>3, RowsAdded

LEMMA JournalRevisionsKeeps == ASSUME EvidenceInv, NEW w \in Writer, JournalRevisions(w) PROVE EvidenceInv'
<1> DEFINE fresh == {x \in ingest[w].records : Classifications(journal, x.id) = {}}
<1> DEFINE rows == {Classification(r) : r \in fresh}
<1>1. /\ journal' = journal \o SetToSeq(rows) /\ ingest' = [ingest EXCEPT ![w] = NoIngest]
      /\ UNCHANGED <<evidence, anomalies, told, writing>>
  BY DEF JournalRevisions
<1>2. ingest[w] \in IngestTypes /\ IsFiniteSet(ingest[w].records)
  BY WriterTyped DEF FiniteOK
<1>3. fresh \subseteq [id : MarketBar, material : BOOLEAN] /\ IsFiniteSet(fresh)
  <2>1. fresh \in SUBSET ingest[w].records
    OBVIOUS
  <2>2. IsFiniteSet(fresh)
    BY <1>2, <2>1, FS_Subset
  <2> QED BY <1>2, <2>2 DEF IngestTypes
<1> HIDE DEF fresh
<1>4. IsFiniteSet(rows)
  <2> DEFINE f == [r \in fresh |-> Classification(r)]
  <2>1. rows = {f[r] : r \in fresh} /\ DOMAIN f = fresh
    OBVIOUS
  <2> HIDE DEF f, rows
  <2> QED BY <1>3, <2>1, ImageIsFinite
<1>5. \A r \in rows : RowOK(r) /\ r \in JournalRow
  <2> SUFFICES ASSUME NEW r \in fresh PROVE RowOK(Classification(r))
    BY DEF RowOK
  <2>1. r.id \in MarketBar /\ r.material \in BOOLEAN
    BY <1>3
  <2> QED BY <2>1 DEF RowOK, JournalRow, Classification
<1> HIDE DEF rows
<1>6. SetToSeq(rows) \in Seq(rows)
  BY <1>4, SetInSequence
<1>7. SetToSeq(rows) \in Seq(JournalRow) /\ \A i \in 1..Len(SetToSeq(rows)) : RowOK(SetToSeq(rows)[i])
  <2> DEFINE s == SetToSeq(rows)
  <2>1. s \in Seq(rows)
    BY <1>6
  <2> HIDE DEF s
  <2>2. \A i \in 1..Len(s) : s[i] \in rows
    BY <2>1
  <2>3. s \in Seq(JournalRow)
    BY <1>5, <2>1, <2>2
  <2> QED BY <1>5, <2>2, <2>3 DEF s
<1>8. (journal \in Seq(JournalRow) /\ \A i \in 1..Len(journal) : RowOK(journal[i]))'
  BY <1>1, <1>7, RowsAdded
<1>9. \A v \in Writer \ {w} : InBatch(v) => writing' = v /\ told' \subseteq told
  BY <1>1 DEF EvidenceInv, StageOK
<1>10. (ingest \in [Writer -> IngestTypes] /\ \A v \in Writer : StageOK(v) /\ FiniteOK(v))'
  BY <1>1, <1>9, NoIngestTyped, OneWriter DEF NoIngest
<1>11. DbOK(Db)'
  BY <1>1 DEF EvidenceInv, Db
<1> QED BY <1>8, <1>10, <1>11 DEF EvidenceInv

\* Steps that leave the writers alone.
LEMMA WritersAlone ==
    ASSUME EvidenceInv, UNCHANGED <<evidence, anomalies, told, writing, ingest>>,
           (journal \in Seq(JournalRow) /\ \A i \in 1..Len(journal) : RowOK(journal[i]))'
    PROVE  EvidenceInv'
BY DEF EvidenceInv, Db, StageOK, FiniteOK, InBatch

\* Max of a nonempty set of numbers up to a bound.
LEMMA MaxIs ==
    ASSUME NEW n \in Nat, NEW S \in SUBSET (1..n), S # {}
    PROVE  Max(S) \in S /\ \A x \in S : x <= Max(S)
<1> DEFINE T == {x..n : x \in S}
<1>1. IsWellFoundedOn(StrictSubsetOrdering(Nat), FiniteSubsetsOf(Nat))
  BY FS_StrictSubsetOrderingWellFounded
<1>2. T \subseteq FiniteSubsetsOf(Nat) /\ T # {}
  <2>1. \A x \in S : x..n \in SUBSET Nat /\ IsFiniteSet(x..n)
    BY FS_Interval
  <2> QED BY <2>1 DEF FiniteSubsetsOf
<1>3. PICK m \in T : \A y \in T : ~(<<y, m>> \in StrictSubsetOrdering(Nat))
  <2> HIDE DEF T
  <2> QED BY <1>1, <1>2, WFMin
<1>4. PICK x \in S : m = x..n
  OBVIOUS
<1>5. ASSUME NEW y \in S, y > x PROVE FALSE
  <2>1. y..n \in T /\ y..n \subseteq m /\ m # y..n /\ m \in SUBSET Nat /\ y..n \in SUBSET Nat
    BY <1>4, <1>5
  <2> QED BY <2>1, <1>3 DEF StrictSubsetOrdering
<1>6. \A y \in S : x >= y
  BY <1>5
<1> HIDE DEF T
<1>7. Max(S) \in S /\ \A y \in S : Max(S) >= y
  BY <1>6 DEF Max
<1> QED BY <1>7

\* What the last review decided is a decision, or there is none.
LEMMA LatestDecisionTyped ==
    ASSUME EvidenceInv, NEW id
    PROVE  LatestDecision(journal, id) \in Decisions \cup {"NONE"}
<1> DEFINE of == Reviews(journal, id)
<1>1. journal \in Seq(JournalRow) /\ of \in SUBSET (1..Len(journal))
  BY DEF EvidenceInv, Reviews
<1>2. CASE of = {}
  BY <1>2 DEF LatestDecision
<1>3. CASE of # {}
  <2>1. Max(of) \in of
    <3>1. Len(journal) \in Nat
      BY <1>1
    <3> HIDE DEF of
    <3> QED BY <1>1, <1>3, <3>1, MaxIs
  <2>2. journal[Max(of)] \in JournalRow
    BY <1>1, <2>1
  <2> QED BY <1>3, <2>2 DEF LatestDecision, JournalRow
<1> QED BY <1>2, <1>3

LEMMA RecordReviewKeeps ==
    ASSUME EvidenceInv, NEW id \in MarketBar, NEW d \in Decisions, RecordReview(id, d)
    PROVE  EvidenceInv'
<1> DEFINE row == [event |-> "REVIEWED", id |-> id, material |-> FALSE, decision |-> d,
                   previous |-> LatestDecision(journal, id), sound |-> TRUE]
<1>1. journal' = Append(journal, row) /\ UNCHANGED <<evidence, anomalies, told, writing, ingest>>
  BY DEF RecordReview
<1>2. RowOK(row)
  BY LatestDecisionTyped DEF RowOK, JournalRow
<1> HIDE DEF row
<1> QED BY <1>1, <1>2, RowAdded, WritersAlone

LEMMA ForeignRowKeeps == ASSUME EvidenceInv, NEW id \in MarketBar, ForeignRow(id) PROVE EvidenceInv'
<1>1. UNCHANGED <<evidence, anomalies, told, writing, ingest>>
  BY DEF ForeignRow
<1>2. PICK e \in {"REVISION", "REVIEWED"}, d \in Decisions, p \in Decisions \cup {"NONE"}, sound \in BOOLEAN :
         journal' = Append(journal, [event |-> e, id |-> id, material |-> FALSE,
                         decision |-> IF e = "REVIEWED" THEN d ELSE "NONE", previous |-> p, sound |-> sound])
  BY DEF ForeignRow
<1> DEFINE row == [event |-> e, id |-> id, material |-> FALSE,
                   decision |-> IF e = "REVIEWED" THEN d ELSE "NONE", previous |-> p, sound |-> sound]
<1>3. RowOK(row)
  BY DEF RowOK, JournalRow
<1> HIDE DEF row
<1> QED BY <1>1, <1>2, <1>3, RowAdded, WritersAlone DEF row

LEMMA EvidenceStep == EvidenceInv /\ [EvidenceNext]_evidenceVars => EvidenceInv'
<1> SUFFICES ASSUME EvidenceInv, [EvidenceNext]_evidenceVars PROVE EvidenceInv'
  OBVIOUS
<1>1. CASE \E w \in Writer : \/ Present(w) \/ UnitAlone(w) \/ IngestDone(w) \/ BatchBegin(w) \/ BatchUnit(w)
                             \/ BatchCommit(w) \/ IngestFails(w) \/ Classify(w) \/ JournalRevisions(w)
  BY <1>1, PresentKeeps, UnitAloneKeeps, IngestDoneKeeps, BatchBeginKeeps, BatchUnitKeeps, BatchCommitKeeps,
     IngestFailsKeeps, ClassifyKeeps, JournalRevisionsKeeps
<1>2. CASE \E id \in MarketBar : ForeignRow(id) \/ \E d \in Decisions : RecordReview(id, d)
  BY <1>2, ForeignRowKeeps, RecordReviewKeeps
<1>3. CASE Positions \/ GateReadsEvidence \/ GateReadsTrading
  <2>1. UNCHANGED <<evidence, anomalies, told, writing, ingest, journal>>
    BY <1>3 DEF Positions, GateReadsEvidence, GateReadsTrading
  <2> QED BY <2>1, WritersAlone DEF EvidenceInv
<1>4. CASE UNCHANGED evidenceVars
  BY <1>4, WritersAlone DEF evidenceVars, EvidenceInv
<1> QED BY <1>1, <1>2, <1>3, <1>4 DEF EvidenceNext, MarketBar

\* The inductive invariant: the committed database is sound, and so is the copy that the
\* holder of the write lock works on (ingest, _commit, EvidenceStore.batch).
THEOREM EvidenceInvariant == EvidenceSpec => []EvidenceInv
<1>1. EvidenceInit => EvidenceInv
  BY InitInv
<1>2. EvidenceInv /\ [EvidenceNext]_evidenceVars => EvidenceInv'
  BY EvidenceStep
<1> QED BY <1>1, <1>2, PTL DEF EvidenceSpec

LEMMA SoundIsComplete == EvidenceInv => EvidenceComplete
<1> SUFFICES ASSUME EvidenceInv PROVE EvidenceComplete
  OBVIOUS
<1>1. DbOK(Db) /\ Db.evidence = evidence /\ Db.anomalies = anomalies /\ Db.told = told
  BY DEF EvidenceInv, Db
<1>2. evidence \in Seq(MarketBar) /\ DOMAIN evidence = 1..Len(evidence)
  BY <1>1 DEF DbOK, Dbs
<1>3. \A i, j \in DOMAIN evidence : i < j => evidence[i].start < evidence[j].start
  BY <1>1, <1>2 DEF DbOK, Chronological
<1>4. \A i \in DOMAIN evidence :
         LET gaps == {a \in anomalies : a.kind = "GAP" /\ a.start = evidence[i].start} IN
         IF i > 1 /\ evidence[i].start > evidence[i - 1].start + 1
         THEN {a.after : a \in gaps} = {evidence[i - 1].start} ELSE gaps = {}
  BY <1>1, <1>2 DEF DbOK, GapsNoted, GapsAt, Follows
<1>5. \A b \in told : \/ b \in Range(evidence)
                       \/ \E a \in anomalies : a.kind \in {"LATE", "REVISION"} /\ a.start = b.start /\ a.content = b.content
  BY <1>1, <1>2 DEF DbOK, NoneSilent, AsShown, Refused, Range
<1> QED BY <1>3, <1>4, <1>5 DEF EvidenceComplete

\* Evidence is chronological, every hole has its GAP row and no bar that was dealt with is
\* silent, whatever windows overlapped, failed or were cut short (ingest, _commit).
THEOREM EvidenceCompleteHolds == EvidenceSpec => []EvidenceComplete
<1>1. EvidenceInv => EvidenceComplete
  BY SoundIsComplete
<1> QED BY <1>1, EvidenceInvariant, PTL

-----------------------------------------------------------------------------
\* The gate.

LEMMA ClearIsReviewed == EvidenceInv /\ [EvidenceNext]_evidenceVars => ClearStep
<1> SUFFICES ASSUME EvidenceInv, [EvidenceNext]_evidenceVars,
                    clearance'.status = "CLEAR", clearance.status # "CLEAR", NEW id \in clearance.read
             PROVE  \E i \in DOMAIN journal :
                /\ Classifications(journal, id) = {i} /\ journal[i].sound
                /\ journal[i].material \/ Reviews(journal, id) # {} =>
                     \E j \in Reviews(journal, id) :
                         /\ journal[j].sound /\ journal[j].decision = Final
                         /\ \A k \in Reviews(journal, id) : k <= j
  BY DEF ClearStep
<1>1. GateReadsTrading
  <2>1. ~GateReadsEvidence
    BY DEF GateReadsEvidence
  <2>2. clearance' # clearance
    OBVIOUS
  <2> QED BY <2>1, <2>2 DEF EvidenceNext, evidenceVars, Present, UnitAlone, IngestDone, BatchBegin, BatchUnit,
             BatchCommit, IngestFails, Classify, JournalRevisions, ForeignRow, RecordReview, Positions
<1> DEFINE ids == {journal[i].id : i \in DOMAIN journal}
<1> DEFINE classified == {x \in ids : SoundClass(journal, x) # {}}
<1>2. ~Blocked(clearance.read, journal)
  BY <1>1 DEF GateReadsTrading
<1>3. id \in classified
  BY <1>2 DEF Blocked
<1>4. journal \in Seq(JournalRow) /\ DOMAIN journal = 1..Len(journal) /\ \A i \in 1..Len(journal) : RowOK(journal[i])
  BY DEF EvidenceInv
<1>5. PICK i \in DOMAIN journal : Classifications(journal, id) = {i}
  <2> DEFINE rows == Classifications(journal, id)
  <2>1. rows \in SUBSET (1..Len(journal)) /\ rows # {}
    BY <1>3, <1>4 DEF Classifications, SoundClass
  <2>2. IsFiniteSet(rows)
    BY <1>4, <2>1, FS_Interval, FS_Subset
  <2>3. ~(Cardinality(rows) > 1)
    BY <1>2, <1>3 DEF Blocked
  <2>4. Cardinality(rows) \in Nat /\ Cardinality(rows) # 0
    BY <2>1, <2>2, FS_CardinalityType, FS_EmptySet
  <2>5. Cardinality(rows) = 1
    BY <2>3, <2>4
  <2> HIDE DEF rows
  <2>6. PICK x : rows = {x}
    BY <2>2, <2>5, FS_Singleton
  <2>7. x \in DOMAIN journal
    BY <1>4, <2>1, <2>6
  <2> QED BY <2>6, <2>7 DEF rows
<1>6. SoundClass(journal, id) = {i} /\ journal[i].sound
  BY <1>3, <1>5 DEF SoundClass
<1>7. Min(SoundClass(journal, id)) = i
  <2>1. Min({i}) = i
    BY <1>4, <1>5 DEF Min
  <2> QED BY <1>6, <2>1
<1>8. Effective(journal, id) \notin {"ESCALATED", "INVALID_DECISION"}
  BY <1>2, <1>3 DEF Blocked
<1>9. journal[i].material => Effective(journal, id) # "NONE"
  BY <1>2, <1>3, <1>7 DEF Blocked
<1>10. SUFFICES ASSUME journal[i].material \/ Reviews(journal, id) # {}
                PROVE  \E j \in Reviews(journal, id) :
                         /\ journal[j].sound /\ journal[j].decision = Final
                         /\ \A k \in Reviews(journal, id) : k <= j
  BY <1>5, <1>6
<1> DEFINE of == Reviews(journal, id)
<1>11. of # {}
  BY <1>9, <1>10 DEF Effective
<1>12. of \in SUBSET (1..Len(journal))
  BY <1>4 DEF Reviews
<1>13. Max(of) \in of /\ \A k \in of : k <= Max(of)
  <2>1. Len(journal) \in Nat
    BY <1>4
  <2> HIDE DEF of
  <2> QED BY <1>11, <1>12, <2>1, MaxIs
<1>14. ValidReview(journal, Max(of)) /\ journal[Max(of)].decision # "ESCALATED"
  BY <1>8, <1>11 DEF Effective
<1>15. journal[Max(of)].decision \in Decisions
  BY <1>4, <1>12, <1>13 DEF RowOK, Reviews
<1> QED BY <1>13, <1>14, <1>15 DEF ValidReview, Decisions

\* A CLEAR gate means what the owner reads into it, although its two reads are apart: one sound
\* classification of each revision, and a genuine final decision where one is due (demo_gate).
THEOREM ClearStepHolds == EvidenceSpec => [][ClearStep]_evidenceVars
<1>1. EvidenceInv /\ [EvidenceNext]_evidenceVars => [ClearStep]_evidenceVars
  BY ClearIsReviewed
<1> QED BY <1>1, EvidenceInvariant, PTL DEF EvidenceSpec

-----------------------------------------------------------------------------
\* AiReview: the floor under way.
Floors == [pc : {"idle", "agent", "reviewed", "second", "decide"}, agent : Nat, pass : {1, 2}, base : Base,
            usable : BOOLEAN, got : Seq({"OK", "NO_DATA", "ERROR"}), attempt : Nat, hard : BOOLEAN,
            eligible : BOOLEAN]
Guards == [left : Nat, tripped : BOOLEAN]
Exhausted == guard.left = 0 \/ guard.tripped
\* After a hard failure the guard refuses the rest of the cycle, and an answer is not plain.
HardIsMarked ==
    review.hard /\ review.pc # "idle" =>
        /\ Exhausted
        /\ \/ review.got = <<>> /\ review.pc = "agent"
           \/ \E a \in 1..Len(review.got) : review.got[a] # "OK"
EligibleIsDecided == review.eligible => review.pc = "idle" /\ ~review.hard /\ review.base = "PLAN_READY"
ReviewInv == review \in Floors /\ guard \in Guards /\ HardIsMarked /\ EligibleIsDecided

\* The events of an incident follow each other, the last one is its RECOVERED; q is the queue
\* of the tracker and r the number of incidents that are over.
Events == [event : {"DEGRADED", "FAILED", "RECOVERED"}, incident : Nat]
EndOf(k) == [event |-> "RECOVERED", incident |-> k]
QueueSound(q, r) ==
    /\ \A i \in 1..Len(q) :
          /\ q[i].incident <= r /\ (q[i].event = "RECOVERED" => q[i].incident < r)
          /\ q[i].incident < r => \E m \in i..Len(q) : q[m] = EndOf(q[i].incident)
    /\ \A i, j \in 1..Len(q) : i < j =>
          /\ q[i].incident <= q[j].incident
          /\ q[i].event = "RECOVERED" => q[i].incident < q[j].incident
          /\ q[i].incident < q[j].incident => \E m \in i..j - 1 : q[m] = EndOf(q[i].incident)
\* While a told outage is not over for its reader, its end is under way or still to come.
EndOwed(q, r, k) ==
    /\ k <= r /\ (k < r => \E m \in 1..Len(q) : q[m] = EndOf(k))
    /\ \A j \in 1..Len(q) : k <= q[j].incident /\ (k < q[j].incident => \E m \in 1..j - 1 : q[m] = EndOf(k))
SentSound(q, r, s, known) ==
    /\ \A i \in 1..Len(s) : s[i] \in known
    /\ \A a \in known : a.event = "RECOVERED" => a.incident < r /\ \A j \in 1..Len(q) : a.incident < q[j].incident
    /\ s # <<>> /\ s[Len(s)].event = "FAILED" => EndOf(s[Len(s)].incident) \notin known /\ EndOwed(q, r, s[Len(s)].incident)
    /\ \A i \in 1..Len(s) - 1 : s[i].event = "FAILED" => s[i + 1].event # "FAILED"
Healths == [state : {"UNKNOWN", "READY", "DEGRADED", "FAILED"}, failures : Nat, incident : BOOLEAN,
            recovered : Nat, events : Seq(Events)]
HealthInv ==
    /\ health \in Healths /\ sent \in Seq(Events) /\ alerts \in SUBSET Events
    /\ health.incident <=> health.state \in {"DEGRADED", "FAILED"}
    /\ QueueSound(health.events, health.recovered)
    /\ SentSound(health.events, health.recovered, sent, alerts)

\* A notice is written when the state turns.
NoticeInv ==
    /\ notified \in Seq({"UNHEALTHY", "OK"}) /\ reviewState \in {"UNHEALTHY", "OK"}
    /\ IF notified = <<>> THEN reviewState = "OK" ELSE notified[Len(notified)] = reviewState
    /\ \A i \in 1..Len(notified) - 1 : notified[i] # notified[i + 1]

AiInv == ReviewInv /\ HealthInv /\ NoticeInv

-----------------------------------------------------------------------------
\* Events.

LEMMA EventQueued ==
    ASSUME NEW q \in Seq(Events), NEW r \in Nat, NEW s \in Seq(Events), NEW known \in SUBSET Events,
           QueueSound(q, r), SentSound(q, r, s, known),
           NEW e \in Events, e.incident = r, NEW r1 \in Nat,
           r1 = IF e.event = "RECOVERED" THEN r + 1 ELSE r
    PROVE  QueueSound(Append(q, e), r1) /\ SentSound(Append(q, e), r1, s, known)
<1> DEFINE n == Len(q)
<1> DEFINE p == Append(q, e)
<1>0. /\ n \in Nat /\ Len(p) = n + 1 /\ p[n + 1] = e /\ \A i \in 1..n : p[i] = q[i] /\ q[i] \in Events
      /\ \A i \in 1..n + 1 : i \in 1..n \/ i = n + 1
  OBVIOUS
<1> HIDE DEF p
<1>1. e.event = "RECOVERED" => e = EndOf(r)
  BY DEF Events, EndOf
<1>2. ASSUME NEW i \in 1..n + 1
      PROVE  /\ p[i].incident <= r1 /\ (p[i].event = "RECOVERED" => p[i].incident < r1)
             /\ p[i].incident < r1 => \E m \in i..n + 1 : p[m] = EndOf(p[i].incident)
  <2>1. CASE i = n + 1
    <3>1. p[i] = e
      BY <1>0, <2>1
    <3>2. p[i].incident < r1 => e.event = "RECOVERED"
      BY <3>1
    <3>3. i \in i..n + 1
      BY <1>0, <2>1
    <3> QED BY <1>1, <3>1, <3>2, <3>3
  <2>2. CASE i \in 1..n
    <3>1. p[i] = q[i] /\ q[i].incident \in Nat
      BY <1>0, <2>2 DEF Events
    <3>2. q[i].incident <= r /\ (q[i].event = "RECOVERED" => q[i].incident < r)
      BY <2>2 DEF QueueSound
    <3>3. CASE q[i].incident < r
      <4>1. PICK m \in i..n : q[m] = EndOf(q[i].incident)
        BY <2>2, <3>3 DEF QueueSound
      <4>2. m \in i..n + 1 /\ p[m] = q[m]
        BY <1>0, <2>2
      <4> QED BY <3>1, <3>2, <4>1, <4>2
    <3>4. CASE q[i].incident = r
      <4>1. n + 1 \in i..n + 1
        BY <1>0, <2>2
      <4> QED BY <1>0, <1>1, <3>1, <3>2, <3>4, <4>1
    <3> QED BY <3>1, <3>2, <3>3, <3>4
  <2> QED BY <1>0, <2>1, <2>2
<1>3. ASSUME NEW i \in 1..n + 1, NEW j \in 1..n + 1, i < j
      PROVE  /\ p[i].incident <= p[j].incident
             /\ p[i].event = "RECOVERED" => p[i].incident < p[j].incident
             /\ p[i].incident < p[j].incident => \E m \in i..j - 1 : p[m] = EndOf(p[i].incident)
  <2>1. i \in 1..n /\ p[i] = q[i]
    BY <1>0, <1>3
  <2>2. CASE j = n + 1
    <3>1. p[j] = e /\ j - 1 = n
      BY <1>0, <2>2
    <3>2. /\ q[i].incident <= r /\ (q[i].event = "RECOVERED" => q[i].incident < r)
          /\ q[i].incident < r => \E m \in i..n : q[m] = EndOf(q[i].incident)
      BY <2>1 DEF QueueSound
    <3>3. \A m \in i..n : p[m] = q[m]
      BY <1>0, <2>1
    <3> QED BY <2>1, <3>1, <3>2, <3>3
  <2>3. CASE j \in 1..n
    <3>1. p[j] = q[j] /\ \A m \in i..j - 1 : p[m] = q[m]
      BY <1>0, <2>1, <2>3
    <3> QED BY <1>3, <2>1, <2>3, <3>1 DEF QueueSound
  <2> QED BY <1>0, <2>2, <2>3
<1>4. QueueSound(p, r1)
  BY <1>0, <1>2, <1>3 DEF QueueSound
<1>5. \A a \in known : a.event = "RECOVERED" => a.incident < r1 /\ \A j \in 1..n + 1 : a.incident < p[j].incident
  <2> SUFFICES ASSUME NEW a \in known, a.event = "RECOVERED", NEW j \in 1..n + 1
               PROVE  a.incident < r1 /\ a.incident < p[j].incident
    BY <1>0
  <2>1. a.incident < r /\ (j \in 1..n => a.incident < q[j].incident) /\ a.incident \in Nat
    BY DEF SentSound, Events
  <2> QED BY <1>0, <2>1
<1>6. ASSUME s # <<>>, s[Len(s)].event = "FAILED"
      PROVE  EndOf(s[Len(s)].incident) \notin known /\ EndOwed(p, r1, s[Len(s)].incident)
  <2> DEFINE k == s[Len(s)].incident
  <2>1. EndOf(k) \notin known /\ EndOwed(q, r, k)
    BY <1>6 DEF SentSound
  <2>2. k \in Nat
    <3>1. s[Len(s)] \in Events
      BY <1>6
    <3> QED BY <3>1 DEF Events
  <2> HIDE DEF k
  <2>3. k <= r /\ k <= r1
    BY <2>1, <2>2 DEF EndOwed
  <2>4. k < r1 => \E m \in 1..n + 1 : p[m] = EndOf(k)
    <3>1. CASE k < r
      <4>1. PICK m \in 1..n : q[m] = EndOf(k)
        BY <2>1, <3>1 DEF EndOwed
      <4> QED BY <1>0, <4>1
    <3>2. CASE k = r
      BY <1>0, <1>1, <3>2
    <3> QED BY <2>2, <2>3, <3>1, <3>2
  <2>5. ASSUME NEW j \in 1..n + 1
        PROVE  k <= p[j].incident /\ (k < p[j].incident => \E m \in 1..j - 1 : p[m] = EndOf(k))
    <3>1. CASE j \in 1..n
      <4>1. p[j] = q[j] /\ \A m \in 1..j - 1 : p[m] = q[m]
        BY <1>0, <3>1
      <4> QED BY <2>1, <3>1, <4>1 DEF EndOwed
    <3>2. CASE j = n + 1
      <4>1. p[j] = e /\ j - 1 = n
        BY <1>0, <3>2
      <4>2. k < r => \E m \in 1..n : q[m] = EndOf(k)
        BY <2>1 DEF EndOwed
      <4> QED BY <1>0, <2>3, <4>1, <4>2
    <3> QED BY <1>0, <3>1, <3>2
  <2>6. EndOwed(p, r1, k)
    BY <1>0, <2>3, <2>4, <2>5 DEF EndOwed
  <2> QED BY <2>1, <2>6 DEF k
<1>7. SentSound(p, r1, s, known)
  BY <1>0, <1>5, <1>6 DEF SentSound
<1> QED BY <1>4, <1>7 DEF p

\* The first event leaves the queue and is told or not.
LEMMA EventTaken ==
    ASSUME NEW q \in Seq(Events), NEW r \in Nat, NEW s \in Seq(Events), NEW known \in SUBSET Events,
           QueueSound(q, r), SentSound(q, r, s, known), q # <<>>
    PROVE  /\ QueueSound(Tail(q), r)
           /\ Head(q).event \in {"FAILED", "RECOVERED"} /\ Head(q) \notin known =>
                 SentSound(Tail(q), r, Append(s, Head(q)), known \cup {Head(q)})
           /\ Head(q).event = "DEGRADED" \/ Head(q) \in known => SentSound(Tail(q), r, s, known)
<1> DEFINE n == Len(q) - 1
<1> DEFINE p == Tail(q)
<1> DEFINE e == Head(q)
<1>0. /\ n \in Nat /\ Len(p) = n /\ Len(q) = n + 1 /\ e = q[1] /\ e \in Events /\ p \in Seq(Events)
      /\ \A i \in 1..n : p[i] = q[i + 1] /\ i + 1 \in 1..n + 1 /\ p[i] \in Events
  OBVIOUS
<1> HIDE DEF p, e, n
<1>1. e.incident \in Nat /\ e.event \in {"DEGRADED", "FAILED", "RECOVERED"} /\ 1 \in 1..n + 1
      /\ \A i \in 1..n : p[i].incident \in Nat
  BY <1>0 DEF Events
<1>2. QueueSound(p, r)
  <2>1. ASSUME NEW i \in 1..n
        PROVE  /\ p[i].incident <= r /\ (p[i].event = "RECOVERED" => p[i].incident < r)
               /\ p[i].incident < r => \E m \in i..n : p[m] = EndOf(p[i].incident)
    <3>1. /\ p[i].incident <= r /\ (p[i].event = "RECOVERED" => p[i].incident < r)
          /\ p[i].incident < r => \E m \in i + 1..n + 1 : q[m] = EndOf(p[i].incident)
      BY <1>0 DEF QueueSound
    <3>2. ASSUME NEW m \in i + 1..n + 1 PROVE m - 1 \in i..n /\ p[m - 1] = q[m]
      <4>1. m - 1 \in i..n /\ m - 1 \in 1..n /\ (m - 1) + 1 = m
        BY <1>0
      <4> QED BY <1>0, <4>1
    <3> QED BY <3>1, <3>2
  <2>2. ASSUME NEW i \in 1..n, NEW j \in 1..n, i < j
        PROVE  /\ p[i].incident <= p[j].incident
               /\ p[i].event = "RECOVERED" => p[i].incident < p[j].incident
               /\ p[i].incident < p[j].incident => \E m \in i..j - 1 : p[m] = EndOf(p[i].incident)
    <3>1. i + 1 \in 1..Len(q) /\ j + 1 \in 1..Len(q) /\ i + 1 < j + 1 /\ p[i] = q[i + 1] /\ p[j] = q[j + 1]
      BY <1>0, <2>2
    <3>2. /\ p[i].incident <= p[j].incident
          /\ p[i].event = "RECOVERED" => p[i].incident < p[j].incident
          /\ p[i].incident < p[j].incident => \E m \in i + 1..(j + 1) - 1 : q[m] = EndOf(p[i].incident)
      BY <3>1 DEF QueueSound
    <3>3. ASSUME NEW m \in i + 1..(j + 1) - 1 PROVE m - 1 \in i..j - 1 /\ p[m - 1] = q[m]
      <4>1. m - 1 \in i..j - 1 /\ m - 1 \in 1..n /\ (m - 1) + 1 = m
        BY <1>0
      <4> QED BY <1>0, <4>1
    <3> QED BY <3>2, <3>3
  <2> QED BY <1>0, <2>1, <2>2 DEF QueueSound
\* What the head says of the rest.
<1>3. ASSUME NEW j \in 1..n
      PROVE  /\ e.incident <= p[j].incident /\ (e.event = "RECOVERED" => e.incident < p[j].incident)
             /\ e.incident < p[j].incident => \E m \in 1..j : q[m] = EndOf(e.incident)
  <2>1. j + 1 \in 1..Len(q) /\ 1 < j + 1 /\ p[j] = q[j + 1] /\ 1 \in 1..Len(q)
    BY <1>0, <1>1
  <2>2. /\ e.incident <= p[j].incident /\ (e.event = "RECOVERED" => e.incident < p[j].incident)
        /\ e.incident < p[j].incident => \E m \in 1..(j + 1) - 1 : q[m] = EndOf(e.incident)
    BY <1>0, <2>1 DEF QueueSound
  <2> QED BY <2>2
<1>4. /\ e.incident <= r /\ (e.event = "RECOVERED" => e.incident < r)
      /\ e.incident < r => \E m \in 1..n + 1 : q[m] = EndOf(e.incident)
  BY <1>0, <1>1 DEF QueueSound
\* An end that is in the queue and is not its head stays in it.
<1>5. ASSUME NEW k \in Nat, NEW u \in 0..n, \E m \in 1..u + 1 : q[m] = EndOf(k), e # EndOf(k)
      PROVE  \E m \in 1..u : p[m] = EndOf(k)
  <2>1. PICK m \in 1..u + 1 : q[m] = EndOf(k)
    BY <1>5
  <2>2. m # 1
    BY <1>0, <1>5, <2>1
  <2>3. m - 1 \in 1..u /\ m - 1 \in 1..n /\ (m - 1) + 1 = m
    BY <1>0, <2>2
  <2>4. p[m - 1] = q[m]
    BY <1>0, <2>3
  <2> QED BY <2>1, <2>3, <2>4
<1>6. \A a \in known : a.event = "RECOVERED" => a.incident < r /\ a.incident < e.incident /\ \A j \in 1..n : a.incident < p[j].incident
  BY <1>0, <1>1 DEF SentSound
<1>7. e.event = "RECOVERED" => e \notin known
  BY <1>1, <1>6
<1>8. ASSUME e.event = "DEGRADED" \/ e \in known PROVE SentSound(p, r, s, known)
  <2>1. ASSUME s # <<>>, s[Len(s)].event = "FAILED" PROVE EndOwed(p, r, s[Len(s)].incident)
    <3> DEFINE k == s[Len(s)].incident
    <3>1. k \in Nat /\ EndOwed(q, r, k)
      BY <2>1 DEF SentSound, Events
    <3> HIDE DEF k
    <3>2. e # EndOf(k)
      BY <1>7, <1>8 DEF EndOf
    <3>3. k <= r /\ (k < r => \E m \in 1..n : p[m] = EndOf(k))
      <4>1. k <= r /\ (k < r => \E m \in 1..n + 1 : q[m] = EndOf(k))
        BY <1>0, <3>1 DEF EndOwed
      <4>2. n \in 0..n
        BY <1>0
      <4> QED BY <1>5, <3>1, <3>2, <4>1, <4>2
    <3>4. ASSUME NEW j \in 1..n PROVE k <= p[j].incident /\ (k < p[j].incident => \E m \in 1..j - 1 : p[m] = EndOf(k))
      <4>1. j + 1 \in 1..Len(q) /\ p[j] = q[j + 1]
        BY <1>0
      <4>2. k <= p[j].incident /\ (k < p[j].incident => \E m \in 1..(j + 1) - 1 : q[m] = EndOf(k))
        BY <3>1, <4>1 DEF EndOwed
      <4>3. j - 1 \in 0..n /\ (j + 1) - 1 = (j - 1) + 1
        BY <1>0
      <4> QED BY <1>5, <3>1, <3>2, <4>2, <4>3
    <3>5. EndOwed(p, r, k)
      BY <1>0, <3>3, <3>4 DEF EndOwed
    <3> QED BY <3>5 DEF k
  <2> QED BY <1>0, <1>6, <2>1 DEF SentSound
<1>9. ASSUME e.event \in {"FAILED", "RECOVERED"}, e \notin known
      PROVE  SentSound(p, r, Append(s, e), known \cup {e})
  <2> DEFINE t == Append(s, e)
  <2>0. /\ Len(s) \in Nat /\ Len(t) = Len(s) + 1 /\ t[Len(t)] = e /\ \A i \in 1..Len(s) : t[i] = s[i]
        /\ \A i \in 1..Len(s) + 1 : i \in 1..Len(s) \/ i = Len(s) + 1
    BY <1>0
  <2> HIDE DEF t
  <2>1. \A i \in 1..Len(t) : t[i] \in known \cup {e}
    BY <2>0 DEF SentSound
  <2>2. \A a \in known \cup {e} : a.event = "RECOVERED" => a.incident < r /\ \A j \in 1..n : a.incident < p[j].incident
    BY <1>3, <1>4, <1>6
  <2>3. ASSUME e.event = "FAILED" PROVE EndOf(e.incident) \notin known \cup {e} /\ EndOwed(p, r, e.incident)
    <3>1. e # EndOf(e.incident)
      BY <2>3 DEF EndOf
    <3>2. EndOf(e.incident) \notin known
      BY <1>1, <1>6 DEF EndOf
    <3>3. e.incident < r => \E m \in 1..n : p[m] = EndOf(e.incident)
      <4>1. n \in 0..n
        BY <1>0
      <4> QED BY <1>1, <1>4, <1>5, <3>1, <4>1
    <3>4. ASSUME NEW j \in 1..n, e.incident < p[j].incident PROVE \E m \in 1..j - 1 : p[m] = EndOf(e.incident)
      <4>1. j - 1 \in 0..n /\ j = (j - 1) + 1
        BY <1>0
      <4>2. \E m \in 1..(j - 1) + 1 : q[m] = EndOf(e.incident)
        BY <1>3, <3>4, <4>1
      <4> QED BY <1>1, <1>5, <3>1, <4>1, <4>2
    <3>5. EndOwed(p, r, e.incident)
      BY <1>0, <1>3, <1>4, <3>3, <3>4 DEF EndOwed
    <3> QED BY <3>1, <3>2, <3>5
  <2>4. ASSUME NEW i \in 1..Len(t) - 1, t[i].event = "FAILED" PROVE t[i + 1].event # "FAILED"
    <3>1. CASE i < Len(s)
      <4>1. i \in 1..Len(s) - 1 /\ i \in 1..Len(s) /\ i + 1 \in 1..Len(s)
        BY <2>0, <3>1
      <4> QED BY <2>0, <2>4, <4>1 DEF SentSound
    <3>2. CASE i = Len(s)
      <4> SUFFICES ASSUME e.event = "FAILED" PROVE FALSE
        BY <2>0, <3>2
      <4> DEFINE k == s[Len(s)].incident
      <4>1. s # <<>> /\ s[Len(s)].event = "FAILED" /\ s[Len(s)] \in known /\ s[Len(s)] \in Events
        BY <2>0, <2>4, <3>2 DEF SentSound
      <4>2. EndOwed(q, r, k) /\ k \in Nat
        BY <4>1 DEF SentSound, Events
      <4>3. k # e.incident
        <5> SUFFICES ASSUME k = e.incident PROVE s[Len(s)] = e
          BY <1>9, <4>1
        <5>1. \A x, y \in Events : x.event = y.event /\ x.incident = y.incident => x = y
          BY DEF Events
        <5> QED BY <1>0, <4>1, <5>1
      <4> HIDE DEF k
      <4>4. k <= e.incident /\ (k < e.incident => \E m \in 1..1 - 1 : q[m] = EndOf(k))
        BY <1>0, <1>1, <4>2 DEF EndOwed
      <4> QED BY <1>1, <4>2, <4>3, <4>4
    <3> QED BY <2>0, <3>1, <3>2
  <2>5. t # <<>>
    BY <2>0
  <2>6. SentSound(p, r, t, known \cup {e})
    BY <1>0, <2>0, <2>1, <2>2, <2>3, <2>4 DEF SentSound
  <2> QED BY <2>6 DEF t
<1> QED BY <1>2, <1>8, <1>9 DEF p, e

\* ProviderHealthTracker.observe keeps the queue sound.
LEMMA ObserveKeeps ==
    ASSUME HealthInv, NEW o \in Answers \cup Failures, health' = Observe(health, o), UNCHANGED <<alerts, sent>>
    PROVE  HealthInv'
<1> DEFINE q == health.events
<1> DEFINE r == health.recovered
<1>0. /\ health \in Healths /\ q \in Seq(Events) /\ r \in Nat /\ health.failures \in Nat /\ sent \in Seq(Events)
      /\ alerts \in SUBSET Events /\ QueueSound(q, r) /\ SentSound(q, r, sent, alerts)
      /\ health.incident \in BOOLEAN /\ (health.incident <=> health.state \in {"DEGRADED", "FAILED"})
  BY DEF HealthInv, Healths
<1>1. CASE o \in Answers
  <2>1. health' = [health EXCEPT !.state = "READY", !.failures = 0, !.incident = FALSE,
                   !.recovered = IF health.incident THEN @ + 1 ELSE @,
                   !.events = IF health.state \in {"DEGRADED", "FAILED"}
                              THEN Append(@, [event |-> "RECOVERED", incident |-> health.recovered]) ELSE @]
    BY <1>1 DEF Observe
  <2>2. CASE health.incident
    <3> DEFINE e == EndOf(r)
    <3>1. e \in Events /\ e.incident = r /\ e.event = "RECOVERED" /\ r + 1 \in Nat
      BY <1>0 DEF Events, EndOf
    <3>2. /\ health'.events = Append(q, e) /\ health'.recovered = r + 1 /\ health'.state = "READY"
          /\ health'.incident = FALSE /\ health' \in Healths
      <4>1. health' = [state |-> "READY", failures |-> 0, incident |-> FALSE, recovered |-> r + 1,
                       events |-> Append(q, e)]
        BY <1>0, <2>1, <2>2 DEF Healths, EndOf
      <4>2. Append(q, e) \in Seq(Events)
        BY <1>0, <3>1
      <4> HIDE DEF q, e, r
      <4> QED BY <3>1, <4>1, <4>2 DEF Healths
    <3> HIDE DEF e, q, r
    <3>3. QueueSound(Append(q, e), r + 1) /\ SentSound(Append(q, e), r + 1, sent, alerts)
      BY <1>0, <3>1, EventQueued
    <3> QED BY <1>0, <3>2, <3>3 DEF HealthInv
  <2>3. CASE ~health.incident
    <3>1. /\ health'.events = q /\ health'.recovered = r /\ health'.state = "READY"
          /\ health'.incident = FALSE /\ health' \in Healths
      <4>1. health.state \notin {"DEGRADED", "FAILED"}
        BY <1>0, <2>3
      <4>2. health' = [state |-> "READY", failures |-> 0, incident |-> FALSE, recovered |-> r, events |-> q]
        BY <1>0, <2>1, <2>3, <4>1 DEF Healths
      <4> HIDE DEF q, r
      <4> QED BY <1>0, <4>2 DEF Healths
    <3> QED BY <1>0, <3>1 DEF HealthInv
  <2> QED BY <2>2, <2>3
<1>2. CASE o \notin Answers
  <2> DEFINE state == IF Failed(health, o) THEN "FAILED" ELSE "DEGRADED"
  <2>1. health' = [health EXCEPT !.state = state, !.failures = @ + 1, !.incident = TRUE,
                   !.events = IF health.state = state THEN @
                              ELSE Append(@, [event |-> state, incident |-> health.recovered])]
    BY <1>2 DEF Observe
  <2>2. state \in {"DEGRADED", "FAILED"}
    OBVIOUS
  <2> HIDE DEF state
  <2>3. CASE health.state # state
    <3> DEFINE e == [event |-> state, incident |-> r]
    <3>1. e \in Events /\ e.incident = r /\ e.event # "RECOVERED"
      BY <1>0, <2>2 DEF Events
    <3>2. /\ health'.events = Append(q, e) /\ health'.recovered = r /\ health'.state = state
          /\ health'.incident = TRUE /\ health' \in Healths
      <4>1. health' = [state |-> state, failures |-> health.failures + 1, incident |-> TRUE, recovered |-> r,
                       events |-> Append(q, e)]
        BY <1>0, <2>1, <2>3 DEF Healths
      <4>2. Append(q, e) \in Seq(Events) /\ health.failures + 1 \in Nat
        BY <1>0, <3>1
      <4> HIDE DEF q, e, r
      <4> QED BY <1>0, <2>2, <4>1, <4>2 DEF Healths
    <3> HIDE DEF e, q, r
    <3>3. QueueSound(Append(q, e), r) /\ SentSound(Append(q, e), r, sent, alerts)
      BY <1>0, <3>1, EventQueued
    <3> QED BY <1>0, <2>2, <3>2, <3>3 DEF HealthInv
  <2>4. CASE health.state = state
    <3>1. /\ health'.events = q /\ health'.recovered = r /\ health'.state = state
          /\ health'.incident = TRUE /\ health' \in Healths
      <4>1. health' = [state |-> state, failures |-> health.failures + 1, incident |-> TRUE, recovered |-> r,
                       events |-> q]
        BY <1>0, <2>1, <2>4 DEF Healths
      <4>2. health.failures + 1 \in Nat
        BY <1>0
      <4> HIDE DEF q, r
      <4> QED BY <1>0, <2>2, <4>1, <4>2 DEF Healths
    <3> QED BY <1>0, <2>2, <3>1 DEF HealthInv
  <2> QED BY <2>3, <2>4
<1> QED BY <1>1, <1>2

-----------------------------------------------------------------------------
\* The floor.

\* The result of a call: not plain once the guard is used up.
LEMMA GotKeeps ==
    ASSUME ReviewInv, review.pc = "agent", NEW status \in {"OK", "NO_DATA", "ERROR"}, Got(status), guard' \in Guards,
           Exhausted => Exhausted' /\ status # "OK", Exhausted' => status # "OK"
    PROVE  ReviewInv'
<1> DEFINE hard == review.hard \/ guard'.left = 0 \/ guard'.tripped
<1> DEFINE r == [review EXCEPT !.got = Append(@, status), !.agent = @ + 1, !.attempt = 1, !.hard = hard]
<1>0. review \in Floors /\ guard \in Guards /\ ~review.eligible /\ hard \in BOOLEAN
  BY DEF ReviewInv, EligibleIsDecided, Floors, Guards
<1>1. review' = [r EXCEPT !.pc = IF AllDone(r) THEN "reviewed" ELSE "agent"]
  BY <1>0 DEF Got, Floors
<1> HIDE DEF hard
<1>2. r \in Floors /\ r.got = Append(review.got, status) /\ r.hard = hard /\ ~r.eligible
  <2>1. Append(review.got, status) \in Seq({"OK", "NO_DATA", "ERROR"}) /\ review.agent + 1 \in Nat
    BY <1>0 DEF Floors
  <2> DEFINE g == [review EXCEPT !.got = Append(@, status)]
  <2> DEFINE n == [g EXCEPT !.agent = @ + 1]
  <2> DEFINE a == [n EXCEPT !.attempt = 1]
  <2>2. g \in Floors /\ g.got = Append(review.got, status) /\ g.agent = review.agent /\ ~g.eligible
    BY <1>0, <2>1 DEF Floors
  <2>3. r = [a EXCEPT !.hard = hard]
    OBVIOUS
  <2> HIDE DEF g, r
  <2>4. n \in Floors /\ n.got = Append(review.got, status) /\ ~n.eligible
    BY <2>1, <2>2 DEF Floors
  <2> HIDE DEF n
  <2>5. a \in Floors /\ a.got = Append(review.got, status) /\ ~a.eligible
    BY <2>4 DEF Floors
  <2> HIDE DEF a
  <2> QED BY <1>0, <2>3, <2>5 DEF Floors
<1> HIDE DEF r
<1>3. review' \in Floors /\ review'.got = Append(review.got, status) /\ review'.hard = hard /\ ~review'.eligible
  BY <1>1, <1>2 DEF Floors
<1>4. ASSUME review'.hard PROVE Exhausted' /\ \E a \in 1..Len(review'.got) : review'.got[a] # "OK"
  <2>1. Exhausted'
    BY <1>3, <1>4 DEF hard, Exhausted, ReviewInv, HardIsMarked
  <2>2. review.got \in Seq({"OK", "NO_DATA", "ERROR"})
    BY <1>0 DEF Floors
  <2>3. Len(review'.got) \in 1..Len(review'.got) /\ review'.got[Len(review'.got)] = status
    BY <1>3, <2>2
  <2> QED BY <2>1, <2>3
<1> QED BY <1>3, <1>4 DEF ReviewInv, HardIsMarked, EligibleIsDecided

\* The control of a review goes on with the same answers under the same guard.
LEMMA SameAnswers ==
    ASSUME ReviewInv, review' \in Floors, UNCHANGED guard, ~review'.eligible, review.pc # "idle",
           review'.hard = review.hard,
           \/ review'.got = review.got /\ review.pc \in {"reviewed", "second"}
           \/ review'.got = <<>> /\ review'.pc = "agent"
    PROVE  ReviewInv'
BY DEF ReviewInv, HardIsMarked, EligibleIsDecided, Exhausted

LEMMA BegunReview ==
    /\ NoReview \in Floors /\ ~NoReview.eligible /\ ~NoReview.hard /\ NoReview.pc = "idle"
    /\ [left |-> Budget, tripped |-> FALSE] \in Guards
BY AiAssumption DEF NoReview, Floors, Base, Guards

\* A notice is written when the state turns, or nothing changes.
LEMMA NoteKeeps == ASSUME NoticeInv, NEW bad \in BOOLEAN, Note(bad) PROVE NoticeInv'
<1> DEFINE state == IF bad THEN "UNHEALTHY" ELSE "OK"
<1>1. CASE UNCHANGED <<reviewState, notified>>
  BY <1>1 DEF NoticeInv
<1>2. CASE /\ bad # (reviewState = "UNHEALTHY") /\ reviewState' = state /\ notified' = Append(notified, reviewState')
  <2>0. notified \in Seq({"UNHEALTHY", "OK"}) /\ reviewState \in {"UNHEALTHY", "OK"} /\ state \in {"UNHEALTHY", "OK"}
        /\ Len(notified) \in Nat
    BY DEF NoticeInv
  <2>1. reviewState # state
    BY <1>2, <2>0
  <2>2. /\ notified' \in Seq({"UNHEALTHY", "OK"}) /\ Len(notified') = Len(notified) + 1
        /\ notified'[Len(notified')] = state /\ \A i \in 1..Len(notified) : notified'[i] = notified[i]
    BY <1>2, <2>0
  <2>3. ASSUME NEW i \in 1..Len(notified') - 1 PROVE notified'[i] # notified'[i + 1]
    <3>1. CASE i < Len(notified)
      <4>1. i \in 1..Len(notified) - 1 /\ i \in 1..Len(notified) /\ i + 1 \in 1..Len(notified)
        BY <2>0, <2>2, <3>1
      <4> QED BY <2>2, <4>1 DEF NoticeInv
    <3>2. CASE i = Len(notified)
      <4>1. notified # <<>> /\ i \in 1..Len(notified)
        BY <2>0, <2>2, <3>2
      <4>2. notified[i] = reviewState
        BY <3>2, <4>1 DEF NoticeInv
      <4> QED BY <2>1, <2>2, <3>2, <4>1, <4>2
    <3> QED BY <2>0, <2>2, <3>1, <3>2
  <2>4. notified' # <<>>
    BY <2>0, <2>2
  <2> HIDE DEF state
  <2> QED BY <1>2, <2>0, <2>2, <2>3, <2>4 DEF NoticeInv
<1> QED BY <1>1, <1>2 DEF Note

LEMMA AiInitInv == AiInit => AiInv
<1> SUFFICES ASSUME AiInit PROVE AiInv
  OBVIOUS
<1>0. <<>> \in Seq(Events) /\ <<>> \in Seq({"UNHEALTHY", "OK"}) /\ Len(<<>>) = 0
  OBVIOUS
<1>1. ReviewInv
  BY BegunReview DEF AiInit, ReviewInv, HardIsMarked, EligibleIsDecided
<1>2. HealthInv
  <2>1. health \in Healths /\ health.events = <<>> /\ health.state = "UNKNOWN" /\ health.incident = FALSE
    BY <1>0 DEF AiInit, Healths
  <2> QED BY <1>0, <2>1 DEF AiInit, HealthInv, QueueSound, SentSound
<1>3. NoticeInv
  BY <1>0 DEF AiInit, NoticeInv
<1> QED BY <1>1, <1>2, <1>3 DEF AiInv

LEMMA AiStep == AiInv /\ [AiNext]_aiVars => AiInv'
<1> SUFFICES ASSUME AiInv, [AiNext]_aiVars PROVE AiInv'
  OBVIOUS
<1>0. ReviewInv /\ HealthInv /\ NoticeInv /\ review \in Floors /\ guard \in Guards
  BY DEF AiInv, ReviewInv
<1>h. UNCHANGED <<health, alerts, sent>> => HealthInv'
  BY <1>0 DEF HealthInv
<1>n. UNCHANGED <<reviewState, notified>> => NoticeInv'
  BY <1>0 DEF NoticeInv
<1>r. UNCHANGED <<review, guard>> => ReviewInv'
  BY <1>0 DEF ReviewInv, HardIsMarked, EligibleIsDecided, Exhausted
<1>1. CASE BeginCycle
  <2>1. ReviewInv'
    <3>1. PICK base \in Base, usable \in BOOLEAN :
              review' = [NoReview EXCEPT !.pc = "agent", !.base = base, !.usable = usable]
      BY <1>1 DEF BeginCycle
    <3>2. review' \in Floors /\ ~review'.hard /\ ~review'.eligible
      BY <3>1, BegunReview DEF Floors
    <3>3. guard' \in Guards
      BY <1>1, BegunReview DEF BeginCycle
    <3> QED BY <3>2, <3>3 DEF ReviewInv, HardIsMarked, EligibleIsDecided
  <2> QED BY <1>1, <1>h, <1>n, <2>1 DEF BeginCycle, AiInv
<1>2. CASE SkipAgent
  <2>1. ReviewInv'
    <3>1. Exhausted' <=> Exhausted
      BY <1>2 DEF SkipAgent, Exhausted
    <3>2. guard' \in Guards /\ review.pc = "agent" /\ Got("NO_DATA")
      BY <1>0, <1>2 DEF SkipAgent
    <3> QED BY <1>0, <3>1, <3>2, GotKeeps
  <2> QED BY <1>2, <1>h, <1>n, <2>1 DEF SkipAgent, AiInv
<1>3. CASE GuardRefuses
  <2>1. ReviewInv'
    <3>1. Exhausted' <=> Exhausted
      BY <1>3 DEF GuardRefuses, Exhausted
    <3>2. guard' \in Guards /\ review.pc = "agent" /\ Got("ERROR")
      BY <1>0, <1>3 DEF GuardRefuses
    <3> QED BY <1>0, <3>1, <3>2, GotKeeps
  <2> QED BY <1>3, <1>h, <1>n, <2>1 DEF GuardRefuses, AiInv
<1>4. CASE MacroUnhealthy
  <2>1. ReviewInv'
    <3>1. guard' = guard /\ review.pc = "reviewed"
      BY <1>4 DEF MacroUnhealthy
    <3>2. CASE \E base \in Base : review' = [NoReview EXCEPT !.pc = "agent", !.base = base, !.usable = TRUE, !.pass = 2,
                                                 !.hard = review.hard]
      <4>1. review' \in Floors /\ ~review'.eligible /\ review'.hard = review.hard /\ review'.got = <<>> /\ review'.pc = "agent"
        <5>1. review.hard \in BOOLEAN
          BY <1>0 DEF Floors
        <5>2. PICK base \in Base : review' = [NoReview EXCEPT !.pc = "agent", !.base = base, !.usable = TRUE, !.pass = 2,
                                                 !.hard = review.hard]
          BY <3>2
        <5>3. NoReview.got = <<>>
          BY DEF NoReview
        <5> QED BY <5>1, <5>2, <5>3, BegunReview DEF Floors
      <4> QED BY <1>0, <3>1, <4>1, SameAnswers
    <3>3. CASE review' = [review EXCEPT !.pc = "second"]
      <4>1. review' \in Floors /\ ~review'.eligible /\ review'.hard = review.hard /\ review'.got = review.got
        <5>1. ~review.eligible
          BY <1>0, <3>1 DEF ReviewInv, EligibleIsDecided
        <5> QED BY <1>0, <3>3, <5>1 DEF Floors
      <4> QED BY <1>0, <3>1, <4>1, SameAnswers
    <3> QED BY <1>4, <3>2, <3>3 DEF MacroUnhealthy
  <2>2. NoticeInv'
    BY <1>0, <1>4, NoteKeeps DEF MacroUnhealthy
  <2> QED BY <1>4, <1>h, <2>1, <2>2 DEF MacroUnhealthy, AiInv
<1>5. CASE MacroKnown
  <2>1. ReviewInv'
    <3>1. guard' = guard /\ review.pc \in {"reviewed", "second"} /\ review' = [review EXCEPT !.pc = "decide"]
      BY <1>5 DEF MacroKnown
    <3>2. review' \in Floors /\ ~review'.eligible /\ review'.hard = review.hard /\ review'.got = review.got
      <4>1. ~review.eligible
        BY <1>0, <3>1 DEF ReviewInv, EligibleIsDecided
      <4> QED BY <1>0, <3>1, <4>1 DEF Floors
    <3> QED BY <1>0, <3>1, <3>2, SameAnswers
  <2>2. NoticeInv'
    <3>1. (Macro(review) # "OK") \in BOOLEAN
      OBVIOUS
    <3> QED BY <1>0, <1>5, <1>n, <3>1, NoteKeeps DEF MacroKnown
  <2> QED BY <1>5, <1>h, <2>1, <2>2 DEF MacroKnown, AiInv
<1>6. CASE TellEvent
  <2> DEFINE q == health.events
  <2> DEFINE r == health.recovered
  <2> DEFINE e == Head(q)
  <2>0. /\ q \in Seq(Events) /\ q # <<>> /\ r \in Nat /\ sent \in Seq(Events) /\ alerts \in SUBSET Events
        /\ QueueSound(q, r) /\ SentSound(q, r, sent, alerts) /\ e \in Events
        /\ e.event \in {"DEGRADED", "FAILED", "RECOVERED"}
    <3>1. q \in Seq(Events) /\ q # <<>> /\ r \in Nat
      BY <1>0, <1>6 DEF TellEvent, HealthInv, Healths
    <3>2. e \in Events
      BY <3>1
    <3>3. e.event \in {"DEGRADED", "FAILED", "RECOVERED"}
      BY <3>2 DEF Events
    <3> QED BY <1>0, <3>1, <3>2, <3>3 DEF HealthInv
  <2>1. /\ health' = [health EXCEPT !.events = Tail(q)] /\ health' \in Healths /\ health'.events = Tail(q)
        /\ health'.recovered = r /\ health'.incident = health.incident /\ health'.state = health.state
    <3>1. health' = [health EXCEPT !.events = Tail(q)] /\ health \in Healths
      BY <1>0, <1>6 DEF TellEvent, HealthInv
    <3>2. Tail(q) \in Seq(Events)
      BY <2>0
    <3> HIDE DEF q
    <3>3. health' = [state |-> health.state, failures |-> health.failures, incident |-> health.incident,
                     recovered |-> health.recovered, events |-> Tail(q)]
      BY <3>1 DEF Healths
    <3> QED BY <3>1, <3>2, <3>3 DEF Healths
  <2>2. /\ QueueSound(Tail(q), r)
        /\ e.event \in {"FAILED", "RECOVERED"} /\ e \notin alerts => SentSound(Tail(q), r, Append(sent, e), alerts \cup {e})
        /\ e.event = "DEGRADED" \/ e \in alerts => SentSound(Tail(q), r, sent, alerts)
    <3> HIDE DEF q, r
    <3> QED BY <2>0, EventTaken
  <2>3. CASE e.event \in {"FAILED", "RECOVERED"} /\ e \notin alerts
    <3>1. sent' = Append(sent, e) /\ alerts' = alerts \cup {e}
      BY <1>6, <2>3 DEF TellEvent
    <3>2. sent' \in Seq(Events) /\ alerts' \in SUBSET Events
      BY <2>0, <3>1
    <3> HIDE DEF q, r, e
    <3>3. HealthInv'
      BY <1>0, <2>1, <2>2, <2>3, <3>1, <3>2 DEF HealthInv
    <3> QED BY <1>6, <1>n, <1>r, <3>3 DEF TellEvent, AiInv
  <2>4. CASE ~(e.event \in {"FAILED", "RECOVERED"} /\ e \notin alerts)
    <3>1. UNCHANGED <<sent, alerts>>
      BY <1>6, <2>4 DEF TellEvent
    <3>2. e.event = "DEGRADED" \/ e \in alerts
      BY <2>0, <2>4
    <3> HIDE DEF q, r, e
    <3>3. HealthInv'
      BY <1>0, <2>1, <2>2, <3>1, <3>2 DEF HealthInv
    <3> QED BY <1>6, <1>n, <1>r, <3>3 DEF TellEvent, AiInv
  <2> QED BY <2>3, <2>4
<1>7. CASE Decide
  <2>1. ReviewInv'
    <3>1. PICK objects \in BOOLEAN :
              review' = [NoReview EXCEPT !.base = review.base, !.hard = review.hard, !.eligible = PaperPolicy(review, objects)]
      BY <1>7 DEF Decide
    <3>2. PaperPolicy(review, objects) \in BOOLEAN /\ review.base \in Base /\ review.hard \in BOOLEAN
      BY <1>0 DEF PaperPolicy, Floors
    <3>3. /\ review' \in Floors /\ review'.pc = "idle" /\ review'.base = review.base /\ review'.hard = review.hard
          /\ review'.eligible = PaperPolicy(review, objects)
      BY <3>1, <3>2, BegunReview DEF Floors
    <3>4. ASSUME PaperPolicy(review, objects) PROVE ~review.hard /\ review.base = "PLAN_READY"
      <4>1. /\ FinalStatus(review, objects) = "PLAN_READY"
            /\ Len(review.got) = 5 /\ \A a \in 1..5 : review.got[a] = "OK"
        BY <3>4 DEF PaperPolicy
      <4>2. review.base = "PLAN_READY"
        BY <4>1 DEF FinalStatus
      <4>3. review.pc = "decide"
        BY <1>7 DEF Decide
      <4>4. ~review.hard
        BY <1>0, <4>1, <4>3 DEF ReviewInv, HardIsMarked
      <4> QED BY <4>2, <4>4
    <3>5. guard' \in Guards
      BY <1>0, <1>7 DEF Decide
    <3> QED BY <3>3, <3>4, <3>5 DEF ReviewInv, HardIsMarked, EligibleIsDecided
  <2> QED BY <1>7, <1>h, <1>n, <2>1 DEF Decide, AiInv
<1>8. CASE Restart
  <2>1. ReviewInv'
    BY <1>8, BegunReview DEF Restart, ReviewInv, HardIsMarked, EligibleIsDecided
  <2>2. HealthInv'
    <3>0. <<>> \in Seq(Events) /\ Len(<<>>) = 0
      OBVIOUS
    <3>1. /\ health' \in Healths /\ health'.events = <<>> /\ health'.state = "UNKNOWN" /\ health'.incident = FALSE
          /\ sent' = <<>> /\ alerts' = {}
      BY <1>8, <3>0 DEF Restart, Healths
    <3> QED BY <3>0, <3>1 DEF HealthInv, QueueSound, SentSound
  <2> QED BY <1>8, <1>n, <2>1, <2>2 DEF Restart, AiInv
<1>9. ASSUME NEW d \in 0..MaxTake, NEW a \in Answers, Answered(a, d) PROVE AiInv'
  <2> DEFINE status == IF guard'.left = 0 THEN "ERROR" ELSE Status(a)
  <2>1. /\ review.pc = "agent" /\ ~guard.tripped /\ guard.left > 0 /\ guard' = [guard EXCEPT !.left = Less(d)]
        /\ health' = Observe(health, a) /\ Got(status) /\ UNCHANGED <<alerts, sent, reviewState, notified>>
    BY <1>9 DEF Answered
  <2>2. guard' \in Guards /\ guard'.tripped = FALSE
    BY <1>0, <2>1, AiAssumption DEF Guards, Less
  <2>3. status \in {"OK", "NO_DATA", "ERROR"}
    BY DEF Status, Answers
  <2>4. ~Exhausted /\ (Exhausted' => status # "OK")
    BY <1>0, <2>1, <2>2 DEF Exhausted, Guards
  <2> HIDE DEF status
  <2>5. ReviewInv'
    BY <1>0, <2>1, <2>2, <2>3, <2>4, GotKeeps
  <2>6. HealthInv'
    BY <1>0, <2>1, ObserveKeeps
  <2> QED BY <1>n, <2>1, <2>5, <2>6 DEF AiInv
<1>10. ASSUME NEW d \in 0..MaxTake, NEW k \in Failures, Fails(k, d) PROVE AiInv'
  <2>0. review.pc = "agent" /\ ~guard.tripped /\ guard.left > 0 /\ UNCHANGED <<alerts, sent, reviewState, notified>>
    BY <1>10 DEF Fails
  <2>1. CASE k \in Transient /\ review.attempt <= Retries /\ Less(d + 1) > 0
    <3>1. PICK jitter \in 0..1 : guard' = [guard EXCEPT !.left = Less(d + 1 + jitter)]
      BY <1>10, <2>1 DEF Fails
    <3>2. review' = [review EXCEPT !.attempt = @ + 1] /\ health' = health
      BY <1>10, <2>1 DEF Fails
    <3>3. guard' \in Guards
      BY <1>0, <3>1, AiAssumption DEF Guards, Less
    <3>4. ~Exhausted
      BY <1>0, <2>0 DEF Exhausted, Guards
    <3>5. ~review.hard /\ ~review.eligible
      BY <1>0, <2>0, <3>4 DEF ReviewInv, HardIsMarked, EligibleIsDecided
    <3>6. review' \in Floors /\ ~review'.hard /\ ~review'.eligible
      BY <1>0, <3>2, <3>5 DEF Floors
    <3>7. ReviewInv'
      BY <3>3, <3>6 DEF ReviewInv, HardIsMarked, EligibleIsDecided
    <3> QED BY <1>h, <1>n, <2>0, <3>2, <3>7 DEF AiInv
  <2>2. CASE ~(k \in Transient /\ review.attempt <= Retries /\ Less(d + 1) > 0)
    <3>1. /\ guard' = [left |-> Less(d), tripped |-> guard.tripped \/ k \in NonTransient]
          /\ health' = Observe(health, k) /\ Got("ERROR")
      BY <1>10, <2>2 DEF Fails
    <3>2. guard' \in Guards
      BY <1>0, <2>0, <3>1, AiAssumption DEF Guards, Less
    <3>3. ~Exhausted
      BY <1>0, <2>0 DEF Exhausted, Guards
    <3>4. ReviewInv'
      BY <1>0, <2>0, <3>1, <3>2, <3>3, GotKeeps
    <3>5. HealthInv'
      BY <1>0, <2>0, <3>1, ObserveKeeps
    <3> QED BY <1>n, <2>0, <3>4, <3>5 DEF AiInv
  <2> QED BY <2>1, <2>2
<1>11. CASE UNCHANGED aiVars
  BY <1>11, <1>h, <1>n, <1>r DEF aiVars, AiInv
<1> QED BY <1>1, <1>2, <1>3, <1>4, <1>5, <1>6, <1>7, <1>8, <1>9, <1>10, <1>11 DEF AiNext

\* The inductive invariant: what the guard has refused, the queue of the tracker's events, the
\* alerts that were sent and the notices.
THEOREM AiInvariant == AiSpec => []AiInv
<1>1. AiInit => AiInv
  BY AiInitInv
<1>2. AiInv /\ [AiNext]_aiVars => AiInv'
  BY AiStep
<1> QED BY <1>1, <1>2, PTL DEF AiSpec

LEMMA InvIsKept == AiInv => ReviewKept
<1> SUFFICES ASSUME AiInv PROVE ReviewKept
  OBVIOUS
<1>1. EligibleIsReviewed
  BY DEF AiInv, ReviewInv, EligibleIsDecided, EligibleIsReviewed
<1>2. Alternates(notified, "UNHEALTHY") /\ Alternates(notified, "OK")
  BY DEF AiInv, NoticeInv, Alternates
<1>3. Alternates([i \in DOMAIN sent |-> sent[i].event], "FAILED")
  <2> DEFINE t == [i \in DOMAIN sent |-> sent[i].event]
  <2>1. sent \in Seq(Events) /\ \A i \in 1..Len(sent) - 1 : sent[i].event = "FAILED" => sent[i + 1].event # "FAILED"
    BY DEF AiInv, HealthInv, SentSound
  <2>2. DOMAIN sent = 1..Len(sent) /\ Len(sent) \in Nat
    BY <2>1
  <2>3. Len(t) = Len(sent)
    BY <2>2
  <2>4. \A i \in 1..Len(sent) - 1 : i \in 1..Len(sent) /\ i + 1 \in 1..Len(sent)
    BY <2>2
  <2> QED BY <2>1, <2>2, <2>3, <2>4 DEF Alternates
<1> QED BY <1>1, <1>2, <1>3 DEF ReviewKept, OutageToldOnce

\* An AI review that makes a cycle eligible was complete and within its budget, and an outage of
\* the provider and its end are told once, for any budget, retries and threshold.
THEOREM ReviewKeptHolds == AiSpec => []ReviewKept
<1>1. AiInv => ReviewKept
  BY InvIsKept
<1> QED BY <1>1, AiInvariant, PTL

-----------------------------------------------------------------------------
\* DemoReadCache: reads, the caches and the threads.
ReadResults == [usable : BOOLEAN, stale : BOOLEAN, read : Int, closed : SUBSET Trade, open : SUBSET Trade,
                asked : SUBSET Trade]
CacheEntries == [at : Int, result : ReadResults]
CacheStates == [entry : SUBSET CacheEntries, good : SUBSET CacheEntries, inflight : BOOLEAN, lastOk : BOOLEAN]
ReadThreads == [pc : {"idle", "off", "loop", "view", "sleep", "closed", "open", "summary", "waiting", "woken"},
                c : Caches, until : Int, closed : SUBSET Trade, asked : SUBSET Trade]
DemoTypes ==
    /\ clock \in Nat /\ broker \in [Trade -> {"none", "open", "closed"}]
    /\ cache \in [Caches -> CacheStates] /\ thread \in [Threads -> ReadThreads]
    /\ ends \in Int \X Int

\* One refresh of a cache; whoever waits, waits for it.
ReadingPc == {"closed", "open", "summary"}
Reading(t, c) == thread[t].c = c /\ thread[t].pc \in ReadingPc
ReadsOK ==
    /\ \A t, u \in Threads : \A c \in Caches : Reading(t, c) /\ Reading(u, c) => t = u
    /\ \A c \in Caches : cache[c].inflight <=> \E t \in Threads : Reading(t, c)
    /\ \A t \in Threads :
          /\ thread[t].pc = "waiting" => cache[thread[t].c].inflight
          /\ thread[t].pc \in {"closed", "open"} => thread[t].c = Trades /\ thread[t].until - Deadline <= clock
          /\ thread[t].pc = "summary" => thread[t].c = Views
          /\ thread[t].closed \subseteq In("closed")

\* An entry says whether the last refresh failed; a fallback is the last good read.
Counted(r) == r.closed \cap r.open = {}
EntriesOK ==
    \A c \in Caches :
       /\ \A e, f \in cache[c].entry : e = f
       /\ \A g, h \in cache[c].good : g = h
       /\ \A e \in cache[c].entry :
             /\ Counted(e.result)
             /\ e.result.usable => (e.result.stale <=> ~cache[c].lastOk)
             /\ e.result.stale => \A g \in cache[c].good : e.result.read = g.at
       /\ \A g \in cache[c].good :
             Counted(g.result) /\ g.result.usable /\ ~g.result.stale /\ g.result.read = g.at

\* Refreshes of the trades are apart: one begins a failure period after the last one ended, or
\* finds only a fallback that is too old, and then it cannot end in a fallback again.
TooOld(now) == \A g \in cache[Trades].good : now - g.at > StaleMax
PaceOK ==
    /\ ends[1] <= ends[2] /\ ends[2] <= clock
    /\ cache[Trades].entry = {} => ends = <<-FailureTtl, -FailureTtl>>
    /\ \A e \in cache[Trades].entry :
          /\ e.at + Ttl >= ends[2] + FailureTtl
          /\ e.result.stale => ends[2] - ends[1] >= FailureTtl
    /\ \A t \in Threads : Reading(t, Trades) =>
          /\ thread[t].until - Deadline - ends[1] >= FailureTtl
          /\ thread[t].until - Deadline - ends[2] >= FailureTtl \/ TooOld(thread[t].until - Deadline)

HandOK(h) ==
    /\ Counted(h.result)
    /\ h.result.usable =>
          /\ h.result.stale <=> ~h.lastOk
          /\ h.c = Trades /\ h.result.stale /\ ~h.waited => clock - h.result.read <= StaleMax
HandedOK == \A h \in handed : HandOK(h)

DemoInv == DemoTypes /\ ReadsOK /\ EntriesOK /\ PaceOK /\ HandedOK

LEMMA Constants == /\ Ttl \in Nat /\ FailureTtl \in Nat /\ StaleMax \in Nat /\ Deadline \in Nat /\ FailureTtl <= Ttl
                   /\ Trades # Views /\ Trades \in Caches /\ Views \in Caches
                   /\ Idle \in ReadThreads /\ Idle.pc = "idle" /\ Idle.closed = {} /\ Failure \in ReadResults
                   /\ ~Failure.usable /\ ~Failure.stale /\ Counted(Failure)
BY DemoAssumption DEF Trades, Views, Caches, Idle, ReadThreads, Failure, ReadResults, Counted

LEMMA DemoInitInv == DemoInit => DemoInv
<1> SUFFICES ASSUME DemoInit PROVE DemoInv
  OBVIOUS
<1>1. /\ clock = 0 /\ handed = {} /\ ends = <<-FailureTtl, -FailureTtl>>
      /\ \A c \in Caches : cache[c].entry = {} /\ cache[c].good = {} /\ cache[c].inflight = FALSE
  BY DEF DemoInit
<1>2. \A t \in Threads : thread[t] \in ReadThreads /\ thread[t].pc \in {"idle", "off"} /\ thread[t].closed = {}
  BY Constants DEF DemoInit, Idle, ReadThreads
<1>3. DemoTypes
  BY <1>1, <1>2, Constants DEF DemoInit, DemoTypes, CacheStates
<1>4. ReadsOK
  BY <1>1, <1>2, <1>3 DEF ReadsOK, Reading, ReadingPc, DemoTypes, ReadThreads
<1>5. EntriesOK
  BY <1>1 DEF EntriesOK
<1>6. PaceOK
  BY <1>1, <1>2, Constants DEF PaceOK, Reading, ReadingPc
<1> QED BY <1>1, <1>3, <1>4, <1>5, <1>6 DEF DemoInv, HandedOK

\* A step of one thread outside a refresh, with what it hands out.
LEMMA ThreadMoves ==
    ASSUME DemoInv, NEW t \in Threads, NEW x \in ReadThreads, thread' = [thread EXCEPT ![t] = x],
           thread[t].pc \notin ReadingPc, x.pc \notin ReadingPc, x.closed \subseteq In("closed"),
           x.pc = "waiting" => cache[x.c].inflight,
           UNCHANGED <<clock, broker, cache, ends>>, HandedOK'
    PROVE  DemoInv'
<1>0. DemoTypes /\ ReadsOK /\ EntriesOK /\ PaceOK
  BY DEF DemoInv
<1>1. thread' \in [Threads -> ReadThreads] /\ thread'[t] = x /\ \A u \in Threads \ {t} : thread'[u] = thread[u]
  BY <1>0 DEF DemoTypes
<1>2. DemoTypes'
  BY <1>0, <1>1 DEF DemoTypes
<1>3. \A u \in Threads : \A c : Reading(u, c)' <=> Reading(u, c)
  BY <1>1 DEF Reading
<1>4. In("closed")' = In("closed")
  BY DEF In
<1>5. ReadsOK'
  <2>1. \A u, v \in Threads : \A c \in Caches : Reading(u, c)' /\ Reading(v, c)' => u = v
    BY <1>0, <1>3 DEF ReadsOK
  <2>2. \A c \in Caches : cache'[c].inflight <=> \E u \in Threads : Reading(u, c)'
    BY <1>0, <1>3 DEF ReadsOK
  <2>3. ASSUME NEW u \in Threads
        PROVE  /\ thread'[u].pc = "waiting" => cache'[thread'[u].c].inflight
               /\ thread'[u].pc \in {"closed", "open"} => thread'[u].c = Trades /\ thread'[u].until - Deadline <= clock'
               /\ thread'[u].pc = "summary" => thread'[u].c = Views
               /\ thread'[u].closed \subseteq In("closed")'
    BY <1>0, <1>1, <1>4 DEF ReadsOK, ReadingPc
  <2> QED BY <2>1, <2>2, <2>3 DEF ReadsOK
<1>6. EntriesOK'
  BY <1>0 DEF EntriesOK
<1>7. PaceOK'
  <2>1. \A u \in Threads : Reading(u, Trades) => thread'[u] = thread[u]
    BY <1>1 DEF Reading
  <2> QED BY <1>0, <1>3, <2>1 DEF PaceOK, TooOld
<1> QED BY <1>2, <1>5, <1>6, <1>7 DEF DemoInv

\* Hand, up to the producer's own bookkeeping.
LEMMA HandIs ==
    ASSUME NEW all, NEW t, NEW c, NEW r, NEW waited, NEW lastOk, Hand(all, t, c, r, waited, lastOk)
    PROVE  /\ handed' = {[c |-> c, result |-> r, waited |-> waited, lastOk |-> lastOk]}
           /\ \E pc \in {"idle", "view", "sleep"} : thread' = [all EXCEPT ![t] = [Idle EXCEPT !.pc = pc]]
BY DEF Hand

LEMMA Resting ==
    ASSUME NEW pc \in {"idle", "off", "loop", "view", "sleep"}
    PROVE  /\ [Idle EXCEPT !.pc = pc] \in ReadThreads /\ [Idle EXCEPT !.pc = pc].pc \notin ReadingPc
           /\ [Idle EXCEPT !.pc = pc].pc # "waiting" /\ [Idle EXCEPT !.pc = pc].closed = {}
BY Constants DEF ReadThreads, ReadingPc, Idle

\* What a thread that was not reading is handed.
LEMMA HandKeeps ==
    ASSUME DemoInv, NEW t \in Threads, NEW c, NEW r, NEW waited, NEW lastOk, Hand(thread, t, c, r, waited, lastOk),
           thread[t].pc \notin ReadingPc, UNCHANGED <<clock, broker, cache, ends>>,
           HandOK([c |-> c, result |-> r, waited |-> waited, lastOk |-> lastOk])
    PROVE  DemoInv'
<1>1. PICK pc \in {"idle", "view", "sleep"} : thread' = [thread EXCEPT ![t] = [Idle EXCEPT !.pc = pc]]
  BY HandIs
<1>2. HandedOK'
  <2>1. handed' = {[c |-> c, result |-> r, waited |-> waited, lastOk |-> lastOk]}
    BY HandIs
  <2> QED BY <2>1 DEF HandedOK, HandOK, Counted
<1> DEFINE x == [Idle EXCEPT !.pc = pc]
<1>3. x \in ReadThreads /\ x.pc \notin ReadingPc /\ x.closed = {} /\ x.pc # "waiting"
  BY Resting
<1> HIDE DEF x
<1> QED BY <1>1, <1>2, <1>3, ThreadMoves DEF x

LEMMA WaitKeeps ==
    ASSUME DemoInv, NEW t \in Threads, NEW x \in ReadThreads, thread' = [thread EXCEPT ![t] = x], handed' = {},
           thread[t].pc \notin ReadingPc, x.pc \notin ReadingPc, x.closed \subseteq In("closed"),
           x.pc = "waiting" => cache[x.c].inflight, UNCHANGED <<clock, broker, cache, ends>>
    PROVE  DemoInv'
<1>1. HandedOK'
  BY DEF HandedOK
<1> QED BY <1>1, ThreadMoves

\* An entry that is served was read in time.
LEMMA Served ==
    ASSUME DemoInv, NEW c \in Caches, NEW e \in cache[c].entry, ~Expired(c, e)
    PROVE  HandOK([c |-> c, result |-> e.result, waited |-> FALSE, lastOk |-> cache[c].lastOk])
<1>1. /\ Counted(e.result) /\ (e.result.usable => (e.result.stale <=> ~cache[c].lastOk))
      /\ e.result.stale => \A g \in cache[c].good : e.result.read = g.at
  BY DEF DemoInv, EntriesOK
<1>2. ASSUME c = Trades, e.result.stale PROVE clock - e.result.read <= StaleMax
  <2>1. PICK g \in cache[c].good : ~(clock - g.at > StaleMax)
    BY <1>2 DEF Expired
  <2>2. g.at \in Int /\ clock \in Nat
    BY DEF DemoInv, DemoTypes, CacheStates, CacheEntries
  <2> QED BY <1>1, <1>2, <2>1, <2>2, Constants
<1> QED BY <1>1, <1>2 DEF HandOK

\* A refresh begins: nothing fresh is there and no other one is under way.
LEMMA StartKeeps ==
    ASSUME DemoInv, NEW t \in Threads, NEW c \in Caches, ~cache[c].inflight, thread[t].pc \notin ReadingPc,
           thread[t].pc # "waiting",
           \A e \in cache[c].entry : ~Expired(c, e) => ~(clock - e.at < Ttl),
           cache' = [cache EXCEPT ![c].inflight = TRUE],
           thread' = [thread EXCEPT ![t] = [pc |-> IF c = Trades THEN "closed" ELSE "summary", c |-> c,
                               until |-> clock + Deadline, closed |-> {}, asked |-> Existing]],
           handed' = {}, UNCHANGED <<clock, broker, ends>>
    PROVE  DemoInv'
<1> DEFINE x == [pc |-> IF c = Trades THEN "closed" ELSE "summary", c |-> c, until |-> clock + Deadline,
                 closed |-> {}, asked |-> Existing]
<1>0. /\ DemoTypes /\ ReadsOK /\ EntriesOK /\ PaceOK /\ clock \in Nat /\ ends[1] \in Int /\ ends[2] \in Int
      /\ ends \in Int \X Int
  BY DEF DemoInv, DemoTypes
<1>1. x \in ReadThreads /\ x.pc \in ReadingPc /\ x.c = c /\ x.until - Deadline = clock /\ x.closed = {}
      /\ (x.pc = "closed" <=> c = Trades) /\ x.pc \in {"closed", "summary"}
  BY <1>0, Constants DEF ReadThreads, Existing, ReadingPc
<1> HIDE DEF x
<1>2. thread' \in [Threads -> ReadThreads] /\ thread'[t] = x /\ \A u \in Threads \ {t} : thread'[u] = thread[u]
  BY <1>0, <1>1 DEF DemoTypes, x
<1>3. /\ cache' \in [Caches -> CacheStates] /\ cache'[c].inflight = TRUE
      /\ \A d \in Caches : /\ cache'[d].entry = cache[d].entry /\ cache'[d].good = cache[d].good
                           /\ cache'[d].lastOk = cache[d].lastOk /\ (d # c => cache'[d] = cache[d])
  BY <1>0 DEF DemoTypes, CacheStates
<1>4. DemoTypes'
  BY <1>0, <1>2, <1>3 DEF DemoTypes
<1>5. /\ \A u \in Threads \ {t}, d \in Caches : Reading(u, d)' <=> Reading(u, d)
      /\ \A d \in Caches : Reading(t, d)' <=> d = c
      /\ \A d \in Caches : ~Reading(t, d)
  BY <1>1, <1>2 DEF Reading
<1>6. \A u \in Threads : ~Reading(u, c)
  BY <1>0 DEF ReadsOK
<1>7. In("closed")' = In("closed")
  BY DEF In
<1>8. ReadsOK'
  <2>1. \A u, v \in Threads : \A d \in Caches : Reading(u, d)' /\ Reading(v, d)' => u = v
    BY <1>0, <1>5, <1>6 DEF ReadsOK
  <2>2. \A d \in Caches : cache'[d].inflight <=> \E u \in Threads : Reading(u, d)'
    BY <1>0, <1>3, <1>5, <1>6 DEF ReadsOK
  <2>3. ASSUME NEW u \in Threads
        PROVE  /\ thread'[u].pc = "waiting" => cache'[thread'[u].c].inflight
               /\ thread'[u].pc \in {"closed", "open"} => thread'[u].c = Trades /\ thread'[u].until - Deadline <= clock'
               /\ thread'[u].pc = "summary" => thread'[u].c = Views
               /\ thread'[u].closed \subseteq In("closed")'
    <3>1. CASE u = t
      BY <1>0, <1>1, <1>2, <3>1 DEF Caches
    <3>2. CASE u # t
      <4>1. thread'[u] = thread[u] /\ thread[u].c \in Caches
        BY <1>0, <1>2, <3>2 DEF DemoTypes, ReadThreads
      <4> QED BY <1>0, <1>3, <1>7, <4>1 DEF ReadsOK
    <3> QED BY <3>1, <3>2
  <2> QED BY <2>1, <2>2, <2>3 DEF ReadsOK
<1>9. EntriesOK'
  BY <1>0, <1>3 DEF EntriesOK
<1>10. PaceOK'
  <2>1. /\ cache'[Trades].entry = cache[Trades].entry /\ cache'[Trades].good = cache[Trades].good
    BY <1>3, Constants
  <2>2. \A now : TooOld(now)' <=> TooOld(now)
    BY <2>1 DEF TooOld
  <2>3. ASSUME NEW u \in Threads, Reading(u, Trades)'
        PROVE  /\ thread'[u].until - Deadline - ends[1] >= FailureTtl
               /\ thread'[u].until - Deadline - ends[2] >= FailureTtl \/ TooOld(thread'[u].until - Deadline)
    <3>1. CASE u # t
      BY <1>0, <1>2, <1>5, <2>3, <3>1, Constants DEF PaceOK
    <3>2. CASE u = t
      <4>1. c = Trades /\ thread'[u].until - Deadline = clock
        BY <1>1, <1>2, <1>5, <2>3, <3>2, Constants
      <4>2. CASE cache[Trades].entry = {}
        BY <1>0, <4>1, <4>2, Constants DEF PaceOK
      <4>3. CASE cache[Trades].entry # {}
        <5>1. PICK e : e \in cache[Trades].entry
          BY <4>3
        <5>2. e.at \in Int
          BY <1>0, <5>1, Constants DEF DemoTypes, CacheStates, CacheEntries
        <5>3. e.at + Ttl >= ends[2] + FailureTtl /\ (e.result.stale => ends[2] - ends[1] >= FailureTtl)
              /\ ends[1] <= ends[2] /\ ends[2] <= clock
          BY <1>0, <5>1 DEF PaceOK
        <5>4. CASE Expired(Trades, e)
          <6>1. e.result.stale /\ TooOld(clock)
            BY <5>4 DEF Expired, TooOld
          <6> QED BY <1>0, <4>1, <5>3, <6>1, Constants
        <5>5. CASE ~Expired(Trades, e)
          <6>1. ~(clock - e.at < Ttl)
            BY <4>1, <5>1, <5>5
          <6> QED BY <1>0, <4>1, <5>2, <5>3, <6>1, Constants
        <5> QED BY <5>4, <5>5
      <4> QED BY <4>2, <4>3
    <3> QED BY <3>1, <3>2
  <2> QED BY <1>0, <2>1, <2>2, <2>3 DEF PaceOK
<1>11. HandedOK'
  BY DEF HandedOK
<1> QED BY <1>4, <1>8, <1>9, <1>10, <1>11 DEF DemoInv

\* CachedDemoTrades.get, CachedAccountViews.get.
LEMMA GetKeeps ==
    ASSUME DemoInv, NEW t \in Threads, NEW c \in Caches, thread[t].pc \notin ReadingPc, thread[t].pc # "waiting", Get(t, c)
    PROVE  DemoInv'
<1> DEFINE live == {e \in cache[c].entry : ~Expired(c, e)}
<1> DEFINE fresh == {e \in live : clock - e.at < Ttl}
<1>1. ASSUME NEW e \in live, Hand(thread, t, c, e.result, FALSE, cache[c].lastOk), UNCHANGED <<clock, broker, cache, ends>>
      PROVE  DemoInv'
  BY <1>1, Served, HandKeeps
<1>2. CASE fresh # {}
  <2>1. PICK e \in fresh : /\ Hand(thread, t, c, e.result, FALSE, cache[c].lastOk)
                           /\ UNCHANGED <<clock, broker, cache, ends>>
    BY <1>2 DEF Get
  <2> QED BY <1>1, <2>1
<1>3. CASE fresh = {} /\ Owner(c)
  <2>1. /\ cache' = [cache EXCEPT ![c].inflight = TRUE]
        /\ thread' = [thread EXCEPT ![t] = [pc |-> IF c = Trades THEN "closed" ELSE "summary", c |-> c,
                               until |-> clock + Deadline, closed |-> {}, asked |-> Existing]]
        /\ handed' = {} /\ UNCHANGED <<clock, broker, ends>>
    BY <1>3 DEF Get
  <2>2. \A e \in cache[c].entry : ~Expired(c, e) => ~(clock - e.at < Ttl)
    BY <1>3
  <2>3. ~cache[c].inflight
    BY <1>3 DEF Owner
  <2> QED BY <2>1, <2>2, <2>3, StartKeeps
<1>4. CASE fresh = {} /\ ~Owner(c) /\ live # {}
  <2>1. PICK e \in live : /\ Hand(thread, t, c, e.result, FALSE, cache[c].lastOk)
                          /\ UNCHANGED <<clock, broker, cache, ends>>
    BY <1>4 DEF Get
  <2> QED BY <1>1, <2>1
<1>5. CASE fresh = {} /\ ~Owner(c) /\ live = {}
  <2> DEFINE x == [Idle EXCEPT !.pc = "waiting", !.c = c, !.until = clock + Deadline]
  <2>1. thread' = [thread EXCEPT ![t] = x] /\ handed' = {} /\ UNCHANGED <<clock, broker, cache, ends>>
    BY <1>5 DEF Get
  <2>2. x \in ReadThreads /\ x.pc = "waiting" /\ x.c = c /\ x.closed = {} /\ x.pc \notin ReadingPc
    <3>1. clock + Deadline \in Int
      BY Constants DEF DemoInv, DemoTypes
    <3> QED BY <3>1, Constants DEF Idle, ReadThreads, ReadingPc
  <2>3. cache[c].inflight
    BY <1>5 DEF Owner
  <2> HIDE DEF x
  <2> QED BY <2>1, <2>2, <2>3, WaitKeeps
<1> QED BY <1>2, <1>3, <1>4, <1>5

\* The end of a refresh: the waiters are woken, the entry says what became of it.
LEMMA EndKeeps ==
    ASSUME DemoInv, NEW t \in Threads, thread[t].pc \in ReadingPc, NEW c, thread[t].c = c,
           NEW r \in ReadResults, Counted(r), ~r.stale, r.usable => r.read = clock, EndFetch(t, r)
    PROVE  DemoInv'
<1> DEFINE kept == {g \in cache[c].good : c = Views \/ clock - g.at <= StaleMax}
<1> DEFINE out == IF r.usable THEN r ELSE IF kept # {} THEN Fallback(CHOOSE g \in kept : TRUE) ELSE r
<1> DEFINE stamp == IF r.usable \/ c = Views THEN clock ELSE clock - (Ttl - FailureTtl)
<1> DEFINE good == IF r.usable THEN {[at |-> clock, result |-> r]} ELSE cache[c].good
<1> DEFINE awake == [w \in Threads |-> IF thread[w].pc = "waiting" /\ thread[w].c = c
                                       THEN [thread[w] EXCEPT !.pc = "woken"] ELSE thread[w]]
<1>0. /\ DemoTypes /\ ReadsOK /\ EntriesOK /\ PaceOK /\ clock \in Nat /\ ends[1] \in Int /\ ends[2] \in Int
      /\ thread[t] \in ReadThreads /\ c \in Caches /\ Reading(t, c) /\ cache[c] \in CacheStates
  BY DEF DemoInv, DemoTypes, ReadThreads, Reading
<1>1. /\ cache' = [cache EXCEPT ![c] = [entry |-> {[at |-> stamp, result |-> out]}, good |-> good,
                                        inflight |-> FALSE, lastOk |-> r.usable]]
      /\ ends' = IF c = Trades THEN <<ends[2], clock>> ELSE ends
      /\ Hand(awake, t, c, out, FALSE, r.usable) /\ UNCHANGED <<clock, broker>>
  BY DEF EndFetch
<1>2. /\ \A g \in kept : g \in cache[c].good /\ g \in CacheEntries
      /\ \A g \in cache[c].good : /\ Counted(g.result) /\ g.result.usable /\ ~g.result.stale
                                  /\ g.result.read = g.at /\ g.at \in Int /\ g.result \in ReadResults
  BY <1>0 DEF EntriesOK, CacheStates, CacheEntries
<1>3. /\ out \in ReadResults /\ Counted(out) /\ (out.usable => (out.stale <=> ~r.usable))
      /\ out.stale => ~r.usable /\ kept # {} /\ \A g \in cache[c].good : out.read = g.at
  <2>1. CASE r.usable
    BY <2>1
  <2>2. CASE ~r.usable /\ kept = {}
    BY <2>2
  <2>3. CASE ~r.usable /\ kept # {}
    <3>1. PICK g \in kept : out = Fallback(g)
      BY <2>3
    <3>2. out = [g.result EXCEPT !.stale = TRUE] /\ g \in cache[c].good
      BY <3>1 DEF Fallback
    <3>3. /\ out \in ReadResults /\ out.closed = g.result.closed /\ out.open = g.result.open
          /\ out.usable = g.result.usable /\ out.read = g.result.read /\ out.stale = TRUE
      BY <1>2, <3>2 DEF ReadResults
    <3>4. \A h \in cache[c].good : h = g
      BY <1>0, <3>2 DEF EntriesOK
    <3> HIDE DEF out, kept
    <3> QED BY <1>2, <2>3, <3>2, <3>3, <3>4 DEF Counted
  <2> QED BY <2>1, <2>2, <2>3
<1>4. stamp \in Int /\ stamp + Ttl >= clock + FailureTtl
  BY <1>0, Constants
<1>5. /\ good \subseteq CacheEntries /\ \A g, h \in good : g = h
      /\ \A g \in good : Counted(g.result) /\ g.result.usable /\ ~g.result.stale /\ g.result.read = g.at
      /\ out.stale => good = cache[c].good
  <2>1. CASE r.usable
    <3>1. good = {[at |-> clock, result |-> r]} /\ [at |-> clock, result |-> r] \in CacheEntries
      BY <1>0, <2>1 DEF CacheEntries
    <3> HIDE DEF good, out
    <3> QED BY <1>3, <2>1, <3>1
  <2>2. CASE ~r.usable
    <3>1. good = cache[c].good
      BY <2>2
    <3> HIDE DEF good, out
    <3> QED BY <1>0, <1>2, <3>1 DEF EntriesOK, CacheStates
  <2> QED BY <2>1, <2>2
<1>6. out.stale /\ c = Trades => \E g \in cache[c].good : clock - g.at <= StaleMax
  <2>1. Trades # Views
    BY Constants
  <2> HIDE DEF out
  <2> QED BY <1>3, <2>1
<1> HIDE DEF out, kept, stamp, good
<1>7. /\ cache' \in [Caches -> CacheStates] /\ \A d \in Caches \ {c} : cache'[d] = cache[d]
      /\ cache'[c].entry = {[at |-> stamp, result |-> out]} /\ cache'[c].good = good
      /\ cache'[c].inflight = FALSE /\ cache'[c].lastOk = r.usable
  <2>1. [entry |-> {[at |-> stamp, result |-> out]}, good |-> good, inflight |-> FALSE, lastOk |-> r.usable] \in CacheStates
    BY <1>3, <1>4, <1>5 DEF CacheStates, CacheEntries, ReadResults
  <2> QED BY <1>0, <1>1, <2>1 DEF DemoTypes
<1>8. PICK pc \in {"idle", "view", "sleep"} : thread' = [awake EXCEPT ![t] = [Idle EXCEPT !.pc = pc]]
  BY <1>1, HandIs
<1> DEFINE x == [Idle EXCEPT !.pc = pc]
<1>9. x \in ReadThreads /\ x.pc \notin ReadingPc /\ x.closed = {} /\ x.pc # "waiting"
  BY Resting
<1> HIDE DEF x
<1>10. /\ \A u \in Threads : awake[u] \in ReadThreads /\ awake[u].c = thread[u].c /\ awake[u].until = thread[u].until
                             /\ awake[u].closed = thread[u].closed
       /\ \A u \in Threads : awake[u].pc = thread[u].pc \/ (awake[u].pc = "woken" /\ thread[u].pc = "waiting")
       /\ \A u \in Threads : thread[u].pc = "waiting" /\ thread[u].c = c => awake[u].pc = "woken"
  BY <1>0 DEF DemoTypes, ReadThreads
<1>11. DOMAIN awake = Threads
  OBVIOUS
<1> HIDE DEF awake
<1>12. thread' \in [Threads -> ReadThreads] /\ thread'[t] = x /\ \A u \in Threads \ {t} : thread'[u] = awake[u]
  <2>1. awake \in [Threads -> ReadThreads]
    <3>1. awake = [u \in Threads |-> awake[u]]
      BY <1>11 DEF awake
    <3> QED BY <1>10, <3>1
  <2> QED BY <1>8, <1>9, <2>1 DEF x
<1>13. DemoTypes'
  BY <1>0, <1>1, <1>7, <1>12 DEF DemoTypes
<1>14. /\ \A u \in Threads \ {t} : \A d \in Caches : Reading(u, d)' <=> Reading(u, d)
       /\ \A d \in Caches : ~Reading(t, d)'
       /\ \A u \in Threads : ~Reading(u, c)'
  <2>1. "woken" \notin ReadingPc /\ "waiting" \notin ReadingPc
    BY DEF ReadingPc
  <2>2. \A u \in Threads \ {t} : \A d \in Caches : Reading(u, d)' <=> Reading(u, d)
    BY <1>10, <1>12, <2>1 DEF Reading
  <2>3. \A d \in Caches : ~Reading(t, d)'
    BY <1>9, <1>12 DEF Reading
  <2>4. \A u \in Threads \ {t} : ~Reading(u, c)
    BY <1>0 DEF ReadsOK
  <2> QED BY <1>0, <2>2, <2>3, <2>4
<1>15. ReadsOK'
  <2>1. \A u, v \in Threads : \A d \in Caches : Reading(u, d)' /\ Reading(v, d)' => u = v
    BY <1>0, <1>14 DEF ReadsOK
  <2>2. ASSUME NEW d \in Caches PROVE cache'[d].inflight <=> \E u \in Threads : Reading(u, d)'
    <3>1. CASE d = c
      BY <1>7, <1>14, <3>1
    <3>2. CASE d # c
      <4>1. ~Reading(t, d)
        BY <3>2 DEF Reading
      <4>2. \A u \in Threads : Reading(u, d)' <=> Reading(u, d)
        BY <1>14, <4>1
      <4> QED BY <1>0, <1>7, <3>2, <4>2 DEF ReadsOK
    <3> QED BY <3>1, <3>2
  <2>3. ASSUME NEW u \in Threads
        PROVE  /\ thread'[u].pc = "waiting" => cache'[thread'[u].c].inflight
               /\ thread'[u].pc \in {"closed", "open"} => thread'[u].c = Trades /\ thread'[u].until - Deadline <= clock'
               /\ thread'[u].pc = "summary" => thread'[u].c = Views
               /\ thread'[u].closed \subseteq In("closed")'
    <3>1. In("closed")' = In("closed")
      BY <1>1 DEF In
    <3>2. CASE u = t
      BY <1>9, <1>12, <3>2 DEF ReadingPc
    <3>3. CASE u # t
      <4>1. thread'[u] = awake[u]
        BY <1>12, <3>3
      <4>2. thread[u].c \in Caches
        BY <1>0 DEF DemoTypes, ReadThreads
      <4>3. thread'[u].pc = "waiting" => cache'[thread'[u].c].inflight
        BY <1>0, <1>7, <1>10, <4>1, <4>2 DEF ReadsOK
      <4> QED BY <1>0, <1>1, <1>10, <3>1, <4>1, <4>3 DEF ReadsOK
    <3> QED BY <3>2, <3>3
  <2> QED BY <2>1, <2>2, <2>3 DEF ReadsOK
<1>16. EntriesOK'
  <2> SUFFICES ASSUME NEW d \in Caches
               PROVE /\ \A e, f \in cache'[d].entry : e = f
                     /\ \A g, h \in cache'[d].good : g = h
                     /\ \A e \in cache'[d].entry :
                           /\ Counted(e.result)
                           /\ e.result.usable => (e.result.stale <=> ~cache'[d].lastOk)
                           /\ e.result.stale => \A g \in cache'[d].good : e.result.read = g.at
                     /\ \A g \in cache'[d].good :
                           Counted(g.result) /\ g.result.usable /\ ~g.result.stale /\ g.result.read = g.at
    BY DEF EntriesOK, Counted
  <2>1. CASE d = c
    BY <1>3, <1>5, <1>7, <2>1
  <2>2. CASE d # c
    <3>1. cache'[d] = cache[d]
      BY <1>7, <2>2
    <3> QED BY <1>0, <3>1 DEF EntriesOK
  <2> QED BY <2>1, <2>2
<1>17. PaceOK'
  <2>1. CASE c = Trades
    <3>1. ends'[1] = ends[2] /\ ends'[2] = clock /\ clock' = clock
      BY <1>1, <2>1
    <3>2. \A u \in Threads : ~Reading(u, Trades)'
      BY <1>14, <2>1
    <3>3. cache'[Trades].entry = {[at |-> stamp, result |-> out]}
      BY <1>7, <2>1
    <3>4. ASSUME out.stale PROVE clock - ends[2] >= FailureTtl
      <4>1. PICK g \in cache[Trades].good : clock - g.at <= StaleMax
        BY <1>6, <2>1, <3>4
      <4>2. Reading(t, Trades) /\ thread[t].pc \in {"closed", "open"} /\ thread[t].until \in Int /\ g.at \in Int
        <5>1. Reading(t, Trades) /\ thread[t].until \in Int
          BY <1>0, <2>1 DEF ReadThreads
        <5>2. thread[t].pc # "summary"
          BY <1>0, <2>1, Constants DEF ReadsOK
        <5>3. g.at \in Int
          BY <1>2, <2>1
        <5> QED BY <5>1, <5>2, <5>3 DEF ReadingPc
      <4>3. thread[t].until - Deadline <= clock
        BY <1>0, <4>2 DEF ReadsOK
      <4>4. thread[t].until - Deadline - ends[2] >= FailureTtl \/ TooOld(thread[t].until - Deadline)
        BY <1>0, <4>2 DEF PaceOK
      <4>5. ~TooOld(thread[t].until - Deadline)
        BY <1>0, <4>1, <4>2, <4>3, Constants DEF TooOld
      <4> QED BY <1>0, <4>2, <4>3, <4>4, <4>5, Constants
    <3>5. ends[2] <= clock
      BY <1>0 DEF PaceOK
    <3>6. cache'[Trades].entry # {}
      BY <3>3
    <3>7. ASSUME NEW e \in cache'[Trades].entry
          PROVE  e.at + Ttl >= ends'[2] + FailureTtl /\ (e.result.stale => ends'[2] - ends'[1] >= FailureTtl)
      <4>1. e.at = stamp /\ e.result = out
        BY <3>3
      <4> QED BY <1>4, <3>1, <3>4, <4>1
    <3>8. ends'[1] <= ends'[2] /\ ends'[2] <= clock'
      BY <1>0, <3>1, <3>5
    <3> QED BY <3>2, <3>6, <3>7, <3>8 DEF PaceOK
  <2>2. CASE c # Trades
    <3>1. ends' = ends /\ cache'[Trades] = cache[Trades] /\ clock' = clock
      BY <1>1, <1>7, <2>2, Constants
    <3>2. ~Reading(t, Trades)
      BY <2>2 DEF Reading
    <3>3. \A u \in Threads : Reading(u, Trades)' => Reading(u, Trades) /\ thread'[u].until = thread[u].until
      BY <1>10, <1>12, <1>14, <3>2, Constants
    <3>4. \A now : TooOld(now)' <=> TooOld(now)
      BY <3>1 DEF TooOld
    <3> QED BY <1>0, <3>1, <3>3, <3>4 DEF PaceOK
  <2> QED BY <2>1, <2>2
<1>18. HandedOK'
  <2>1. handed' = {[c |-> c, result |-> out, waited |-> FALSE, lastOk |-> r.usable]}
    BY <1>1 DEF Hand
  <2>2. ASSUME c = Trades, out.stale PROVE clock - out.read <= StaleMax
    BY <1>3, <1>6, <2>2
  <2> QED BY <1>1, <1>3, <2>1, <2>2 DEF HandedOK, HandOK, Counted
<1> QED BY <1>13, <1>15, <1>16, <1>17, <1>18 DEF DemoInv

\* demo_trades: the CLOSED half of a read; what is closed stays closed.
LEMMA ReadClosedKeeps == DemoInv /\ ReadClosed => DemoInv'
<1> SUFFICES ASSUME DemoInv, ReadClosed PROVE DemoInv'
  OBVIOUS
<1>1. PICK t \in Threads : /\ thread[t].pc = "closed"
                           /\ thread' = [thread EXCEPT ![t].pc = "open", ![t].closed = In("closed")]
                           /\ handed' = {} /\ UNCHANGED <<clock, broker, cache, producer, ends>>
  BY DEF ReadClosed
<1>0. DemoTypes /\ ReadsOK /\ EntriesOK /\ PaceOK /\ thread[t] \in ReadThreads
  BY DEF DemoInv, DemoTypes
<1> DEFINE x == [thread[t] EXCEPT !.pc = "open", !.closed = In("closed")]
<1>2. x \in ReadThreads /\ x.pc = "open" /\ x.c = thread[t].c /\ x.until = thread[t].until /\ x.closed = In("closed")
  BY <1>0 DEF ReadThreads, In
<1>3. thread' = [thread EXCEPT ![t] = x]
  BY <1>0, <1>1 DEF DemoTypes
<1> HIDE DEF x
<1>4. thread' \in [Threads -> ReadThreads] /\ thread'[t] = x /\ \A u \in Threads \ {t} : thread'[u] = thread[u]
  BY <1>0, <1>2, <1>3 DEF DemoTypes
<1>5. \A u \in Threads : \A c : Reading(u, c)' <=> Reading(u, c)
  BY <1>1, <1>2, <1>4 DEF Reading, ReadingPc
<1>6. In("closed")' = In("closed")
  BY <1>1 DEF In
<1>7. DemoTypes'
  BY <1>0, <1>1, <1>4 DEF DemoTypes
<1>8. ReadsOK'
  <2>1. \A u, v \in Threads : \A c \in Caches : Reading(u, c)' /\ Reading(v, c)' => u = v
    BY <1>0, <1>5 DEF ReadsOK
  <2>2. \A c \in Caches : cache'[c].inflight <=> \E u \in Threads : Reading(u, c)'
    BY <1>0, <1>1, <1>5 DEF ReadsOK
  <2>3. \A u \in Threads :
               /\ thread'[u].pc = "waiting" => cache'[thread'[u].c].inflight
               /\ thread'[u].pc \in {"closed", "open"} => thread'[u].c = Trades /\ thread'[u].until - Deadline <= clock'
               /\ thread'[u].pc = "summary" => thread'[u].c = Views
               /\ thread'[u].closed \subseteq In("closed")'
    BY <1>0, <1>1, <1>2, <1>4, <1>6 DEF ReadsOK
  <2> QED BY <2>1, <2>2, <2>3 DEF ReadsOK
<1>9. EntriesOK'
  BY <1>0, <1>1 DEF EntriesOK
<1>10. PaceOK'
  <2>1. \A u \in Threads : thread'[u].until = thread[u].until
    BY <1>2, <1>4
  <2> QED BY <1>0, <1>1, <1>5, <2>1 DEF PaceOK, TooOld
<1>11. HandedOK'
  BY <1>1 DEF HandedOK
<1> QED BY <1>7, <1>8, <1>9, <1>10, <1>11 DEF DemoInv

\* A waiter goes on with what the cache holds.
LEMMA WakeKeeps == DemoInv /\ Wake => DemoInv'
<1> SUFFICES ASSUME DemoInv, Wake PROVE DemoInv'
  OBVIOUS
<1>1. PICK t \in Threads :
         /\ thread[t].pc \in {"woken", "waiting"} /\ UNCHANGED <<clock, broker, cache, ends>>
         /\ \E r \in IF {e.result : e \in cache[thread[t].c].entry} = {} THEN {Failure}
                     ELSE {e.result : e \in cache[thread[t].c].entry} :
               Hand(thread, t, thread[t].c, r, TRUE, cache[thread[t].c].lastOk)
  BY DEF Wake
<1>2. PICK c \in Caches : c = thread[t].c
  BY DEF DemoInv, DemoTypes, ReadThreads
<1>3. /\ thread[t].pc \in {"woken", "waiting"} /\ UNCHANGED <<clock, broker, cache, ends>>
      /\ \E r \in IF {e.result : e \in cache[c].entry} = {} THEN {Failure} ELSE {e.result : e \in cache[c].entry} :
            Hand(thread, t, c, r, TRUE, cache[c].lastOk)
  BY <1>1, <1>2
<1>4. PICK r : /\ Hand(thread, t, c, r, TRUE, cache[c].lastOk)
               /\ r = Failure \/ \E e \in cache[c].entry : r = e.result
  BY <1>3
<1>5. Counted(r) /\ (r.usable => (r.stale <=> ~cache[c].lastOk))
  BY <1>4, Constants DEF DemoInv, EntriesOK
<1>6. HandOK([c |-> c, result |-> r, waited |-> TRUE, lastOk |-> cache[c].lastOk])
  BY <1>5 DEF HandOK
<1>7. thread[t].pc \notin ReadingPc
  BY <1>3 DEF ReadingPc
<1> QED BY <1>3, <1>4, <1>6, <1>7, HandKeeps

LEMMA TickKeeps == DemoInv /\ Tick => DemoInv'
<1> SUFFICES ASSUME DemoInv, Tick PROVE DemoInv'
  OBVIOUS
<1>0. DemoTypes /\ ReadsOK /\ EntriesOK /\ PaceOK
  BY DEF DemoInv
<1>1. /\ clock \in Nat /\ clock' = clock + 1 /\ handed' = {} /\ UNCHANGED <<broker, cache, thread, ends>>
      /\ ends[2] \in Int /\ \A t \in Threads : thread[t].until \in Int
  BY <1>0 DEF Tick, DemoTypes, ReadThreads
<1>2. DemoTypes' /\ EntriesOK' /\ HandedOK'
  BY <1>0, <1>1 DEF DemoTypes, EntriesOK, HandedOK
<1>3. ReadsOK'
  BY <1>0, <1>1, Constants DEF ReadsOK, Reading, In
<1>4. PaceOK'
  BY <1>0, <1>1 DEF PaceOK, Reading, TooOld
<1> QED BY <1>2, <1>3, <1>4 DEF DemoInv

LEMMA BrokerKeeps == DemoInv /\ BrokerMoves => DemoInv'
<1> SUFFICES ASSUME DemoInv, BrokerMoves PROVE DemoInv'
  OBVIOUS
<1>0. DemoTypes /\ ReadsOK /\ EntriesOK /\ PaceOK
  BY DEF DemoInv
<1>1. /\ broker' \in [Trade -> {"none", "open", "closed"}] /\ In("closed") \subseteq In("closed")'
      /\ handed' = {} /\ UNCHANGED <<clock, cache, thread, ends>>
  BY <1>0 DEF BrokerMoves, DemoTypes, In
<1>2. DemoTypes' /\ EntriesOK' /\ HandedOK'
  BY <1>0, <1>1 DEF DemoTypes, EntriesOK, HandedOK
<1>3. ReadsOK'
  BY <1>0, <1>1 DEF ReadsOK, Reading
<1>4. PaceOK'
  BY <1>0, <1>1 DEF PaceOK, Reading, TooOld
<1> QED BY <1>2, <1>3, <1>4 DEF DemoInv

\* The endings of a read.
LEMMA ReadOpenKeeps == DemoInv /\ ReadOpen => DemoInv'
<1> SUFFICES ASSUME DemoInv, ReadOpen PROVE DemoInv'
  OBVIOUS
<1>1. PICK t \in Threads :
         /\ thread[t].pc = "open"
         /\ EndFetch(t, [usable |-> TRUE, stale |-> FALSE, read |-> clock, closed |-> thread[t].closed,
                         open |-> In("open"), asked |-> thread[t].asked])
  BY DEF ReadOpen
<1> DEFINE r == [usable |-> TRUE, stale |-> FALSE, read |-> clock, closed |-> thread[t].closed,
                 open |-> In("open"), asked |-> thread[t].asked]
<1>2. thread[t] \in ReadThreads /\ clock \in Nat /\ thread[t].closed \subseteq In("closed")
  BY DEF DemoInv, DemoTypes, ReadsOK
<1>3. r \in ReadResults /\ r.usable = TRUE /\ r.stale = FALSE /\ r.read = clock
  BY <1>2 DEF ReadResults, ReadThreads, In
<1>4. Counted(r)
  BY <1>2 DEF Counted, In
<1>5. EndFetch(t, r) /\ thread[t].pc \in ReadingPc
  BY <1>1 DEF ReadingPc
<1> HIDE DEF r
<1> QED BY <1>3, <1>4, <1>5, EndKeeps

LEMMA ReadSummaryKeeps == DemoInv /\ ReadSummary => DemoInv'
<1> SUFFICES ASSUME DemoInv, ReadSummary PROVE DemoInv'
  OBVIOUS
<1> DEFINE r == [Failure EXCEPT !.usable = TRUE, !.read = clock]
<1>1. PICK t \in Threads : thread[t].pc = "summary" /\ EndFetch(t, r)
  BY DEF ReadSummary
<1>2. clock \in Nat
  BY DEF DemoInv, DemoTypes
<1>3. r \in ReadResults /\ r.stale = FALSE /\ r.read = clock /\ Counted(r)
  <2>1. /\ r \in ReadResults /\ r.stale = Failure.stale /\ r.read = clock
        /\ r.closed = Failure.closed /\ r.open = Failure.open
    <3>1. Failure \in ReadResults
      BY Constants
    <3>2. r \in ReadResults
      <4>1. ASSUME NEW f \in ReadResults, NEW n \in Int PROVE [f EXCEPT !.usable = TRUE, !.read = n] \in ReadResults
        BY DEF ReadResults
      <4>2. clock \in Int
        BY <1>2
      <4> QED BY <3>1, <4>1, <4>2
    <3>3. r.stale = Failure.stale
      BY <3>1 DEF ReadResults
    <3>4. r.read = clock /\ r.closed = Failure.closed /\ r.open = Failure.open
      BY <3>1 DEF ReadResults
    <3> QED BY <3>2, <3>3, <3>4
  <2>2. Failure.stale = FALSE /\ Failure.closed \cap Failure.open = {}
    BY DEF Failure
  <2> HIDE DEF r
  <2> QED BY <2>1, <2>2 DEF Counted
<1>4. thread[t].pc \in ReadingPc
  BY <1>1 DEF ReadingPc
<1> HIDE DEF r
<1> QED BY <1>1, <1>3, <1>4, EndKeeps

LEMMA ReadFailsKeeps == DemoInv /\ ReadFails => DemoInv'
<1> SUFFICES ASSUME DemoInv, ReadFails PROVE DemoInv'
  OBVIOUS
<1>1. PICK t \in Threads : thread[t].pc \in ReadingPc /\ EndFetch(t, Failure)
  BY DEF ReadFails, ReadingPc
<1> QED BY <1>1, Constants, EndKeeps

\* The producer.
LEMMA ProducerKeeps == DemoInv /\ (EnsureStarted \/ StopProducer \/ ProducerLoop \/ ProducerView) => DemoInv'
<1> SUFFICES ASSUME DemoInv, EnsureStarted \/ StopProducer \/ ProducerLoop \/ ProducerView PROVE DemoInv'
  OBVIOUS
<1>0. Refresher \in Threads /\ Trades \in Caches /\ Views \in Caches /\ thread[Refresher] \in ReadThreads
      /\ thread[Refresher].closed \subseteq In("closed")
  BY DEF DemoInv, DemoTypes, ReadsOK, Threads, Caches
<1>1. CASE EnsureStarted
  <2> DEFINE x == [Idle EXCEPT !.pc = "loop"]
  <2>1. /\ thread' = [thread EXCEPT ![Refresher] = x] /\ handed' = {} /\ UNCHANGED <<clock, broker, cache, ends>>
        /\ thread[Refresher].pc = "off"
    BY <1>1 DEF EnsureStarted
  <2>2. x \in ReadThreads /\ x.pc \notin ReadingPc /\ x.pc # "waiting" /\ x.closed = {}
    BY Resting
  <2>3. "off" \notin ReadingPc
    BY DEF ReadingPc
  <2> HIDE DEF x
  <2> QED BY <1>0, <2>1, <2>2, <2>3, WaitKeeps
<1>2. CASE StopProducer
  <2>1. handed' = {} /\ UNCHANGED <<clock, broker, cache, thread, ends>>
    BY <1>2 DEF StopProducer
  <2> QED BY <2>1 DEF DemoInv, DemoTypes, ReadsOK, Reading, In, EntriesOK, PaceOK, TooOld, HandedOK
<1>3. CASE ProducerLoop
  <2>1. thread[Refresher].pc \in {"loop", "sleep"} /\ thread[Refresher].pc \notin ReadingPc
        /\ thread[Refresher].pc # "waiting"
    BY <1>3 DEF ProducerLoop, ReadingPc
  <2>2. CASE producer.stop
    <3> DEFINE x == [thread[Refresher] EXCEPT !.pc = "off"]
    <3>1. thread' = [thread EXCEPT ![Refresher] = x] /\ handed' = {} /\ UNCHANGED <<clock, broker, cache, ends>>
      BY <1>0, <1>3, <2>2 DEF ProducerLoop
    <3>2. x \in ReadThreads /\ x.pc = "off" /\ x.closed = thread[Refresher].closed
      BY <1>0 DEF ReadThreads
    <3>3. "off" \notin ReadingPc
      BY DEF ReadingPc
    <3> HIDE DEF x
    <3> QED BY <1>0, <2>1, <3>1, <3>2, <3>3, WaitKeeps
  <2>3. CASE ~producer.stop
    <3>1. Get(Refresher, Trades)
      BY <1>3, <2>3 DEF ProducerLoop
    <3> QED BY <1>0, <2>1, <3>1, GetKeeps
  <2> QED BY <2>2, <2>3
<1>4. CASE ProducerView
  <2>1. thread[Refresher].pc \notin ReadingPc /\ thread[Refresher].pc # "waiting" /\ Get(Refresher, Views)
    BY <1>4 DEF ProducerView, ReadingPc
  <2> QED BY <1>0, <2>1, GetKeeps
<1> QED BY <1>1, <1>2, <1>3, <1>4

LEMMA DemoStep == DemoInv /\ [DemoNext]_demoVars => DemoInv'
<1> SUFFICES ASSUME DemoInv, [DemoNext]_demoVars PROVE DemoInv'
  OBVIOUS
<1>1. CASE SessionGet
  <2>1. PICK t \in Session, c \in Caches : thread[t].pc = "idle" /\ Get(t, c)
    BY <1>1 DEF SessionGet
  <2>2. t \in Threads /\ thread[t].pc \notin ReadingPc /\ thread[t].pc # "waiting"
    BY <2>1 DEF Threads, ReadingPc
  <2> QED BY <2>1, <2>2, GetKeeps
<1>2. CASE UNCHANGED demoVars
  BY <1>2 DEF demoVars, DemoInv, DemoTypes, ReadsOK, Reading, In, EntriesOK, PaceOK, TooOld, HandedOK, HandOK
<1> QED
  BY <1>1, <1>2, BrokerKeeps, TickKeeps, ReadClosedKeeps, ReadOpenKeeps, ReadSummaryKeeps, ReadFailsKeeps, WakeKeeps,
     ProducerKeeps DEF DemoNext

\* The inductive invariant.
THEOREM DemoInvariant == DemoSpec => []DemoInv
<1>1. DemoInit => DemoInv
  BY DemoInitInv
<1>2. DemoInv /\ [DemoNext]_demoVars => DemoInv'
  BY DemoStep
<1> QED BY <1>1, <1>2, PTL DEF DemoSpec

LEMMA DemoInvHonest == DemoInv => DemoReadsHonest
<1> SUFFICES ASSUME DemoInv PROVE DemoReadsHonest
  OBVIOUS
<1>0. DemoTypes /\ ReadsOK /\ EntriesOK /\ PaceOK /\ HandedOK
  BY DEF DemoInv
<1>1. OneRefresh
  <2> SUFFICES ASSUME NEW c \in Caches
               PROVE  /\ Cardinality({t \in Threads : Reading(t, c)}) = IF cache[c].inflight THEN 1 ELSE 0
                      /\ (\E t \in Threads : thread[t].pc = "waiting" /\ thread[t].c = c)
                             => {t \in Threads : Reading(t, c)} # {}
    BY DEF OneRefresh, Reading, ReadingPc
  <2> DEFINE reading == {t \in Threads : Reading(t, c)}
  <2>1. cache[c].inflight => \E t \in Threads : reading = {t}
    BY <1>0 DEF ReadsOK
  <2>2. ~cache[c].inflight => reading = {}
    BY <1>0 DEF ReadsOK
  <2>3. (\E t \in Threads : thread[t].pc = "waiting" /\ thread[t].c = c) => cache[c].inflight
    BY <1>0 DEF ReadsOK
  <2> HIDE DEF reading
  <2>4. Cardinality(reading) = IF cache[c].inflight THEN 1 ELSE 0
    BY <2>1, <2>2, FS_Singleton, FS_EmptySet
  <2>5. cache[c].inflight => reading # {}
    BY <2>1
  <2> QED BY <2>3, <2>4, <2>5 DEF reading
<1>2. StaleIsTold /\ NoTradeTwice
  BY <1>0 DEF HandedOK, HandOK, Counted, StaleIsTold, NoTradeTwice
<1>3. Paced
  <2> SUFFICES ASSUME NEW t \in Threads, thread[t].pc = "closed"
               PROVE  thread[t].until - Deadline - ends[1] >= FailureTtl
    BY DEF Paced
  <2>1. Reading(t, Trades)
    BY <1>0 DEF ReadsOK, Reading, ReadingPc
  <2> QED BY <1>0, <2>1 DEF PaceOK
<1> QED BY <1>1, <1>2, <1>3 DEF DemoReadsHonest

\* Whatever the sessions, the producer and the broker do, and for every size of the constants: one
\* read at a time, paced, stale told from current, no trade counted twice
\* (oanda_readonly.py CachedDemoTrades, CachedAccountViews; demo_refresher.py).
THEOREM DemoReadsHonestHolds == DemoSpec => []DemoReadsHonest
<1>1. DemoInv => DemoReadsHonest
  BY DemoInvHonest
<1> QED BY <1>1, DemoInvariant, PTL

-----------------------------------------------------------------------------
\* MacroFeed: what a calendar holds.
IsCalendar(c) ==
    c = [now |-> c.now, previous |-> c.previous, fetched |-> c.fetched, retry |-> c.retry]

\* A row of FXMacroData is of a confirmed event and carries no value.
FxRow(r) ==
    /\ r.id \in listed /\ r.at = at[r.id] /\ r.impact = "HIGH" /\ r.result = NoTime
    /\ r.fetched \in Nat

\* The previous snapshot is older, and an event that only it still has was released before the
\* last refresh.
FxSound(c, t) ==
    /\ c.fetched \in Nat /\ c.fetched <= t
    /\ \A r \in c.now : FxRow(r) /\ r.fetched = c.fetched
    /\ \A r \in c.previous : FxRow(r) /\ r.fetched <= c.fetched
    /\ \A r, s \in c.previous : r.fetched = s.fetched
    /\ \A r \in c.previous : (\E s \in c.now : s.id = r.id) \/ at[r.id] <= c.fetched

Remembers(c, e) == \E r \in c.now \cup c.previous : r.id = e

MacroTypes ==
    /\ at \in [Event -> Nat \ {0}] /\ listed \subseteq Event /\ time \in Nat
    /\ caches = [k \in {"fx", "finnhub"} \cup Source |-> caches[k]]
    /\ \A k \in {"fx", "finnhub"} \cup Source : IsCalendar(caches[k])

\* A HIGH event that was shown is remembered until its window is over.
ShownIsRemembered ==
    mode = "fxmacrodata" =>
        /\ seen \subseteq Event /\ FxSound(caches["fx"], time)
        /\ \A e \in seen : Remembers(caches["fx"], e) \/ at[e] + Active < time

\* The official calendars mark no impact.
NoImpactMarked ==
    mode \notin {"fxmacrodata", "finnhub"} =>
        seen = {} /\ \A s \in Source : \A r \in caches[s].now : r.impact = "none"

MacroInv == MacroTypes /\ ShownIsRemembered /\ NoImpactMarked /\ ActiveWindowHeld

LEMMA MacroInitInv == MacroInit => MacroInv
<1> SUFFICES ASSUME MacroInit PROVE MacroInv
  OBVIOUS
<1> USE DEF MacroInit
<1>1. MacroTypes
  <2>1. at \in [Event -> Nat \ {0}]
    BY MacroAssumption
  <2> QED
    BY <2>1 DEF MacroTypes, IsCalendar, EmptyCache
<1>2. ShownIsRemembered
  BY DEF ShownIsRemembered, FxSound, EmptyCache, NoTime
<1>3. NoImpactMarked
  BY DEF NoImpactMarked, EmptyCache
<1>4. ActiveWindowHeld
  BY DEF ActiveWindowHeld
<1> QED
  BY <1>1, <1>2, <1>3, <1>4 DEF MacroInv

\* Of each event that the calendar knew by as_of, a row is visible.
LEMMA KnownIsVisible ==
    ASSUME NEW c, NEW t, FxSound(c, t), NEW asOf \in Nat,
           NEW r \in c.now \cup c.previous, r.fetched <= asOf
    PROVE  \E s \in FxVisible(c, asOf) : s.id = r.id
<1> DEFINE known == {s \in c.previous \cup c.now : s.fetched <= asOf}
<1>1. FxVisible(c, asOf) = {s \in known : \A u \in known : u.id = s.id => u.fetched <= s.fetched}
  BY DEF FxVisible
<1>2. c.fetched \in Nat /\ \A s \in known : s.fetched \in Nat /\ s.fetched <= c.fetched
  BY DEF FxSound, FxRow
<1> HIDE DEF known
<1>3. CASE \E s \in c.now : s.id = r.id /\ s.fetched <= asOf
  <2>1. PICK s \in c.now : s.id = r.id /\ s.fetched <= asOf
    BY <1>3
  <2>2. s \in known /\ s.fetched = c.fetched
    BY <2>1 DEF known, FxSound
  <2> QED
    BY <1>1, <1>2, <2>1, <2>2
<1>4. CASE ~\E s \in c.now : s.id = r.id /\ s.fetched <= asOf
  <2>1. r \in known
    BY DEF known
  <2>2. r \in c.previous
    BY <1>4
  <2>3. \A u \in known : u.id = r.id => u \in c.previous /\ u.fetched = r.fetched
    BY <1>4, <2>2 DEF known, FxSound
  <2>4. \A u \in known : u.id = r.id => u.fetched <= r.fetched
    BY <1>2, <2>1, <2>3
  <2> QED
    BY <1>1, <2>1, <2>4
<1> QED
  BY <1>3, <1>4

\* What is visible is of the calendar and was known by as_of.
LEMMA VisibleIsKnown ==
    ASSUME NEW c, NEW t, FxSound(c, t), NEW asOf, NEW r \in FxVisible(c, asOf)
    PROVE  FxRow(r) /\ r.fetched <= asOf /\ r \in c.now \cup c.previous
BY DEF FxVisible, FxSound

\* What becomes of one request of FXMacroData.
FxResult(o, now, end) ==
    /\ IsCalendar(o.cache) /\ FxSound(o.cache, o.end) /\ o.end \in Nat /\ o.end >= time
    /\ \A e \in Event : Remembers(caches["fx"], e) /\ at[e] + Active >= time => Remembers(o.cache, e)
    /\ ~o.error => /\ o.rows = FxVisible(o.cache, time)
                   /\ \A e \in Event : Remembers(caches["fx"], e) /\ at[e] + Active >= time
                           => \E r \in o.rows : r.id = e
    /\ o.error \in BOOLEAN

\* A refresh keeps what was known of the events whose window is not over.
LEMMA RefreshRemembers ==
    ASSUME MacroTypes, FxSound(caches["fx"], time), NEW now \in Nat, NEW end \in Nat,
           time <= now, now <= end, now <= time + MaxLag,
           caches["fx"].fetched = NoTime \/ now - caches["fx"].fetched >= CacheFor
    PROVE  /\ IsCalendar(FxRefreshed(now, end)) /\ FxSound(FxRefreshed(now, end), end)
           /\ \A e \in Event : Remembers(caches["fx"], e) /\ at[e] + Active >= time
                  => \E r \in FxRefreshed(now, end).previous : r.id = e /\ r.fetched <= time
<1> DEFINE c == caches["fx"]
<1> DEFINE f == FxRefreshed(now, end)
<1>0. /\ at \in [Event -> Nat \ {0}] /\ listed \subseteq Event /\ time \in Nat
      /\ Active \in Nat /\ MaxLag \in Nat /\ CacheFor \in Nat /\ CacheFor > Active + MaxLag
  BY MacroAssumption DEF MacroTypes
<1>1. /\ f = [now |-> FxRows(now, end), previous |-> c.now, fetched |-> end, retry |-> NoTime]
      /\ f.now = FxRows(now, end) /\ f.previous = c.now /\ f.fetched = end
  BY DEF FxRefreshed
<1>2. \A r \in FxRows(now, end) : FxRow(r) /\ r.fetched = end
  BY DEF FxRows, Row, FxRow
<1>3. \A r \in c.now : FxRow(r) /\ r.fetched = c.fetched
  BY DEF FxSound
<1>4. c.fetched \in Nat /\ c.fetched <= time
  BY DEF FxSound
<1>5. \A r \in c.now : (\E s \in FxRows(now, end) : s.id = r.id) \/ at[r.id] <= end
  <2> SUFFICES ASSUME NEW r \in c.now, ~(at[r.id] <= end)
               PROVE \E s \in FxRows(now, end) : s.id = r.id
    OBVIOUS
  <2>1. r.id \in listed /\ at[r.id] \in Nat
    BY <1>0, <1>3 DEF FxRow
  <2>2. at[r.id] > now
    BY <2>1
  <2>3. Row(r.id, end, "HIGH", NoTime) \in FxRows(now, end)
    BY <2>1, <2>2 DEF FxRows
  <2> QED
    BY <2>3 DEF Row
<1>6. IsCalendar(f)
  BY <1>1 DEF IsCalendar
<1> HIDE DEF f, c
<1>7. FxSound(f, end)
  BY <1>0, <1>1, <1>2, <1>3, <1>4, <1>5 DEF FxSound
<1>8. ASSUME NEW e \in Event, Remembers(c, e), at[e] + Active >= time
      PROVE  \E r \in f.previous : r.id = e /\ r.fetched <= time
  <2>1. CASE \E r \in c.now : r.id = e
    BY <1>1, <1>3, <1>4, <2>1
  <2>2. CASE ~\E r \in c.now : r.id = e
    <3>1. PICK r \in c.previous : r.id = e
      BY <1>8, <2>2 DEF Remembers
    <3>2. at[e] <= c.fetched
      BY <2>2, <3>1 DEF FxSound, c
    <3>3. at[e] \in Nat \ {0}
      BY <1>0
    <3>4. now - c.fetched >= CacheFor
      BY <1>4, <3>2, <3>3 DEF NoTime, c
    <3> QED
      BY <1>0, <1>4, <1>8, <3>2, <3>3, <3>4
  <2> QED
    BY <2>1, <2>2
<1> QED
  BY <1>6, <1>7, <1>8 DEF f, c

LEMMA FxRequest ==
    ASSUME MacroTypes, FxSound(caches["fx"], time), NEW now \in Nat, NEW end \in Nat,
           time <= now, now <= end, now <= time + MaxLag,
           NEW o \in FxOutcomes(time, now, end)
    PROVE  FxResult(o, now, end)
<1> DEFINE c == caches["fx"]
<1> DEFINE f == FxRefreshed(now, end)
<1> DEFINE due == c.fetched = NoTime \/ now - c.fetched >= CacheFor
<1> DEFINE quiet == c.retry # NoTime /\ now < c.retry
<1> DEFINE failed(pause, why) ==
              [cache |-> [c EXCEPT !.retry = now + pause], rows |-> {}, health |-> why, error |-> TRUE, end |-> now]
<1>0. IsCalendar(c) /\ time \in Nat
  BY DEF MacroTypes
<1>1. FxSound(c, now)
  BY <1>0 DEF FxSound
<1>2. ASSUME NEW e \in Event, Remembers(c, e)
      PROVE  \E r \in FxVisible(c, time) : r.id = e
  <2>1. PICK r \in c.now \cup c.previous : r.id = e
    BY <1>2 DEF Remembers
  <2>2. r.fetched <= time
    BY <1>0, <2>1 DEF FxSound, FxRow
  <2> QED
    BY <1>0, <2>1, <2>2, KnownIsVisible
<1>3. CASE o.cache = c /\ o.end = now /\ o.error \in BOOLEAN /\ (~o.error => o.rows = FxVisible(c, time))
  BY <1>0, <1>1, <1>2, <1>3 DEF FxResult
<1>4. ASSUME NEW pause, NEW why, o = failed(pause, why) PROVE FxResult(o, now, end)
  <2> DEFINE d == [c EXCEPT !.retry = now + pause]
  <2>1. o.cache = d /\ o.end = now /\ o.error = TRUE
    BY <1>4
  <2>2. /\ d = [now |-> c.now, previous |-> c.previous, fetched |-> c.fetched, retry |-> now + pause]
        /\ d.now = c.now /\ d.previous = c.previous /\ d.fetched = c.fetched /\ d.retry = now + pause
    BY <1>0 DEF IsCalendar
  <2> HIDE DEF d
  <2>3. IsCalendar(d)
    BY <2>2 DEF IsCalendar
  <2>4. FxSound(d, now) /\ \A e : Remembers(c, e) => Remembers(d, e)
    BY <1>1, <2>2 DEF FxSound, Remembers
  <2> QED
    BY <1>0, <2>1, <2>3, <2>4 DEF FxResult
<1>5. ASSUME due, o.cache = f, o.end = end, o.error = FALSE, o.rows = FxVisible(f, time)
      PROVE  FxResult(o, now, end)
  <2>1. /\ IsCalendar(f) /\ FxSound(f, end)
        /\ \A e \in Event : Remembers(c, e) /\ at[e] + Active >= time
               => \E r \in f.previous : r.id = e /\ r.fetched <= time
    BY <1>5, RefreshRemembers
  <2> HIDE DEF f, c
  <2>2. ASSUME NEW e \in Event, Remembers(c, e), at[e] + Active >= time
        PROVE  Remembers(f, e) /\ \E r \in FxVisible(f, time) : r.id = e
    <3>1. PICK r \in f.previous : r.id = e /\ r.fetched <= time
      BY <2>1, <2>2
    <3> QED
      BY <1>0, <2>1, <3>1, KnownIsVisible DEF Remembers
  <2>3. end >= time
    BY <1>0
  <2>4. \A e \in Event : Remembers(caches["fx"], e) /\ at[e] + Active >= time
            => Remembers(f, e) /\ \E r \in FxVisible(f, time) : r.id = e
    BY <2>2 DEF c
  <2> QED
    BY <1>5, <2>1, <2>3, <2>4 DEF FxResult
<1>6. CASE ~due
  <2>1. o = [cache |-> c, rows |-> FxVisible(c, time), health |-> providerHealth, error |-> FALSE, end |-> now]
    BY <1>6 DEF FxOutcomes
  <2> QED
    BY <1>3, <2>1
<1>7. CASE due /\ quiet
  <2>1. \/ o = [cache |-> c, rows |-> {}, health |-> providerHealth, error |-> TRUE, end |-> now]
        \/ o = [cache |-> c, rows |-> FxVisible(c, time), health |-> "PARTIAL", error |-> FALSE, end |-> now]
    BY <1>7 DEF FxOutcomes
  <2>2. o.cache = c /\ o.end = now /\ o.error \in BOOLEAN /\ (~o.error => o.rows = FxVisible(c, time))
    <3>1. CASE o = [cache |-> c, rows |-> {}, health |-> providerHealth, error |-> TRUE, end |-> now]
      BY <3>1
    <3>2. CASE o = [cache |-> c, rows |-> FxVisible(c, time), health |-> "PARTIAL", error |-> FALSE, end |-> now]
      BY <3>2
    <3> QED
      BY <2>1, <3>1, <3>2
  <2> QED
    BY <1>3, <2>2
<1>8. CASE due /\ ~quiet
  <2>1. \/ o = [cache |-> f, rows |-> FxVisible(f, time),
                health |-> IF f.now = {} THEN "EMPTY" ELSE "READY", error |-> FALSE, end |-> end]
        \/ o = failed(RetryRate, "RATE_LIMITED") \/ o = failed(RetryOther, "PROVIDER_FAILURE")
    BY <1>8 DEF FxOutcomes
  <2>2. CASE o = failed(RetryRate, "RATE_LIMITED")
    BY ONLY <1>4, <2>2
  <2>3. CASE o = failed(RetryOther, "PROVIDER_FAILURE")
    BY ONLY <1>4, <2>3
  <2>4. ASSUME NEW h, o = [cache |-> f, rows |-> FxVisible(f, time), health |-> h, error |-> FALSE, end |-> end]
        PROVE  FxResult(o, now, end)
    <3>1. o.cache = f /\ o.end = end /\ o.error = FALSE /\ o.rows = FxVisible(f, time)
      BY <2>4
    <3> QED
      BY <1>5, <1>8, <3>1
  <2> QED
    BY <2>1, <2>2, <2>3, <2>4
<1> QED
  BY <1>6, <1>7, <1>8

\* The verdict on rows that show an event in its window.
LEMMA ShownStops ==
    ASSUME MacroTypes, NEW rows, \A r \in rows : FxRow(r) /\ r.fetched <= time,
           NEW r \in rows, at[r.id] <= time, time <= at[r.id] + Active, NEW h
    PROVE  Verdict(ScoutStatus(rows, time, h), Accepted(rows, time)) # "open"
<1> DEFINE i == [id |-> r.id, impact |-> r.impact, window |-> WindowOf(r.at, time)]
<1>1. FxRow(r) /\ r.fetched <= time
  OBVIOUS
<1>2. at[r.id] \in Nat /\ time \in Nat /\ Active \in Nat
  BY <1>1, MacroAssumption DEF MacroTypes, FxRow
<1>3. WindowOf(r.at, time) = "ACTIVE_WINDOW"
  <2>1. r.at = at[r.id]
    BY <1>1 DEF FxRow
  <2>2. ASSUME NEW x \in Nat, NEW y \in Nat, x <= y, y <= x + Active
        PROVE  WindowOf(x, y) = "ACTIVE_WINDOW"
    <3>1. ~(x > y) /\ y - x <= Active /\ ~(y - x > Active)
      BY <1>2, <2>2
    <3> QED
      BY ONLY <2>2, <3>1 DEF WindowOf
  <2> QED
    BY <1>2, <2>1, <2>2
<1>4. ~FromTheFuture(r, time)
  BY <1>1, <1>2 DEF FromTheFuture, FxRow
<1>5. i \in Accepted(rows, time) /\ i.impact = "HIGH" /\ i.window = "ACTIVE_WINDOW"
  BY <1>1, <1>3, <1>4 DEF Accepted, FxRow
<1>6. ScoutStatus(rows, time, h) # "ERROR"
  BY DEF ScoutStatus
<1>7. Verdict(ScoutStatus(rows, time, h), Accepted(rows, time)) = "WATCH"
  BY <1>5, <1>6 DEF Verdict
<1> QED
  BY <1>7

LEMMA CycleFxKeeps == MacroInv /\ CycleFx => MacroInv'
<1> SUFFICES ASSUME MacroInv, CycleFx PROVE MacroInv'
  OBVIOUS
<1>1. PICK now \in time..(time + MaxLag) : \E end \in now..(time + MaxLag) :
          FetchOne("fx", FxOutcomes(time, now, end))
  BY DEF CycleFx
<1>2. PICK end \in now..(time + MaxLag) : FetchOne("fx", FxOutcomes(time, now, end))
  BY <1>1
<1>3. PICK o \in FxOutcomes(time, now, end) :
        /\ caches' = [caches EXCEPT !["fx"] = o.cache] /\ time' = o.end
        /\ Reported(time, o.rows, o.health, o.error)
  BY <1>2 DEF FetchOne
<1>4. mode = "fxmacrodata" /\ UNCHANGED <<mode, at, listed>>
  BY DEF CycleFx
<1>5. MacroTypes /\ time \in Nat /\ MaxLag \in Nat /\ seen \subseteq Event /\ FxSound(caches["fx"], time)
  BY <1>4, MacroAssumption DEF MacroInv, MacroTypes, ShownIsRemembered
<1>6. FxResult(o, now, end)
  BY <1>5, FxRequest
<1>7. caches'["fx"] = o.cache /\ time' \in Nat /\ time' >= time
  BY <1>3, <1>5, <1>6 DEF MacroTypes, FxResult
<1>8. \A r \in o.rows : ~o.error => FxRow(r) /\ r.fetched <= time /\ Remembers(o.cache, r.id)
  BY <1>6, VisibleIsKnown DEF FxResult, Remembers
<1>9. \A e \in seen' : e \in seen \/ (~o.error /\ \E r \in o.rows : r.id = e)
  BY <1>3 DEF Reported, Accepted
<1>10. MacroTypes'
  <2>1. /\ caches' = [k \in {"fx", "finnhub"} \cup Source |-> caches'[k]]
        /\ \A k \in {"fx", "finnhub"} \cup Source : IsCalendar(caches'[k])
    BY <1>3, <1>5, <1>6 DEF MacroTypes, FxResult
  <2> QED
    BY <1>4, <1>5, <1>7, <2>1 DEF MacroTypes, IsCalendar
<1>11. ShownIsRemembered'
  <2>1. FxSound(caches["fx"], time)'
    BY <1>3, <1>4, <1>6, <1>7 DEF FxResult, FxSound, FxRow
  <2>2. seen' \subseteq Event
    BY <1>5, <1>8, <1>9 DEF MacroTypes, FxRow
  <2>3. ASSUME NEW e \in seen' PROVE Remembers(o.cache, e) \/ at[e] + Active < time'
    <3>1. CASE e \in seen
      <4>1. e \in Event /\ at[e] \in Nat /\ Active \in Nat
        BY <1>5, <3>1, MacroAssumption DEF MacroTypes
      <4>2. Remembers(caches["fx"], e) \/ at[e] + Active < time
        BY <1>4, <3>1 DEF MacroInv, ShownIsRemembered
      <4> QED
        BY <1>5, <1>6, <1>7, <4>1, <4>2 DEF FxResult
    <3>2. CASE e \notin seen
      BY <1>8, <1>9, <2>3, <3>2
    <3> QED
      BY <3>1, <3>2
  <2> QED
    BY <1>4, <1>7, <2>1, <2>2, <2>3 DEF ShownIsRemembered, Remembers
<1>12. NoImpactMarked'
  BY <1>4 DEF NoImpactMarked
<1>13. ActiveWindowHeld'
  <2> SUFFICES ASSUME NEW e \in seen', at[e] <= time, time <= at[e] + Active
               PROVE report'.verdict # "open"
    BY <1>3, <1>4 DEF ActiveWindowHeld, Reported
  <2>1. CASE o.error
    <3>1. report'.verdict = Verdict("ERROR", {})
      BY <1>3, <2>1 DEF Reported
    <3> QED
      BY <3>1 DEF Verdict
  <2>2. CASE ~o.error
    <3>1. \E r \in o.rows : r.id = e
      <4>1. CASE e \in seen
        <5>1. e \in Event /\ at[e] \in Nat /\ Active \in Nat
          BY <1>5, <4>1, MacroAssumption DEF MacroTypes
        <5>2. Remembers(caches["fx"], e)
          BY <1>4, <1>5, <4>1, <5>1 DEF MacroInv, ShownIsRemembered
        <5> QED
          BY <1>5, <1>6, <2>2, <5>1, <5>2 DEF FxResult
      <4> QED
        BY <1>9, <4>1
    <3>2. PICK r \in o.rows : r.id = e
      BY <3>1
    <3>3. report'.verdict = Verdict(ScoutStatus(o.rows, time, o.health), Accepted(o.rows, time))
      BY <1>3, <2>2 DEF Reported
    <3>4. \A s \in o.rows : FxRow(s) /\ s.fetched <= time
      BY <1>8, <2>2
    <3> QED
      BY <1>5, <3>2, <3>3, <3>4, ShownStops
  <2> QED
    BY <2>1, <2>2
<1> QED
  BY <1>10, <1>11, <1>12, <1>13 DEF MacroInv

\* The official calendars: no row is marked HIGH.
LEMMA CycleOfficialKeeps == MacroInv /\ CycleOfficial => MacroInv'
<1> SUFFICES ASSUME MacroInv, CycleOfficial PROVE MacroInv'
  OBVIOUS
<1>1. PICK now \in time..(time + MaxLag), fails \in SUBSET Source :
        LET o == OfficialOutcome(time, now, fails)
        IN  /\ caches' = [k \in DOMAIN caches |-> IF k \in Source THEN o.feeds[k].kept ELSE caches[k]]
            /\ time' = now
            /\ Reported(time, o.rows, o.health, FALSE)
  BY DEF CycleOfficial
<1> DEFINE o == OfficialOutcome(time, now, fails)
<1>2. mode = "official_hybrid" /\ UNCHANGED <<mode, at, listed>>
  BY DEF CycleOfficial
<1>3. MacroTypes /\ seen = {} /\ \A s \in Source : \A r \in caches[s].now : r.impact = "none"
  BY <1>2 DEF MacroInv, NoImpactMarked
<1>4. ASSUME NEW s \in Source
      PROVE  LET x == FeedRefreshed(s, now, fails)
             IN  IsCalendar(x.kept) /\ \A r \in x.kept.now \cup x.rows : r.impact = "none"
  <2> DEFINE c == caches[s]
  <2> DEFINE x == FeedRefreshed(s, now, fails)
  <2> DEFINE rows == {Row(e, now, "none", NoTime) : e \in listed}
  <2>1. IsCalendar(c) /\ \A r \in c.now : r.impact = "none"
    BY <1>3 DEF MacroTypes
  <2>2. \/ x = [kept |-> c, rows |-> c.now, state |-> "READY"]
        \/ x = [kept |-> c, rows |-> {}, state |-> "PROVIDER_FAILURE"]
        \/ x = [kept |-> [c EXCEPT !.retry = now + RetryRate], rows |-> {}, state |-> "PROVIDER_FAILURE"]
        \/ x = [kept |-> [now |-> rows, previous |-> {}, fetched |-> now, retry |-> NoTime],
                rows |-> rows, state |-> "READY"]
    BY DEF FeedRefreshed
  <2>3. \A r \in rows : r.impact = "none"
    BY DEF Row
  <2>4. [c EXCEPT !.retry = now + RetryRate] =
            [now |-> c.now, previous |-> c.previous, fetched |-> c.fetched, retry |-> now + RetryRate]
    BY <2>1 DEF IsCalendar
  <2> HIDE DEF rows, c, x
  <2>5. IsCalendar(x.kept) /\ \A r \in x.kept.now \cup x.rows : r.impact = "none"
    BY <2>1, <2>2, <2>3, <2>4 DEF IsCalendar
  <2> QED
    BY <2>5 DEF x
<1>5. /\ o.feeds = [s \in Source |-> FeedRefreshed(s, now, fails)]
      /\ \A r \in o.rows : \E s \in Source : r \in FeedRefreshed(s, now, fails).rows
  BY DEF OfficialOutcome
<1>6. \A r \in o.rows : r.impact = "none"
  BY <1>4, <1>5
<1> HIDE DEF o
<1>7. seen' = {}
  <2>1. Reported(time, o.rows, o.health, FALSE)
    BY <1>1 DEF o
  <2>2. \A i \in Accepted(o.rows, time) : i.impact = "none"
    BY <1>6 DEF Accepted
  <2> QED
    BY <1>3, <2>1, <2>2 DEF Reported
<1>8. \A k \in {"fx", "finnhub"} \cup Source :
          caches'[k] = IF k \in Source THEN FeedRefreshed(k, now, fails).kept ELSE caches[k]
  BY <1>1, <1>3, <1>5 DEF MacroTypes, o
<1>9. MacroTypes'
  <2>1. caches' = [k \in {"fx", "finnhub"} \cup Source |-> caches'[k]]
    BY <1>1, <1>3, <1>8 DEF MacroTypes
  <2>2. \A k \in {"fx", "finnhub"} \cup Source : IsCalendar(caches'[k])
    BY <1>3, <1>4, <1>8 DEF MacroTypes
  <2>3. time' \in Nat
    BY <1>1, <1>3, MacroAssumption DEF MacroTypes
  <2> QED
    BY <1>2, <1>3, <1>7, <2>1, <2>2, <2>3 DEF MacroTypes, IsCalendar
<1>10. NoImpactMarked'
  BY <1>4, <1>7, <1>8 DEF NoImpactMarked
<1> QED
  BY <1>2, <1>7, <1>9, <1>10 DEF MacroInv, ShownIsRemembered, ActiveWindowHeld

\* Of finnhub nothing is promised but the form of its cache.
LEMMA CycleFinnhubKeeps == MacroInv /\ CycleFinnhub => MacroInv'
<1> SUFFICES ASSUME MacroInv, CycleFinnhub PROVE MacroInv'
  OBVIOUS
<1>1. PICK now \in time..(time + MaxLag) : FetchOne("finnhub", FinnhubOutcomes(time, now))
  BY DEF CycleFinnhub
<1>2. PICK o \in FinnhubOutcomes(time, now) : caches' = [caches EXCEPT !["finnhub"] = o.cache] /\ time' = o.end
  BY <1>1 DEF FetchOne
<1>3. mode = "finnhub" /\ UNCHANGED <<mode, at, listed>> /\ MacroTypes
  BY DEF CycleFinnhub, MacroInv
<1>4. IsCalendar(o.cache) /\ o.end = now
  <2> DEFINE c == caches["finnhub"]
  <2> DEFINE fresh == [now |-> FinnhubRows(now), previous |-> {}, fetched |-> now, retry |-> NoTime]
  <2>1. (o.cache = c \/ o.cache = fresh) /\ o.end = now
    BY DEF FinnhubOutcomes
  <2>2. IsCalendar(c) /\ IsCalendar(fresh)
    BY <1>3 DEF MacroTypes, IsCalendar
  <2> QED
    BY <2>1, <2>2
<1>5. time' \in Nat
  BY <1>2, <1>3, <1>4, MacroAssumption DEF MacroTypes
<1>6. \A k \in {"fx", "finnhub"} \cup Source : IsCalendar(caches'[k])
  BY <1>2, <1>3, <1>4 DEF MacroTypes
<1>7. caches' = [k \in {"fx", "finnhub"} \cup Source |-> caches'[k]]
  BY <1>2, <1>3 DEF MacroTypes
<1>8. MacroTypes'
  BY <1>3, <1>5, <1>6, <1>7 DEF MacroTypes, IsCalendar
<1> QED
  BY <1>3, <1>8 DEF MacroInv, ShownIsRemembered, NoImpactMarked, ActiveWindowHeld

\* The steps that fetch nothing.
LEMMA MacroRestKeeps ==
    MacroInv /\ (TimePasses \/ MacroRestart \/ (\E e \in Event : Confirm(e)) \/ UNCHANGED macroVars) => MacroInv'
<1> SUFFICES ASSUME MacroInv PROVE
        (TimePasses \/ MacroRestart \/ (\E e \in Event : Confirm(e)) \/ UNCHANGED macroVars) => MacroInv'
  OBVIOUS
<1> USE DEF MacroInv
<1>0. /\ at \in [Event -> Nat \ {0}] /\ time \in Nat /\ Active \in Nat
  BY MacroAssumption DEF MacroTypes
<1>1. ASSUME TimePasses PROVE MacroInv'
  <2>1. time' = time + 1 /\ UNCHANGED <<mode, at, listed, caches, report, seen>>
    BY <1>1 DEF TimePasses
  <2>2. MacroTypes'
    BY <1>0, <2>1 DEF MacroTypes, IsCalendar
  <2>3. NoImpactMarked' /\ ActiveWindowHeld'
    BY <2>1 DEF NoImpactMarked, ActiveWindowHeld
  <2>4. ASSUME mode = "fxmacrodata"
        PROVE  /\ seen \subseteq Event /\ FxSound(caches["fx"], time + 1)
               /\ \A e \in seen : Remembers(caches["fx"], e) \/ at[e] + Active < time + 1
    BY <1>0, <2>4 DEF ShownIsRemembered, FxSound
  <2>5. ShownIsRemembered'
    BY <2>1, <2>4 DEF ShownIsRemembered, FxSound, FxRow, Remembers
  <2> QED
    BY <2>2, <2>3, <2>5
<1>2. ASSUME MacroRestart PROVE MacroInv'
  <2>1. /\ caches' = [k \in DOMAIN caches |-> EmptyCache] /\ seen' = {}
        /\ UNCHANGED <<mode, at, listed, time>>
    BY <1>2 DEF MacroRestart
  <2>2. DOMAIN caches = {"fx", "finnhub"} \cup Source
    BY DEF MacroTypes
  <2>3. MacroTypes'
    BY <2>1, <2>2 DEF MacroTypes, IsCalendar, EmptyCache
  <2>4. ShownIsRemembered'
    BY <1>0, <2>1, <2>2 DEF ShownIsRemembered, FxSound, EmptyCache, NoTime
  <2>5. NoImpactMarked' /\ ActiveWindowHeld'
    BY <2>1, <2>2 DEF NoImpactMarked, EmptyCache, ActiveWindowHeld
  <2> QED
    BY <2>3, <2>4, <2>5
<1>3. ASSUME NEW e \in Event, Confirm(e) PROVE MacroInv'
  <2>1. listed' = listed \cup {e} /\ UNCHANGED <<mode, at, time, caches, report, seen>>
    BY <1>3 DEF Confirm
  <2>2. MacroTypes'
    BY <2>1 DEF MacroTypes, IsCalendar
  <2>3. ShownIsRemembered'
    BY <2>1 DEF ShownIsRemembered, FxSound, FxRow, Remembers
  <2>4. NoImpactMarked' /\ ActiveWindowHeld'
    BY <2>1 DEF NoImpactMarked, ActiveWindowHeld
  <2> QED
    BY <2>2, <2>3, <2>4
<1>4. ASSUME UNCHANGED macroVars PROVE MacroInv'
  BY <1>4 DEF macroVars, MacroTypes, IsCalendar, ShownIsRemembered, FxSound, FxRow, Remembers,
              NoImpactMarked, ActiveWindowHeld
<1> QED
  BY <1>1, <1>2, <1>3, <1>4

\* Once the process has shown a HIGH event, no report for a slot in its active window lets a setup
\* through, whatever refreshes, outages and late answers fall in it, for any events, cache time
\* and window (fxmacrodata_provider.py _refresh, macro_events_at; setup_validator.py).
THEOREM ActiveWindowHolds == MacroSpec => []ActiveWindowHeld
<1>1. MacroInv /\ [MacroNext]_macroVars => MacroInv'
  BY CycleFxKeeps, CycleOfficialKeeps, CycleFinnhubKeeps, MacroRestKeeps DEF MacroNext
<1>2. MacroInv => ActiveWindowHeld
  BY DEF MacroInv
<1> QED
  BY MacroInitInv, <1>1, <1>2, PTL DEF MacroSpec
=============================================================================
