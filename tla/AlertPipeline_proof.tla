------------------------- MODULE AlertPipeline_proof -------------------------
(***************************************************************************)
(* The inductive invariant of the alert pipeline: a notification is posted  *)
(* at most once, and the outcome of an alert is that of the sender whose    *)
(* claim it is, for any rows, workers, sizes of the queue and bounds.       *)
(***************************************************************************)
EXTENDS AlertPipeline, FiniteSetTheorems, SequenceTheorems, TLAPS

\* The runner's side.  A batch is made of captured rows, of which there are finitely many.
OutboxTypes ==
    /\ journal \subseteq Event /\ IsFiniteSet(journal) /\ captured \subseteq journal
    /\ delivery \in [Event -> [status : {"NONE", "CLAIMED", "DELIVERED", "FAILED", "UNKNOWN"},
                               old : BOOLEAN]]
    /\ posted \in [Event -> Nat]
    /\ runner \in [pc : {"idle", "capture", "claim", "post", "complete", "outbox"},
                   batch : Seq(Event), offer : Seq(Event), error : BOOLEAN]
    /\ queue \in Seq(Event)

\* The workers' side.  A worker that is not idle has an event.
LedgerTypes ==
    /\ saved \subseteq Event
    /\ ledger \in [Event -> [status : {"NONE", "SENDING", "DELIVERED", "FAILED"}, claim : Nat,
                             old : BOOLEAN, met : {"NONE", "DELIVERED", "FAILED"}]]
    /\ worker \in [Worker -> [pc : {"idle", "save", "claim", "send", "complete"},
                              event : Event \cup {"none"}, claim : Nat, tries : Nat,
                              error : BOOLEAN]]
    /\ \A w \in Worker : worker[w].pc # "idle" => worker[w].event \in Event

\* What a delivery row says of the posts: none before the claim, one at the most after it,
\* and between claim and outcome the runner holds the claim of the event it posts.
RowOfPost(e) ==
    /\ posted[e] <= 1
    /\ delivery[e].status = "NONE" => posted[e] = 0
    /\ delivery[e].status = "DELIVERED" => posted[e] = 1
Posting ==
    runner.pc \in {"post", "complete"} =>
        /\ runner.batch # <<>>
        /\ delivery[Head(runner.batch)].status = "CLAIMED"
        /\ runner.pc = "post" => posted[Head(runner.batch)] = 0
        /\ runner.pc = "complete" /\ ~runner.error => posted[Head(runner.batch)] = 1
OneAttempt == (\A e \in Event : RowOfPost(e)) /\ Posting

\* A sender between claim and outcome.
Sending(w) == worker[w].pc \in {"send", "complete"}
Outcome(w) == IF worker[w].error THEN "FAILED" ELSE "DELIVERED"
\* Its claim is not newer than the ledger's; while it is the ledger's, the row waits for it and
\* what is noted of the claim is what this sender met.
SenderOK(w) ==
    LET row == ledger[worker[w].event] IN
    Sending(w) => /\ worker[w].claim <= row.claim
                  /\ worker[w].claim = row.claim =>
                        /\ row.status = "SENDING"
                        /\ worker[w].pc = "complete" => row.met = Outcome(w)
\* No two senders hold the same claim of an event.
ApartOK(v, w) ==
    v # w /\ Sending(v) /\ Sending(w) /\ worker[v].event = worker[w].event =>
        worker[v].claim # worker[w].claim
RowOfClaim(e) == ledger[e].status \in {"DELIVERED", "FAILED"} => ledger[e].status = ledger[e].met
OneHolder ==
    /\ \A w \in Worker : SenderOK(w)
    /\ \A v, w \in Worker : ApartOK(v, w)
    /\ \A e \in Event : RowOfClaim(e)

\* The inductive invariant of the pipeline.
AlertInv == OutboxTypes /\ LedgerTypes /\ OneAttempt /\ OneHolder

-----------------------------------------------------------------------------
\* A batch made of a finite set of rows is a sequence of them (SetToSeq).
LEMMA SeqOfSet ==
    ASSUME NEW S, IsFiniteSet(S)
    PROVE  SetToSeq(S) \in Seq(S)
<1> DEFINE n == Cardinality(S)
<1>1. n \in Nat /\ ExistsBijection(1..n, S)
    BY FS_CardinalityType
<1>2. PICK f \in Bijection(1..n, S) : TRUE
    BY <1>1 DEF ExistsBijection
<1>3. f \in [1..n -> S] /\ IsInjective(f)
    BY <1>2 DEF Bijection, Injection, IsInjective
<1>4. SetToSeq(S) \in [1..n -> S]
    BY <1>3 DEF SetToSeq
<1>. HIDE DEF n
<1>5. QED BY <1>1, <1>4

\* The same for some rows of the journal.
LEMMA BatchOfRows ==
    ASSUME OutboxTypes, NEW S \in SUBSET journal
    PROVE  SetToSeq(S) \in Seq(Event)
<1>1. IsFiniteSet(S)
    BY FS_Subset DEF OutboxTypes
<1>2. SetToSeq(S) \in Seq(S)
    BY <1>1, SeqOfSet
<1>3. S \subseteq Event
    BY DEF OutboxTypes
<1>4. QED BY <1>2, <1>3

\* What is left of a batch.
LEMMA FirstOfBatch ==
    ASSUME NEW s \in Seq(Event), s # <<>>
    PROVE  Head(s) \in Event /\ Tail(s) \in Seq(Event)
BY HeadTailProperties

-----------------------------------------------------------------------------
\* What an action leaves alone keeps what is said of it.
LEMMA OutboxFrame ==
    ASSUME OutboxTypes, OneAttempt, UNCHANGED outboxVars, queue' \in Seq(Event)
    PROVE  OutboxTypes' /\ OneAttempt'
<1>1. OutboxTypes'
    BY DEF OutboxTypes, outboxVars
<1>2. OneAttempt'
    BY DEF OneAttempt, RowOfPost, Posting, outboxVars
<1>3. QED BY <1>1, <1>2

LEMMA LedgerFrame ==
    ASSUME LedgerTypes, OneHolder, UNCHANGED ledgerVars
    PROVE  LedgerTypes' /\ OneHolder'
<1>1. LedgerTypes'
    BY DEF LedgerTypes, ledgerVars
<1>2. OneHolder'
    BY DEF OneHolder, SenderOK, ApartOK, RowOfClaim, Sending, Outcome, ledgerVars
<1>3. QED BY <1>1, <1>2

-----------------------------------------------------------------------------
LEMMA InitHolds ==
    ASSUME AlertInit
    PROVE  AlertInv
<1>1. IsFiniteSet({})
    BY FS_EmptySet
<1>2. OutboxTypes
    BY <1>1 DEF AlertInit, OutboxTypes, Resting
<1>3. LedgerTypes
    BY DEF AlertInit, LedgerTypes, Free
<1>4. OneAttempt
    BY DEF AlertInit, OneAttempt, RowOfPost, Posting, Resting
<1>5. OneHolder
    BY DEF AlertInit, OneHolder, SenderOK, ApartOK, RowOfClaim, Sending, Free
<1>6. QED BY <1>2, <1>3, <1>4, <1>5 DEF AlertInv

-----------------------------------------------------------------------------
\* The runner's steps that post nothing and record no claim or outcome.
LEMMA WriteRowHolds ==
    ASSUME AlertInv, NEW e \in Event, WriteRow(e)
    PROVE  AlertInv'
<1>. USE DEF AlertInv
<1>1. LedgerTypes' /\ OneHolder'
    BY LedgerFrame DEF WriteRow
<1>2. IsFiniteSet(journal \cup {e})
    BY FS_AddElement DEF OutboxTypes
<1>3. OutboxTypes'
    BY <1>2 DEF WriteRow, OutboxTypes
<1>4. OneAttempt'
    BY DEF WriteRow, OneAttempt, RowOfPost, Posting, OutboxTypes
<1>5. QED BY <1>1, <1>3, <1>4

LEMMA CaptureHolds ==
    ASSUME AlertInv, Capture
    PROVE  AlertInv'
<1>. USE DEF AlertInv
<1>1. LedgerTypes' /\ OneHolder'
    BY LedgerFrame DEF Capture
<1>2. PICK s : s = SetToSeq(journal \ captured)
    OBVIOUS
<1>3. s \in Seq(Event)
    BY <1>2, BatchOfRows
<1>4. runner' = [runner EXCEPT !.pc = "claim", !.batch = s, !.offer = s]
    BY <1>2 DEF Capture
<1>5. OutboxTypes'
    BY <1>3, <1>4 DEF Capture, OutboxTypes
<1>6. OneAttempt'
    BY <1>4 DEF Capture, OneAttempt, RowOfPost, Posting, OutboxTypes
<1>7. QED BY <1>1, <1>5, <1>6

LEMMA CaptureFailsHolds ==
    ASSUME AlertInv, NEW after \in BOOLEAN, CaptureFails(after)
    PROVE  AlertInv'
<1>. USE DEF AlertInv
<1>1. LedgerTypes' /\ OneHolder'
    BY LedgerFrame DEF CaptureFails
<1>2. OutboxTypes'
    BY DEF CaptureFails, OutboxTypes
<1>3. OneAttempt'
    BY DEF CaptureFails, OneAttempt, RowOfPost, Posting, OutboxTypes
<1>4. QED BY <1>1, <1>2, <1>3

LEMMA OfferHolds ==
    ASSUME AlertInv, Offer
    PROVE  AlertInv'
<1>. USE DEF AlertInv
<1>1. LedgerTypes' /\ OneHolder'
    BY LedgerFrame DEF Offer
<1>2. runner.offer # <<>> => Head(runner.offer) \in Event /\ Tail(runner.offer) \in Seq(Event)
    BY FirstOfBatch DEF OutboxTypes
<1>3. queue' \in Seq(Event)
  <2>1. \/ queue' = queue
        \/ runner.offer # <<>> /\ queue' = Append(queue, Head(runner.offer))
    BY DEF Offer
  <2>2. queue \in Seq(Event)
    BY DEF OutboxTypes
  <2>3. \A f \in Event : Append(queue, f) \in Seq(Event)
    BY <2>2, AppendProperties
  <2>4. QED BY <2>1, <2>2, <2>3, <1>2
<1>4. runner' \in [pc : {"idle", "capture", "claim", "post", "complete", "outbox"},
                   batch : Seq(Event), offer : Seq(Event), error : BOOLEAN]
    BY <1>2 DEF Offer, OutboxTypes
<1>5. OutboxTypes'
    BY <1>3, <1>4 DEF Offer, OutboxTypes
<1>6. runner'.pc \in {"claim", "outbox"}
    BY DEF Offer, OutboxTypes
<1>7. OneAttempt'
    BY <1>6 DEF Offer, OneAttempt, RowOfPost, Posting
<1>8. QED BY <1>1, <1>5, <1>7

LEMMA TickHolds ==
    ASSUME AlertInv, Tick
    PROVE  AlertInv'
<1>. USE DEF AlertInv
<1>1. LedgerTypes' /\ OneHolder'
    BY LedgerFrame DEF Tick
<1>2. OutboxTypes'
    BY DEF Tick, OutboxTypes
<1>3. OneAttempt'
    BY DEF Tick, OneAttempt, RowOfPost, Posting, OutboxTypes
<1>4. QED BY <1>1, <1>2, <1>3

-----------------------------------------------------------------------------
\* The runner's steps of one delivery.  A claim is of an event never posted, the post is the
\* only one between claim and outcome, and the outcome is that of the post.
LEMMA ClaimHolds ==
    ASSUME AlertInv, ClaimDelivery
    PROVE  AlertInv'
<1>. USE DEF AlertInv
<1> DEFINE e == Head(runner.batch)
<1>1. LedgerTypes' /\ OneHolder'
    BY LedgerFrame DEF ClaimDelivery
<1>2. e \in Event /\ Tail(runner.batch) \in Seq(Event)
    BY FirstOfBatch DEF OutboxTypes, ClaimDelivery
<1>3. CASE delivery[e].status = "NONE"
  <2>1. /\ delivery' = [delivery EXCEPT ![e] = [status |-> "CLAIMED", old |-> FALSE]]
        /\ runner' = [runner EXCEPT !.pc = "post"]
        /\ UNCHANGED <<journal, captured, posted, queue>> /\ runner.batch # <<>>
    BY <1>3 DEF ClaimDelivery
  <2>2. runner'.batch = runner.batch /\ runner'.pc = "post"
    BY <2>1 DEF OutboxTypes
  <2>3. posted[e] = 0
    BY <1>2, <1>3 DEF OneAttempt, RowOfPost
  <2>. HIDE DEF e
  <2>4. OutboxTypes'
    BY <2>1, <1>2 DEF OutboxTypes
  <2>5. delivery'[e].status = "CLAIMED" /\ \A f \in Event : f # e => delivery'[f] = delivery[f]
    BY <2>1, <1>2 DEF OutboxTypes
  <2>6. \A f \in Event : RowOfPost(f)'
    BY <2>1, <2>3, <2>5, <1>2 DEF OneAttempt, RowOfPost
  <2>7. Posting'
    BY <2>1, <2>2, <2>3, <2>5 DEF Posting, e
  <2>8. QED BY <1>1, <2>4, <2>6, <2>7 DEF OneAttempt
<1>4. CASE delivery[e].status # "NONE"
  <2>1. /\ runner' = [runner EXCEPT !.pc = "claim", !.batch = Tail(runner.batch)]
        /\ UNCHANGED <<journal, captured, delivery, posted, queue>>
    BY <1>4 DEF ClaimDelivery, NextEvent
  <2>2. OutboxTypes'
    BY <2>1, <1>2 DEF OutboxTypes
  <2>3. OneAttempt'
    BY <2>1 DEF OneAttempt, RowOfPost, Posting, OutboxTypes
  <2>4. QED BY <1>1, <2>2, <2>3
<1>5. QED BY <1>3, <1>4

LEMMA PostHolds ==
    ASSUME AlertInv, NEW reached \in BOOLEAN, NEW error \in BOOLEAN, ~reached => error,
           Post(reached, error)
    PROVE  AlertInv'
<1>. USE DEF AlertInv
<1> DEFINE e == Head(runner.batch)
<1>1. LedgerTypes' /\ OneHolder'
    BY LedgerFrame DEF Post
<1>2. runner.batch # <<>> /\ delivery[e].status = "CLAIMED" /\ posted[e] = 0
    BY DEF Post, OneAttempt, Posting
<1>3. e \in Event
    BY <1>2, FirstOfBatch DEF OutboxTypes
<1>4. /\ posted' = [posted EXCEPT ![e] = IF reached THEN 1 ELSE 0]
      /\ runner' = [runner EXCEPT !.pc = "complete", !.error = error]
      /\ UNCHANGED <<journal, captured, delivery, queue>>
    BY <1>2, <1>3 DEF Post, OutboxTypes
<1>5. runner'.batch = runner.batch /\ runner'.pc = "complete" /\ runner'.error = error
    BY <1>4 DEF OutboxTypes
<1>. HIDE DEF e
<1>6. OutboxTypes'
    BY <1>3, <1>4 DEF OutboxTypes
<1>7. /\ posted'[e] = IF reached THEN 1 ELSE 0
      /\ \A f \in Event : f # e => posted'[f] = posted[f]
    BY <1>3, <1>4 DEF OutboxTypes
<1>8. \A f \in Event : RowOfPost(f)'
    BY <1>2, <1>4, <1>7 DEF OneAttempt, RowOfPost
<1>9. ~error => posted'[e] = 1
    BY <1>7
<1>10. Posting'
    BY <1>2, <1>4, <1>5, <1>9 DEF Posting, e
<1>11. QED BY <1>1, <1>6, <1>8, <1>10 DEF OneAttempt

LEMMA CompleteHolds ==
    ASSUME AlertInv, Complete
    PROVE  AlertInv'
<1>. USE DEF AlertInv
<1> DEFINE e == Head(runner.batch)
           s == IF runner.error THEN "FAILED" ELSE "DELIVERED"
<1>1. LedgerTypes' /\ OneHolder'
    BY LedgerFrame DEF Complete
<1>2. /\ runner.batch # <<>> /\ delivery[e].status = "CLAIMED"
      /\ ~runner.error => posted[e] = 1
    BY DEF Complete, OneAttempt, Posting
<1>3. e \in Event /\ Tail(runner.batch) \in Seq(Event)
    BY <1>2, FirstOfBatch DEF OutboxTypes
<1>4. /\ delivery' = [delivery EXCEPT ![e].status = s]
      /\ runner' = [runner EXCEPT !.pc = "claim", !.batch = Tail(runner.batch)]
      /\ UNCHANGED <<journal, captured, posted, queue>>
    BY DEF Complete, NextEvent
<1>5. s \in {"FAILED", "DELIVERED"} /\ (s = "DELIVERED" => posted[e] = 1)
    BY <1>2 DEF OutboxTypes
<1>. HIDE DEF e, s
<1>6. OutboxTypes'
    BY <1>3, <1>4, <1>5 DEF OutboxTypes
<1>7. delivery'[e].status = s /\ \A f \in Event : f # e => delivery'[f] = delivery[f]
    BY <1>3, <1>4 DEF OutboxTypes
<1>8. \A f \in Event : RowOfPost(f)'
    BY <1>4, <1>5, <1>7 DEF OneAttempt, RowOfPost
<1>9. runner'.pc = "claim"
    BY <1>4 DEF OutboxTypes
<1>10. QED BY <1>1, <1>6, <1>8, <1>9 DEF OneAttempt, Posting

LEMMA SummaryOutboxHolds ==
    ASSUME AlertInv, SummaryOutbox
    PROVE  AlertInv'
<1>. USE DEF AlertInv
<1>1. LedgerTypes' /\ OneHolder'
    BY LedgerFrame DEF SummaryOutbox
<1>2. PICK s : s = SetToSeq({e \in Summary \cap captured : delivery[e].status = "NONE"})
    OBVIOUS
<1>3. s \in Seq(Event)
  <2>1. {e \in Summary \cap captured : delivery[e].status = "NONE"} \in SUBSET journal
    BY DEF OutboxTypes
  <2>2. QED BY <2>1, <1>2, BatchOfRows
<1>4. runner' \in {[Resting EXCEPT !.pc = "capture"], [Resting EXCEPT !.pc = "claim", !.batch = s],
                   Resting}
    BY <1>2 DEF SummaryOutbox
<1>5. runner' \in [pc : {"idle", "capture", "claim"},
                   batch : Seq(Event), offer : Seq(Event), error : BOOLEAN]
  <2>1. <<>> \in Seq(Event)
    OBVIOUS
  <2>2. CASE runner' = [Resting EXCEPT !.pc = "capture"]
    BY <2>1, <2>2 DEF Resting
  <2>3. CASE runner' = [Resting EXCEPT !.pc = "claim", !.batch = s]
    BY <2>1, <2>3, <1>3 DEF Resting
  <2>4. CASE runner' = Resting
    BY <2>1, <2>4 DEF Resting
  <2>5. QED BY <1>4, <2>2, <2>3, <2>4
<1>6. \A e \in Event : Expired(e) => delivery[e].status = "CLAIMED"
    BY DEF Expired
<1>7. delivery' = [e \in Event |-> IF Expired(e) THEN [delivery[e] EXCEPT !.status = "UNKNOWN"]
                                                ELSE delivery[e]]
    BY DEF SummaryOutbox
<1>8. \A e \in Event : \/ delivery'[e] = delivery[e]
                       \/ delivery'[e] = [delivery[e] EXCEPT !.status = "UNKNOWN"]
    BY <1>7
<1>9. delivery' \in [Event -> [status : {"NONE", "CLAIMED", "DELIVERED", "FAILED", "UNKNOWN"},
                               old : BOOLEAN]]
    BY <1>7 DEF OutboxTypes
<1>10. OutboxTypes'
  <2>1. UNCHANGED <<journal, captured, posted, queue>>
    BY DEF SummaryOutbox
  <2>2. QED BY <2>1, <1>5, <1>9 DEF OutboxTypes
<1>11. \A e \in Event : RowOfPost(e)'
  <2>1. posted' = posted
    BY DEF SummaryOutbox
  <2>2. \A e \in Event : \/ delivery'[e].status = delivery[e].status
                         \/ delivery'[e].status = "UNKNOWN"
    BY <1>8 DEF OutboxTypes
  <2>3. QED BY <2>1, <2>2 DEF OneAttempt, RowOfPost
<1>12. Posting'
    BY <1>5 DEF Posting
<1>13. QED BY <1>1, <1>10, <1>11, <1>12 DEF OneAttempt

-----------------------------------------------------------------------------
\* A worker that holds no claim may change what it does: the senders stay as they are.
LEMMA NoSenderStep ==
    ASSUME LedgerTypes, OneHolder, NEW w \in Worker, ledger' = ledger,
           worker' = [worker EXCEPT ![w] = worker'[w]], ~Sending(w)'
    PROVE  OneHolder'
<1>1. \A v \in Worker : v # w => worker'[v] = worker[v]
    BY DEF LedgerTypes
<1>2. \A v \in Worker : SenderOK(v)'
    BY <1>1 DEF OneHolder, SenderOK, Sending, Outcome
<1>3. \A u, v \in Worker : ApartOK(u, v)'
    BY <1>1 DEF OneHolder, ApartOK, Sending
<1>4. \A e \in Event : RowOfClaim(e)'
    BY DEF OneHolder, RowOfClaim
<1>5. QED BY <1>2, <1>3, <1>4 DEF OneHolder

\* Types of a worker's step.
LEMMA WorkerTypes ==
    ASSUME LedgerTypes, NEW w, NEW r,
           r \in [pc : {"idle", "save", "claim", "send", "complete"}, event : Event \cup {"none"},
                  claim : Nat, tries : Nat, error : BOOLEAN],
           r.pc # "idle" => r.event \in Event,
           worker' = [worker EXCEPT ![w] = r], UNCHANGED <<saved, ledger>>
    PROVE  LedgerTypes'
<1>1. \A v \in Worker : worker'[v] = IF v = w THEN r ELSE worker[v]
    BY DEF LedgerTypes
<1>2. QED BY <1>1 DEF LedgerTypes

\* A worker starts on an event, with no claim.
LEMMA BeginHolds ==
    ASSUME LedgerTypes, OneHolder, NEW w \in Worker, NEW e \in Event, Begin(w, e),
           UNCHANGED <<saved, ledger>>
    PROVE  LedgerTypes' /\ OneHolder'
<1>1. PICK r : r = [Free EXCEPT !.pc = "save", !.event = e]
    OBVIOUS
<1>2. /\ r \in [pc : {"idle", "save", "claim", "send", "complete"}, event : Event \cup {"none"},
                claim : Nat, tries : Nat, error : BOOLEAN]
      /\ r.event = e /\ r.pc = "save"
    BY <1>1 DEF Free
<1>3. worker' = [worker EXCEPT ![w] = r]
    BY <1>1 DEF Begin
<1>4. worker'[w] = r
    BY <1>3 DEF LedgerTypes
<1>5. LedgerTypes'
    BY <1>2, <1>3, WorkerTypes
<1>6. OneHolder'
    BY <1>2, <1>3, <1>4, NoSenderStep DEF Sending
<1>7. QED BY <1>5, <1>6

\* A worker lets go of its event.
LEMMA FreeHolds ==
    ASSUME LedgerTypes, OneHolder, NEW w \in Worker, worker' = [worker EXCEPT ![w] = Free],
           UNCHANGED <<saved, ledger>>
    PROVE  LedgerTypes' /\ OneHolder'
<1>1. PICK r : r = Free
    OBVIOUS
<1>2. /\ r \in [pc : {"idle", "save", "claim", "send", "complete"}, event : Event \cup {"none"},
                claim : Nat, tries : Nat, error : BOOLEAN]
      /\ r.pc = "idle"
    BY <1>1 DEF Free
<1>3. worker' = [worker EXCEPT ![w] = r] /\ worker'[w] = r
    BY <1>1 DEF LedgerTypes
<1>4. LedgerTypes'
    BY <1>2, <1>3, WorkerTypes
<1>5. OneHolder'
    BY <1>2, <1>3, NoSenderStep DEF Sending
<1>6. QED BY <1>4, <1>5

LEMMA TakeQueuedHolds ==
    ASSUME Own \in Worker, AlertInv, TakeQueued
    PROVE  AlertInv'
<1>. USE DEF AlertInv
<1>1. Head(queue) \in Event /\ Tail(queue) \in Seq(Event)
    BY FirstOfBatch DEF TakeQueued, OutboxTypes
<1>2. OutboxTypes' /\ OneAttempt'
    BY <1>1, OutboxFrame DEF TakeQueued
<1>3. LedgerTypes' /\ OneHolder'
    BY <1>1, BeginHolds DEF TakeQueued
<1>4. QED BY <1>2, <1>3

LEMMA DieHolds ==
    ASSUME Own \in Worker, AlertInv, Die
    PROVE  AlertInv'
<1>. USE DEF AlertInv
<1>1. LedgerTypes' /\ OneHolder'
    BY FreeHolds DEF Die
<1>2. /\ runner' = [Resting EXCEPT !.pc = "capture"] /\ queue' = <<>>
      /\ UNCHANGED <<journal, captured, delivery, posted>>
    BY DEF Die
<1>3. OutboxTypes'
  <2>1. <<>> \in Seq(Event)
    OBVIOUS
  <2>2. runner' \in [pc : {"capture"}, batch : Seq(Event), offer : Seq(Event), error : BOOLEAN]
    BY <2>1, <1>2 DEF Resting
  <2>3. QED BY <2>1, <2>2, <1>2 DEF OutboxTypes
<1>4. OneAttempt'
    BY <1>2 DEF OneAttempt, RowOfPost, Posting, Resting
<1>5. QED BY <1>1, <1>3, <1>4

LEMMA RecoverHolds ==
    ASSUME AlertInv, NEW w \in Worker, Recover(w)
    PROVE  AlertInv'
<1>. USE DEF AlertInv
<1>1. OutboxTypes' /\ OneAttempt'
    BY OutboxFrame DEF Recover, OutboxTypes
<1>2. PICK e \in Event : Begin(w, e)
    BY DEF Recover, LedgerTypes
<1>3. LedgerTypes' /\ OneHolder'
    BY <1>2, BeginHolds DEF Recover
<1>4. QED BY <1>1, <1>3

LEMMA SaveHolds ==
    ASSUME AlertInv, NEW w \in Worker, Save(w)
    PROVE  AlertInv'
<1>. USE DEF AlertInv
<1>1. OutboxTypes' /\ OneAttempt'
    BY OutboxFrame DEF Save, OutboxTypes
<1>2. worker[w].event \in Event
    BY DEF Save, LedgerTypes
<1>3. /\ worker' = [worker EXCEPT ![w].pc = "claim"] /\ ledger' = ledger
      /\ saved' = saved \cup {worker[w].event}
    BY DEF Save
<1>4. worker'[w].pc = "claim" /\ worker'[w].event = worker[w].event
    BY <1>3 DEF LedgerTypes
<1>5. \A v \in Worker : v # w => worker'[v] = worker[v]
    BY <1>3 DEF LedgerTypes
<1>6. worker' \in [Worker -> [pc : {"idle", "save", "claim", "send", "complete"},
                              event : Event \cup {"none"}, claim : Nat, tries : Nat,
                              error : BOOLEAN]]
    BY <1>3 DEF LedgerTypes
<1>7. LedgerTypes'
    BY <1>2, <1>3, <1>4, <1>5, <1>6 DEF LedgerTypes
<1>8. worker' = [worker EXCEPT ![w] = worker'[w]]
    BY <1>5, <1>6 DEF LedgerTypes
<1>9. OneHolder'
    BY <1>3, <1>4, <1>8, NoSenderStep DEF Sending
<1>10. QED BY <1>1, <1>7, <1>9

-----------------------------------------------------------------------------
\* A claim: the row's claim is newer than that of every other sender of the event, and the
\* new sender is the only one that holds it.
LEMMA ClaimAlertHolds ==
    ASSUME AlertInv, NEW w \in Worker, ClaimAlert(w)
    PROVE  AlertInv'
<1>. USE DEF AlertInv
<1> DEFINE e == worker[w].event
           c == ledger[e].claim + 1
<1>1. OutboxTypes' /\ OneAttempt'
    BY OutboxFrame DEF ClaimAlert, OutboxTypes
<1>2. e \in Event
    BY DEF ClaimAlert, LedgerTypes
<1>3. CASE ~(ledger[e].status = "NONE" \/ Stale(e))
    BY <1>1, <1>3, FreeHolds DEF ClaimAlert
<1>4. CASE ledger[e].status = "NONE" \/ Stale(e)
  <2>1. /\ ledger' = [ledger EXCEPT ![e] = [status |-> "SENDING", claim |-> c, old |-> FALSE,
                                            met |-> "NONE"]]
        /\ worker' = [worker EXCEPT ![w].pc = "send", ![w].claim = c]
        /\ saved' = saved
    BY <1>4 DEF ClaimAlert
  <2>2. ledger[e].claim \in Nat /\ c \in Nat /\ c > ledger[e].claim
    BY <1>2 DEF LedgerTypes
  <2>. HIDE DEF c
  <2>3. worker'[w].pc = "send" /\ worker'[w].event = e /\ worker'[w].claim = c
    BY <2>1 DEF LedgerTypes
  <2>4. \A v \in Worker : v # w => worker'[v] = worker[v]
    BY <2>1 DEF LedgerTypes
  <2>5. worker' \in [Worker -> [pc : {"idle", "save", "claim", "send", "complete"},
                                event : Event \cup {"none"}, claim : Nat, tries : Nat,
                                error : BOOLEAN]]
    <3>1. [worker[w] EXCEPT !.pc = "send", !.claim = c] \in
              [pc : {"idle", "save", "claim", "send", "complete"},
               event : Event \cup {"none"}, claim : Nat, tries : Nat, error : BOOLEAN]
        BY <2>2 DEF LedgerTypes
    <3>2. worker' = [worker EXCEPT ![w] = [worker[w] EXCEPT !.pc = "send", !.claim = c]]
        BY <2>1 DEF LedgerTypes
    <3>3. QED BY <3>1, <3>2 DEF LedgerTypes
  <2>. HIDE DEF e
  <2>6. /\ ledger'[e].status = "SENDING" /\ ledger'[e].claim = c
        /\ \A f \in Event : f # e => ledger'[f] = ledger[f]
    BY <2>1, <1>2 DEF LedgerTypes
  <2>7. ledger' \in [Event -> [status : {"NONE", "SENDING", "DELIVERED", "FAILED"}, claim : Nat,
                               old : BOOLEAN, met : {"NONE", "DELIVERED", "FAILED"}]]
    BY <2>1, <2>2, <1>2 DEF LedgerTypes
  <2>8. LedgerTypes'
    BY <2>1, <2>3, <2>4, <2>5, <2>7, <1>2 DEF LedgerTypes
  <2>9. \A v \in Worker : v # w /\ Sending(v) /\ worker[v].event = e => worker[v].claim < c
    <3> SUFFICES ASSUME NEW v \in Worker, v # w, Sending(v), worker[v].event = e
                 PROVE  worker[v].claim < c
        OBVIOUS
    <3>1. worker[v].claim <= ledger[e].claim
        BY DEF OneHolder, SenderOK
    <3>2. worker[v].claim \in Nat
        BY DEF LedgerTypes
    <3>3. QED BY <3>1, <3>2, <2>2
  <2>10. \A v \in Worker : SenderOK(v)'
    <3> SUFFICES ASSUME NEW v \in Worker
                 PROVE  SenderOK(v)'
        OBVIOUS
    <3>1. CASE v = w
        BY <3>1, <2>2, <2>3, <2>6 DEF SenderOK
    <3>2. CASE v # w /\ worker[v].event = e /\ Sending(v)
      <4>1. worker'[v] = worker[v] /\ worker[v].claim < c /\ worker[v].claim \in Nat
        BY <3>2, <2>4, <2>9 DEF LedgerTypes
      <4>2. QED BY <4>1, <3>2, <2>2, <2>6 DEF SenderOK
    <3>3. CASE v # w /\ ~Sending(v)
        BY <3>3, <2>4 DEF SenderOK, Sending
    <3>4. CASE v # w /\ worker[v].event # e /\ Sending(v)
      <4>1. worker[v].event \in Event
        BY <3>4 DEF Sending, LedgerTypes
      <4>2. worker'[v] = worker[v] /\ ledger'[worker[v].event] = ledger[worker[v].event]
        BY <4>1, <3>4, <2>4, <2>6
      <4>3. SenderOK(v)
        BY DEF OneHolder
      <4>4. QED BY <4>2, <4>3 DEF SenderOK, Sending, Outcome
    <3>5. QED BY <3>1, <3>2, <3>3, <3>4
  <2>11. \A u, v \in Worker : ApartOK(u, v)'
    <3> SUFFICES ASSUME NEW u \in Worker, NEW v \in Worker
                 PROVE  ApartOK(u, v)'
        OBVIOUS
    <3>1. CASE u # w /\ v # w
        BY <3>1, <2>4 DEF OneHolder, ApartOK, Sending
    <3>2. \A x \in Worker : x # w /\ Sending(x)' /\ worker'[x].event = e => worker'[x].claim # c
      <4> SUFFICES ASSUME NEW x \in Worker, x # w, Sending(x)', worker'[x].event = e
                   PROVE  worker'[x].claim # c
          OBVIOUS
      <4>1. worker'[x] = worker[x] /\ Sending(x)
        BY <2>4 DEF Sending
      <4>2. worker[x].claim < c /\ worker[x].claim \in Nat
        BY <4>1, <2>9 DEF LedgerTypes
      <4>3. QED BY <4>1, <4>2, <2>2
    <3>3. CASE u = w \/ v = w
        BY <3>2, <3>3, <2>3 DEF ApartOK
    <3>4. QED BY <3>1, <3>3
  <2>12. \A f \in Event : RowOfClaim(f)'
    BY <2>6 DEF OneHolder, RowOfClaim
  <2>13. QED BY <1>1, <2>8, <2>10, <2>11, <2>12 DEF OneHolder
<1>5. QED BY <1>3, <1>4

\* A step of a sender that keeps its claim or is done with it.  It writes the row only while
\* the claim is the row's, and no other sender holds that claim.
LEMMA SenderStep ==
    ASSUME LedgerTypes, LedgerTypes', OneHolder, NEW w \in Worker, Sending(w),
           \A v \in Worker : v # w => worker'[v] = worker[v],
           \A f \in Event : f # worker[w].event => ledger'[f] = ledger[f],
           ledger[worker[w].event].claim # worker[w].claim =>
               ledger'[worker[w].event] = ledger[worker[w].event],
           ledger'[worker[w].event].claim = ledger[worker[w].event].claim,
           Sending(w)' => /\ worker'[w].event = worker[w].event /\ worker'[w].claim = worker[w].claim
                          /\ SenderOK(w)',
           \A f \in Event : f = worker[w].event => RowOfClaim(f)'
    PROVE  OneHolder'
<1> DEFINE e == worker[w].event
<1>1. e \in Event /\ worker[w].claim \in Nat /\ ledger[e].claim \in Nat
    BY DEF LedgerTypes, Sending
<1>2. \A v \in Worker : SenderOK(v)'
  <2> SUFFICES ASSUME NEW v \in Worker
               PROVE  SenderOK(v)'
      OBVIOUS
  <2>1. CASE v = w
    BY <2>1 DEF SenderOK
  <2>2. CASE v # w /\ ~Sending(v)
    BY <2>2 DEF SenderOK, Sending
  <2>3. CASE v # w /\ Sending(v) /\ worker[v].event # e
    <3>1. worker[v].event \in Event
        BY <2>3 DEF Sending, LedgerTypes
    <3>2. worker'[v] = worker[v] /\ ledger'[worker[v].event] = ledger[worker[v].event]
        BY <3>1, <2>3
    <3>3. SenderOK(v)
        BY DEF OneHolder
    <3>4. QED BY <3>2, <3>3 DEF SenderOK, Sending, Outcome
  <2>4. CASE v # w /\ Sending(v) /\ worker[v].event = e
    <3>1. worker'[v] = worker[v] /\ SenderOK(v) /\ ApartOK(v, w)
        BY <2>4 DEF OneHolder
    <3>2. worker[v].claim # worker[w].claim
        BY <3>1, <2>4 DEF ApartOK
    <3>3. CASE ledger[e].claim = worker[w].claim
        BY <3>1, <3>2, <3>3, <2>4 DEF SenderOK
    <3>4. CASE ledger[e].claim # worker[w].claim
      <4>1. ledger'[e] = ledger[e]
        BY <3>4
      <4>2. QED BY <4>1, <3>1, <2>4 DEF SenderOK, Sending, Outcome
    <3>5. QED BY <3>3, <3>4
  <2>5. QED BY <2>1, <2>2, <2>3, <2>4
<1>3. \A u, v \in Worker : ApartOK(u, v)'
  <2>1. \A v \in Worker : Sending(v)' => /\ worker'[v].event = worker[v].event
                                          /\ worker'[v].claim = worker[v].claim
                                          /\ Sending(v)
    BY DEF Sending
  <2>2. QED BY <2>1 DEF OneHolder, ApartOK
<1>4. \A f \in Event : RowOfClaim(f)'
    BY DEF OneHolder, RowOfClaim
<1>5. QED BY <1>2, <1>3, <1>4 DEF OneHolder

\* One attempt.  What the channel answered is noted of the claim only by its sender.
LEMMA SendHolds ==
    ASSUME AlertInv, NEW w \in Worker, NEW result \in {"ok", "retry", "refused"}, Send(w, result)
    PROVE  AlertInv'
<1>. USE DEF AlertInv
<1> DEFINE e == worker[w].event
           over == result # "retry" \/ worker[w].tries + 1 = MaxTries
           n == IF over THEN 0 ELSE worker[w].tries + 1
           pc == IF over THEN "complete" ELSE "send"
           met == IF result = "ok" THEN "DELIVERED" ELSE "FAILED"
           r == [worker[w] EXCEPT !.tries = n, !.error = result # "ok", !.pc = pc]
<1>1. OutboxTypes' /\ OneAttempt'
    BY OutboxFrame DEF Send, OutboxTypes
<1>2. /\ Sending(w) /\ e \in Event /\ worker[w].pc = "send"
      /\ worker[w] \in [pc : {"idle", "save", "claim", "send", "complete"},
                        event : Event \cup {"none"}, claim : Nat, tries : Nat, error : BOOLEAN]
    BY DEF Send, Sending, LedgerTypes
<1>3. n \in Nat /\ pc \in {"complete", "send"} /\ (result # "ok") \in BOOLEAN
    BY <1>2
<1>4. worker' = [worker EXCEPT ![w] = r] /\ saved' = saved
    BY DEF Send, LedgerTypes
<1>5. \/ ledger' = [ledger EXCEPT ![e].met = met] /\ over /\ ledger[e].claim = worker[w].claim
      \/ ledger' = ledger /\ ~(over /\ ledger[e].claim = worker[w].claim)
    BY DEF Send
<1>6. met \in {"DELIVERED", "FAILED"} /\ (over <=> pc = "complete")
    OBVIOUS
<1>. HIDE DEF n, over, pc
<1>7. /\ r \in [pc : {"idle", "save", "claim", "send", "complete"},
                event : Event \cup {"none"}, claim : Nat, tries : Nat, error : BOOLEAN]
      /\ r.event = e /\ r.claim = worker[w].claim /\ r.pc = pc
    BY <1>2, <1>3
<1>8. r.error <=> result # "ok"
    BY <1>2
<1>. HIDE DEF r, e, met
<1>9. /\ worker' \in [Worker -> [pc : {"idle", "save", "claim", "send", "complete"},
                                 event : Event \cup {"none"}, claim : Nat, tries : Nat,
                                 error : BOOLEAN]]
      /\ worker'[w] = r /\ \A v \in Worker : v # w => worker'[v] = worker[v]
    BY <1>4, <1>7 DEF LedgerTypes
<1>10. /\ ledger' \in [Event -> [status : {"NONE", "SENDING", "DELIVERED", "FAILED"}, claim : Nat,
                                 old : BOOLEAN, met : {"NONE", "DELIVERED", "FAILED"}]]
       /\ \A f \in Event : f # e => ledger'[f] = ledger[f]
       /\ ledger'[e].claim = ledger[e].claim /\ ledger'[e].status = ledger[e].status
       /\ over /\ ledger[e].claim = worker[w].claim => ledger'[e].met = met
       /\ ledger[e].claim # worker[w].claim => ledger'[e] = ledger[e]
    BY <1>2, <1>5, <1>6 DEF LedgerTypes
<1>11. LedgerTypes'
    BY <1>2, <1>4, <1>7, <1>9, <1>10 DEF LedgerTypes
<1>12. SenderOK(w) /\ RowOfClaim(e)
    BY <1>2 DEF OneHolder
<1>13. pc = "complete" => met = Outcome(w)'
    BY <1>8, <1>9 DEF met, Outcome
<1>14. SenderOK(w)'
  <2>1. worker'[w].event = e /\ worker'[w].claim = worker[w].claim /\ worker'[w].pc = pc
    BY <1>7, <1>9
  <2>2. worker[w].claim <= ledger[e].claim
    BY <1>2, <1>12 DEF SenderOK, e
  <2>3. worker[w].claim = ledger[e].claim => ledger[e].status = "SENDING"
    BY <1>2, <1>12 DEF SenderOK, e
  <2>4. QED BY <2>1, <2>2, <2>3, <1>6, <1>10, <1>13 DEF SenderOK
<1>15. \A f \in Event : f = e => RowOfClaim(f)'
  <2>1. CASE ledger[e].claim = worker[w].claim
    <3>1. ledger[e].status = "SENDING"
        BY <2>1, <1>2, <1>12 DEF SenderOK, e
    <3>2. QED BY <3>1, <1>10 DEF RowOfClaim
  <2>2. CASE ledger[e].claim # worker[w].claim
    BY <2>2, <1>10, <1>12 DEF RowOfClaim
  <2>3. QED BY <2>1, <2>2
<1>16. OneHolder'
  <2>1. worker'[w].event = worker[w].event /\ worker'[w].claim = worker[w].claim
    BY <1>7, <1>9 DEF e
  <2>2. QED BY <2>1, <1>2, <1>9, <1>10, <1>11, <1>14, <1>15, SenderStep DEF e
<1>17. QED BY <1>1, <1>11, <1>16

\* The outcome: recorded only under the claim it belongs to, and it is what its sender met.
LEMMA CompleteAlertHolds ==
    ASSUME AlertInv, NEW w \in Worker, CompleteAlert(w)
    PROVE  AlertInv'
<1>. USE DEF AlertInv
<1> DEFINE e == worker[w].event
           s == IF worker[w].error THEN "FAILED" ELSE "DELIVERED"
<1>1. OutboxTypes' /\ OneAttempt'
    BY OutboxFrame DEF CompleteAlert, OutboxTypes
<1>2. Sending(w) /\ e \in Event /\ worker[w].pc = "complete"
    BY DEF CompleteAlert, Sending, LedgerTypes
<1>3. worker' = [worker EXCEPT ![w] = Free] /\ saved' = saved
    BY DEF CompleteAlert
<1>4. CASE ~(ledger[e].status = "SENDING" /\ ledger[e].claim = worker[w].claim)
    BY <1>1, <1>3, <1>4, FreeHolds DEF CompleteAlert
<1>5. CASE ledger[e].status = "SENDING" /\ ledger[e].claim = worker[w].claim
  <2>1. ledger' = [ledger EXCEPT ![e].status = s]
    BY <1>5 DEF CompleteAlert
  <2>2. ledger[e].met = s /\ s \in {"FAILED", "DELIVERED"}
    BY <1>2, <1>5 DEF OneHolder, SenderOK, Outcome
  <2>. HIDE DEF s, e
  <2>3. /\ ledger' \in [Event -> [status : {"NONE", "SENDING", "DELIVERED", "FAILED"}, claim : Nat,
                                  old : BOOLEAN, met : {"NONE", "DELIVERED", "FAILED"}]]
        /\ \A f \in Event : f # e => ledger'[f] = ledger[f]
        /\ ledger'[e].claim = ledger[e].claim /\ ledger'[e].status = s
        /\ ledger'[e].met = ledger[e].met
    BY <2>1, <2>2, <1>2 DEF LedgerTypes
  <2>4. /\ worker' \in [Worker -> [pc : {"idle", "save", "claim", "send", "complete"},
                                   event : Event \cup {"none"}, claim : Nat, tries : Nat,
                                   error : BOOLEAN]]
        /\ worker'[w].pc = "idle" /\ \A v \in Worker : v # w => worker'[v] = worker[v]
    BY <1>3 DEF LedgerTypes, Free
  <2>5. LedgerTypes'
    BY <1>3, <2>3, <2>4 DEF LedgerTypes
  <2>6. \A f \in Event : f = e => RowOfClaim(f)'
    BY <2>2, <2>3 DEF RowOfClaim
  <2>7. OneHolder'
    <3>1. ~Sending(w)'
        BY <2>4 DEF Sending
    <3>2. QED BY <3>1, <1>2, <1>5, <2>3, <2>4, <2>5, <2>6, SenderStep DEF e
  <2>8. QED BY <1>1, <2>5, <2>7
<1>6. QED BY <1>4, <1>5

LEMMA GrowOldHolds ==
    ASSUME AlertInv, NEW e \in Event, GrowOld(e)
    PROVE  AlertInv'
<1>. USE DEF AlertInv
<1>1. CASE /\ ledger' = [ledger EXCEPT ![e].old = TRUE]
           /\ UNCHANGED <<outboxVars, queue, saved, worker, faults>>
  <2>1. OutboxTypes' /\ OneAttempt'
    BY <1>1, OutboxFrame DEF OutboxTypes
  <2>2. LedgerTypes'
    BY <1>1, ZenonT(60) DEF LedgerTypes
  <2>3. \A f \in Event : /\ ledger'[f].status = ledger[f].status
                         /\ ledger'[f].claim = ledger[f].claim
                         /\ ledger'[f].met = ledger[f].met
    BY <1>1 DEF LedgerTypes
  <2>4. \A w \in Worker : Sending(w) => worker[w].event \in Event
    BY DEF LedgerTypes, Sending
  <2>5. \A w \in Worker : SenderOK(w)'
    BY <1>1, <2>3, <2>4 DEF OneHolder, SenderOK, Sending, Outcome
  <2>6. \A v, w \in Worker : ApartOK(v, w)'
    BY <1>1 DEF OneHolder, ApartOK, Sending
  <2>7. \A f \in Event : RowOfClaim(f)'
    BY <2>3 DEF OneHolder, RowOfClaim
  <2>8. QED BY <2>1, <2>2, <2>5, <2>6, <2>7 DEF OneHolder
<1>2. CASE /\ delivery' = [delivery EXCEPT ![e].old = TRUE]
           /\ UNCHANGED <<journal, captured, posted, runner, queue, ledgerVars, faults>>
  <2>1. LedgerTypes' /\ OneHolder'
    BY <1>2, LedgerFrame
  <2>2. OutboxTypes'
    BY <1>2 DEF OutboxTypes
  <2>3. \A f \in Event : delivery'[f].status = delivery[f].status
    BY <1>2 DEF OutboxTypes
  <2>4. runner.batch # <<>> => Head(runner.batch) \in Event
    BY FirstOfBatch DEF OutboxTypes
  <2>5. OneAttempt'
    BY <1>2, <2>3, <2>4 DEF OneAttempt, RowOfPost, Posting
  <2>6. QED BY <2>1, <2>2, <2>5
<1>3. QED BY <1>1, <1>2 DEF GrowOld

-----------------------------------------------------------------------------
LEMMA AlertNextHolds ==
    ASSUME Own \in Worker, AlertInv, [AlertNext]_alertVars
    PROVE  AlertInv'
<1>1. CASE UNCHANGED alertVars
  <2>1. OutboxTypes' /\ OneAttempt'
    BY <1>1, OutboxFrame DEF AlertInv, alertVars, OutboxTypes
  <2>2. LedgerTypes' /\ OneHolder'
    BY <1>1, LedgerFrame DEF AlertInv, alertVars
  <2>3. QED BY <2>1, <2>2 DEF AlertInv
<1>2. CASE \E e \in Event : WriteRow(e) \/ GrowOld(e)
    BY <1>2, WriteRowHolds, GrowOldHolds
<1>3. CASE RunnerStep
    BY <1>3, CaptureHolds, ClaimHolds, CompleteHolds, OfferHolds, SummaryOutboxHolds, TickHolds,
       PostHolds DEF RunnerStep
<1>4. CASE TakeQueued
    BY <1>4, TakeQueuedHolds
<1>5. CASE Die
    BY <1>5, DieHolds
<1>6. CASE \E after \in BOOLEAN : CaptureFails(after)
    BY <1>6, CaptureFailsHolds
<1>7. CASE \E w \in Worker : WorkerStep(w)
    BY <1>7, RecoverHolds, SaveHolds, ClaimAlertHolds, CompleteAlertHolds, SendHolds
       DEF WorkerStep
<1>8. QED BY <1>1, <1>2, <1>3, <1>4, <1>5, <1>6, <1>7 DEF AlertNext

\* Types, the one attempt behind every delivery row and the one holder of every claim hold
\* in every reachable state, for any rows, workers that include the runner's own
\* (alert_hook.py), queue size and bounds.
THEOREM AlertInvariant ==
    ASSUME Own \in Worker
    PROVE  AlertSpec => []AlertInv
<1>1. AlertInit => AlertInv
    BY InitHolds
<1>2. AlertInv /\ [AlertNext]_alertVars => AlertInv'
    BY AlertNextHolds
<1>3. QED BY <1>1, <1>2, PTL DEF AlertSpec

\* A notification is posted at most once whatever crashes between its claim and its outcome
\* (claim_notification_delivery), and an alert's outcome is that of the sender whose claim
\* it is, however many claims were taken over (AlertDeliveryLedger.complete).
THEOREM AlertsAccountedHolds ==
    ASSUME Own \in Worker
    PROVE  AlertSpec => []AlertsAccounted
<1>1. AlertInv => AlertsAccounted
    BY DEF AlertInv, OneAttempt, OneHolder, RowOfPost, RowOfClaim, AlertsAccounted, PostedOnce,
           OutcomeOfClaim
<1>2. QED BY <1>1, AlertInvariant, PTL
=============================================================================
