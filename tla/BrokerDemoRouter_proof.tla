------------------------ MODULE BrokerDemoRouter_proof ------------------------
(***************************************************************************)
(* Proofs about BrokerDemoRouter, for every set of client ids and foreign  *)
(* trades, every choice of Inputs and both entry kinds, and without the    *)
(* bounds of the model-checked instances playing any part: the write-ahead *)
(* row and, in the second half, what the rows say about the broker.  A row *)
(* recorded as closed is closed, one given up as never sent has nothing    *)
(* behind it, requests are consumed on evidence only, no broker action is  *)
(* stacked on an unanswered one, and market entries are never two          *)
(* positions.                                                              *)
(***************************************************************************)
EXTENDS BrokerDemoRouter, TLAPS

Reconciling == pc \in {"rec_read", "rec_rows", "rec_block", "rec_clear"}

\* Where the locals of a tick may stand at each of its steps.
Control ==
    /\ Reconciling => ret \in {"flatten", "manage", "manual_go", "admit", "flat"}
    /\ pc = "sweep" => ret \in Sweeps
    /\ pc = "answer" => /\ ret \in Sweeps \cup {"manual_done", "reversed", "done"}
                        /\ call.cid \in Cid /\ call.kind \in WriteKind
    /\ pc = "manual_go" \/ (Reconciling /\ ret = "manual_go") => manual \in Cid
    /\ \/ pc \in {"admit", "size", "reversed", "flat", "intent", "gate", "post"}
       \/ Reconciling /\ ret \in {"admit", "flat"}
       \/ pc = "answer" /\ ret = "reversed"
       => cand \in Cid

\* What the write-ahead row accounts for.
Known(c) == order[c] # "none" \/ <<"SUBMIT", c>> \in wire \/ posts[c] > 0

WriteAhead ==
    /\ \A c \in Cid : Known(c) => status[c] # "NO_ROW"
    /\ pc \in {"gate", "post"} => posts[cand] = 0 /\ status[cand] # "NO_ROW"
    /\ PostedAtMostOnce

\* A stored flatten request is the latest press.
LatestPress == flatten \in {0, presses}

IInv == TypeOK /\ Control /\ WriteAhead /\ LatestPress

-----------------------------------------------------------------------------
\* The account: a write call types, and only a submit of c creates an order of c.
LEMMA WriteCallFrame ==
    ASSUME AccountTypeOK, NEW kind \in WriteKind, NEW c \in Cid, NEW a \in Answer,
           WriteCall(kind, c, a)
    PROVE  /\ AccountTypeOK'
           /\ \A d \in Cid : order[d] = "none" /\ order'[d] # "none" => d = c /\ kind = "SUBMIT"
           /\ \A d \in Cid : <<"SUBMIT", d>> \in wire' /\ <<"SUBMIT", d>> \notin wire
                               => d = c /\ kind = "SUBMIT"
<1>1. CASE a = "UNKNOWN"
  BY <1>1 DEF WriteCall, Unanswered, AccountTypeOK
<1>2. CASE a # "UNKNOWN"
  <2>1. Answered(kind, c, a)
    BY <1>2 DEF WriteCall
  <2>2. Processed(kind, c) \/ UNCHANGED <<order, moved>>
    BY <2>1 DEF Answered
  <2>3. CASE Processed(kind, c)
    BY <2>1, <2>3 DEF Answered, Processed, SetOrder, AccountTypeOK, OrderState
  <2>4. CASE UNCHANGED <<order, moved>>
    BY <2>1, <2>4 DEF Answered, AccountTypeOK
  <2> QED BY <2>2, <2>3, <2>4
<1> QED BY <1>1, <1>2

\* The broker's own steps create an order only from a submit on its way.
LEMMA AccountStepFrame ==
    ASSUME AccountTypeOK, AccountStep
    PROVE  /\ AccountTypeOK'
           /\ wire' \subseteq wire
           /\ \A d \in Cid : order[d] = "none" /\ order'[d] # "none" => <<"SUBMIT", d>> \in wire
<1>1. ASSUME NEW kind \in WriteKind, NEW c \in Cid, Deliver(kind, c)
      PROVE  /\ AccountTypeOK' /\ wire' \subseteq wire
             /\ \A d \in Cid : order[d] = "none" /\ order'[d] # "none" => <<"SUBMIT", d>> \in wire
  BY <1>1 DEF Deliver, Processed, SetOrder, AccountTypeOK, OrderState
<1>2. ASSUME NEW kind \in WriteKind, NEW c \in Cid, Drop(kind, c)
      PROVE  /\ AccountTypeOK' /\ wire' \subseteq wire /\ UNCHANGED order
  BY <1>2 DEF Drop, AccountTypeOK
<1>3. ASSUME NEW c \in Cid, FillLimit(c) \/ ExpireLimit(c) \/ StopOrTarget(c)
      PROVE  /\ AccountTypeOK' /\ wire' \subseteq wire
             /\ \A d \in Cid : order[d] = "none" => order'[d] = "none"
  BY <1>3 DEF FillLimit, ExpireLimit, StopOrTarget, SetOrder, AccountTypeOK, OrderState
<1>4. ASSUME NEW f \in Foreign, ForeignTrade(f)
      PROVE  /\ AccountTypeOK' /\ wire' \subseteq wire /\ UNCHANGED order
  BY <1>4 DEF ForeignTrade, AccountTypeOK
<1> QED BY <1>1, <1>2, <1>3, <1>4 DEF AccountStep
-----------------------------------------------------------------------------
\* The rows a sweep visits are client ids.
LEMMA TargetsAreRows == \A sweep : Targets(sweep) \subseteq Cid
  BY DEF Targets, Actionable, Rows

\* A router that has just been deployed on an empty database is well typed.
LEMMA TypeInit == Init => TypeOK /\ Control
<1> SUFFICES ASSUME Init PROVE TypeOK /\ Control
  OBVIOUS
<1> USE DEF Init
<1>1. emergency \in BOOLEAN /\ closingOnly \in BOOLEAN
  OBVIOUS
<1>2. AccountTypeOK
  BY DEF AccountTypeOK, AccountInit, OrderState
<1>3. Control
  BY DEF Control, Reconciling
<1>4. TypeOK
  BY <1>1, <1>2 DEF TypeOK, Status, Latch, BlockedReason, NoEpisode, NoCall, Answer, Pc
<1> QED BY <1>3, <1>4

\* Every step keeps the types and the control facts.
LEMMA TypeStep ==
    ASSUME TypeOK, Control, [Next]_vars
    PROVE  TypeOK' /\ Control'
<1> USE DEF TypeOK, AccountTypeOK, Control, Reconciling, Pc, Sweeps, Goto, accountVars,
            durableVars, rowVars, flagVars, processVars, tickVars, observerVars
<1>1. CASE \E entry \in {"manage", "poll"} : StartTick(entry, NoCid)
  BY <1>1
     DEF StartTick
<1>2. CASE \E c \in Entrants : StartTick("cycle", c)
  BY <1>2
     DEF StartTick, Entrants
<1>3. CASE FinishTick
  BY <1>3
     DEF FinishTick, NoTick, NoCall, Answer
<1>4. CASE ProcessRequests
  BY <1>4
     DEF ProcessRequests, Reconcile
<1>5. CASE ReadOpenTrades
  BY <1>5
     DEF ReadOpenTrades, OpenTrades, OpenAtBroker, Live, Rows
<1>6. CASE ReadPendingBook
  BY <1>6
     DEF ReadPendingBook, RowStep, Resting
<1>7. CASE ReconcileRow
  BY <1>7
     DEF ReconcileRow, RowStep, MatchRow, MissingRow, UnresolvedMarketRow, LimitRow, LookupTrade, SetStatus, SetLatch, Status, Latch, UNRESOLVED_STATUSES
<1>8. CASE RowsDone
  BY <1>8
     DEF RowsDone, RowStep
<1>9. CASE BlockOnDrift
  BY <1>9
     DEF BlockOnDrift, BlockedReason
<1>10. CASE FinishReconcile
  BY <1>10, TargetsAreRows
     DEF FinishReconcile, AfterReconcile, StartSweep, NoEpisode, BlockedReason
<1>11. CASE RecordAnswer
  <2>1. status' \in [Cid -> Status]
    BY <1>11 DEF RecordAnswer, SetStatus, SubmitStatus, Status
  <2>2. latch' \in [Cid -> Latch]
    BY <1>11 DEF RecordAnswer, SetLatch, Latch, WriteKind
  <2>3. day2' \subseteq Cid
    BY <1>11 DEF RecordAnswer
  <2>4. call' \in [kind : WriteKind \cup {"NONE"}, cid : Cid \cup {NoCid}, answer : Answer]
    BY <1>11 DEF RecordAnswer, NoCall, Answer
  <2>5. pc' \in Pc /\ Control'
    BY <1>11 DEF RecordAnswer, Resume
  <2> QED BY <1>11, <2>1, <2>2, <2>3, <2>4, <2>5 DEF RecordAnswer
<1>12. CASE \E c \in Cid : SweepRow(c)
  BY <1>12, WriteCallFrame
     DEF SweepRow, BrokerWrite, WriteKind, Answer
<1>13. CASE SweepDone
  BY <1>13
     DEF SweepDone, FlattenLeft
<1>14. CASE ReadManualRequest
  BY <1>14
     DEF ReadManualRequest, AfterManual, Reconcile, ManualStep
<1>15. CASE ServeManualRequest
  BY <1>15, WriteCallFrame
     DEF ServeManualRequest, AfterManual, BrokerWrite, ManualStep, WriteKind, Answer
<1>16. CASE FinishManualRequest
  BY <1>16
     DEF FinishManualRequest, AfterManual, ManualStep, NoCall, Answer
<1>17. CASE LossCheck \/ FridayTick
  BY <1>17, TargetsAreRows
     DEF LossCheck, FridayTick, MaybeSweep, StartSweep
<1>18. CASE Manage
  BY <1>18, TargetsAreRows
     DEF Manage, Reconcile, StartSweep
<1>19. CASE Route
  BY <1>19
     DEF Route, Reconcile, EndTick
<1>20. CASE Admit
  BY <1>20
     DEF Admit, EndTick, Live, Rows
<1>21. CASE Size
  BY <1>21, WriteCallFrame, TargetsAreRows
     DEF Size, Sized, EndTick, StartSweep, BrokerWrite, WriteKind, Answer
<1>22. CASE Reversed
  BY <1>22
     DEF Reversed, Reconcile, EndTick
<1>23. CASE Flat
  BY <1>23, TargetsAreRows
     DEF Flat, Sized, EndTick, StartSweep
<1>24. CASE Intent
  BY <1>24
     DEF Intent, EndTick, SetStatus, Status
<1>25. CASE PreSubmitGate
  BY <1>25
     DEF PreSubmitGate, NotSent, RouteStep, WriteKind, Answer
<1>26. CASE Post
  BY <1>26, WriteCallFrame
     DEF Post, NotSent, RouteStep, BrokerWrite, WriteKind, Answer
<1>27. CASE Restart
  BY <1>27
     DEF Restart
<1>28. CASE Crash
  <2>1. emergency' \in BOOLEAN
    BY <1>28 DEF Crash, NoTick, NoCall, Answer
  <2>2. closingOnly' \in BOOLEAN
    BY <1>28 DEF Crash, NoTick, NoCall, Answer
  <2> QED BY <1>28, <2>1, <2>2 DEF Crash, NoTick, NoCall, Answer
<1>29. CASE AccountStep /\ UNCHANGED <<durableVars, processVars, observerVars>>
  BY <1>29, AccountStepFrame
<1>30. CASE EmergencyStop \/ RequestFlatten
  <2>1. emergency' \in BOOLEAN
    BY <1>30 DEF EmergencyStop, RequestFlatten, DashboardStep
  <2>2. closingOnly' \in BOOLEAN
    BY <1>30 DEF EmergencyStop, RequestFlatten, DashboardStep
  <2> QED BY <1>30, <2>1, <2>2 DEF EmergencyStop, RequestFlatten, DashboardStep
<1>31. CASE ShowDrift \/ RequestDriftClear
  <2>1. emergency' \in BOOLEAN
    BY <1>31 DEF ShowDrift, RequestDriftClear, DashboardStep
  <2>2. closingOnly' \in BOOLEAN
    BY <1>31 DEF ShowDrift, RequestDriftClear, DashboardStep
  <2>3. shown' \in [episode : Nat, block : Nat] /\ driftRequest' \in [episode : Nat, block : Nat]
    BY <1>31 DEF ShowDrift, RequestDriftClear, DashboardStep, NoEpisode
  <2> QED BY <1>31, <2>1, <2>2, <2>3 DEF ShowDrift, RequestDriftClear, DashboardStep
<1>32. CASE \E c \in Cid : RequestManualClose(c)
  BY <1>32
     DEF RequestManualClose, DashboardStep
<1>33. CASE ClearEmergency \/ ClearDrift
  <2>1. emergency' \in BOOLEAN
    BY <1>33 DEF ClearEmergency, ClearDrift, OperatorStep, BlockedReason
  <2>2. closingOnly' \in BOOLEAN
    BY <1>33 DEF ClearEmergency, ClearDrift, OperatorStep, BlockedReason
  <2> QED BY <1>33, <2>1, <2>2 DEF ClearEmergency, ClearDrift, OperatorStep, BlockedReason
<1>34. CASE ClearUnresolved
  BY <1>34
     DEF ClearUnresolved, OperatorStep, BlockedReason, Latch
<1>35. CASE \E c \in Cid : MarkNotSent(c)
  BY <1>35
     DEF MarkNotSent, OperatorStep, SetStatus, Status
<1>36. CASE UNCHANGED vars
  BY <1>36
     DEF vars
<1> QED
  BY <1>1, <1>2, <1>3, <1>4, <1>5, <1>6, <1>7, <1>8, <1>9, <1>10, <1>11, <1>12, <1>13, <1>14, <1>15, <1>16, <1>17, <1>18, <1>19, <1>20, <1>21, <1>22, <1>23, <1>24, <1>25, <1>26, <1>27, <1>28, <1>29, <1>30, <1>31, <1>32, <1>33, <1>34, <1>35, <1>36
     DEF Next, ProcessStep, Environment
-----------------------------------------------------------------------------
\* What any step may do to the write-ahead facts: rows are never deleted, only a
\* POST makes an order known, once, and the gate is reached from a fresh row.
WriteAheadFrame ==
    /\ \A c \in Cid : status'[c] = "NO_ROW" => status[c] = "NO_ROW"
    /\ \A c \in Cid : Known(c)' => Known(c) \/ (pc = "post" /\ c = cand)
    /\ \/ posts' = posts
       \/ pc = "post" /\ pc' = "answer" /\ \E n \in 0..1 :
                          posts' = [posts EXCEPT ![cand] = posts[cand] + n]
    /\ pc' \in {"gate", "post"} =>
         /\ cand' = cand /\ posts' = posts
         /\ pc \in {"gate", "post"} \/ (pc = "intent" /\ status[cand] = "NO_ROW")
         /\ status'[cand] # "NO_ROW"

\* Every step of the router, of the broker and of the people around it respects
\* that frame: only Post makes an order known, only Intent leads to the gate.
LEMMA StepFrame ==
    ASSUME TypeOK, Control, WriteAhead, [Next]_vars
    PROVE  WriteAheadFrame
<1> USE DEF WriteAheadFrame, TypeOK, AccountTypeOK, Control, WriteAhead, Known, Reconciling, Goto, accountVars,
            durableVars, rowVars, flagVars, processVars, tickVars, observerVars
<1>1. CASE \E entry \in {"manage", "poll"} : StartTick(entry, NoCid)
  BY <1>1
     DEF StartTick
<1>2. CASE \E c \in Entrants : StartTick("cycle", c)
  BY <1>2
     DEF StartTick, Entrants
<1>3. CASE FinishTick
  BY <1>3
     DEF FinishTick, NoTick
<1>4. CASE ProcessRequests
  BY <1>4
     DEF ProcessRequests, Reconcile
<1>5. CASE ReadOpenTrades
  BY <1>5
     DEF ReadOpenTrades
<1>6. CASE ReadPendingBook
  BY <1>6
     DEF ReadPendingBook, RowStep
<1>7. CASE ReconcileRow
  BY <1>7
     DEF ReconcileRow, RowStep, MatchRow, MissingRow, UnresolvedMarketRow, LimitRow, LookupTrade, SetStatus
<1>8. CASE RowsDone
  BY <1>8
     DEF RowsDone, RowStep
<1>9. CASE BlockOnDrift
  BY <1>9
     DEF BlockOnDrift
<1>10. CASE FinishReconcile
  BY <1>10
     DEF FinishReconcile, AfterReconcile, StartSweep
<1>11. CASE RecordAnswer
  BY <1>11
     DEF RecordAnswer, Resume, SetStatus, SubmitStatus, Sweeps
<1>12. CASE \E c \in Cid : SweepRow(c)
  BY <1>12, WriteCallFrame
     DEF SweepRow, BrokerWrite, WriteKind, Answer
<1>13. CASE SweepDone
  BY <1>13
     DEF SweepDone
<1>14. CASE ReadManualRequest
  BY <1>14
     DEF ReadManualRequest, AfterManual, Reconcile, ManualStep
<1>15. CASE ServeManualRequest
  BY <1>15, WriteCallFrame
     DEF ServeManualRequest, AfterManual, BrokerWrite, ManualStep, WriteKind, Answer
<1>16. CASE FinishManualRequest
  BY <1>16
     DEF FinishManualRequest, AfterManual, ManualStep
<1>17. CASE LossCheck \/ FridayTick
  BY <1>17
     DEF LossCheck, FridayTick, MaybeSweep, StartSweep
<1>18. CASE Manage
  BY <1>18
     DEF Manage, Reconcile, StartSweep
<1>19. CASE Route
  BY <1>19
     DEF Route, Reconcile, EndTick
<1>20. CASE Admit
  BY <1>20
     DEF Admit, EndTick
<1>21. CASE Size
  BY <1>21, WriteCallFrame
     DEF Size, Sized, EndTick, StartSweep, BrokerWrite, WriteKind, Answer
<1>22. CASE Reversed
  BY <1>22
     DEF Reversed, Reconcile, EndTick
<1>23. CASE Flat
  BY <1>23
     DEF Flat, Sized, EndTick, StartSweep
<1>24. CASE Intent
  BY <1>24
     DEF Intent, EndTick, SetStatus
<1>25. CASE PreSubmitGate
  BY <1>25
     DEF PreSubmitGate, NotSent, RouteStep
<1>26. CASE Post
  BY <1>26, WriteCallFrame
     DEF Post, NotSent, RouteStep, BrokerWrite, WriteKind, Answer
<1>27. CASE Restart
  BY <1>27
     DEF Restart
<1>28. CASE Crash
  BY <1>28
     DEF Crash
<1>29. CASE AccountStep /\ UNCHANGED <<durableVars, processVars, observerVars>>
  BY <1>29, AccountStepFrame
<1>30. CASE EmergencyStop \/ RequestFlatten
  BY <1>30
     DEF EmergencyStop, RequestFlatten, DashboardStep
<1>31. CASE ShowDrift \/ RequestDriftClear
  BY <1>31
     DEF ShowDrift, RequestDriftClear, DashboardStep
<1>32. CASE \E c \in Cid : RequestManualClose(c)
  BY <1>32
     DEF RequestManualClose, DashboardStep
<1>33. CASE ClearEmergency \/ ClearDrift
  BY <1>33
     DEF ClearEmergency, ClearDrift, OperatorStep
<1>34. CASE ClearUnresolved
  BY <1>34
     DEF ClearUnresolved, OperatorStep
<1>35. CASE \E c \in Cid : MarkNotSent(c)
  BY <1>35
     DEF MarkNotSent, OperatorStep, SetStatus
<1>36. CASE UNCHANGED vars
  BY <1>36
     DEF vars
<1> QED
  BY <1>1, <1>2, <1>3, <1>4, <1>5, <1>6, <1>7, <1>8, <1>9, <1>10, <1>11, <1>12, <1>13, <1>14, <1>15, <1>16, <1>17, <1>18, <1>19, <1>20, <1>21, <1>22, <1>23, <1>24, <1>25, <1>26, <1>27, <1>28, <1>29, <1>30, <1>31, <1>32, <1>33, <1>34, <1>35, <1>36
     DEF Next, ProcessStep, Environment

-----------------------------------------------------------------------------
\* The write-ahead facts follow from the frame of the step.
LEMMA WriteAheadStep ==
    ASSUME TypeOK, Control, WriteAhead, WriteAheadFrame, TypeOK'
    PROVE  WriteAhead'
<1>1. ASSUME NEW c \in Cid, Known(c)'
      PROVE  status'[c] # "NO_ROW"
  <2>1. status[c] # "NO_ROW"
    BY <1>1 DEF WriteAheadFrame, WriteAhead
  <2> QED BY <2>1 DEF WriteAheadFrame
<1>2. ASSUME pc' \in {"gate", "post"}
      PROVE  posts'[cand'] = 0 /\ status'[cand'] # "NO_ROW"
  <2>1. cand' = cand /\ posts' = posts /\ status'[cand] # "NO_ROW"
    BY <1>2 DEF WriteAheadFrame
  <2>2. CASE pc \in {"gate", "post"}
    BY <2>1, <2>2 DEF WriteAhead
  <2>3. CASE pc = "intent" /\ status[cand] = "NO_ROW"
    <3>1. cand \in Cid /\ posts[cand] \in Nat
      BY <2>3 DEF Control, TypeOK
    <3>2. ~Known(cand)
      BY <2>3, <3>1 DEF WriteAhead
    <3> QED BY <2>1, <3>1, <3>2 DEF Known
  <2> QED BY <1>2, <2>2, <2>3 DEF WriteAheadFrame
<1>3. PostedAtMostOnce'
  <2> SUFFICES ASSUME NEW c \in Cid PROVE posts'[c] <= 1
    BY DEF PostedAtMostOnce
  <2>1. posts[c] \in Nat /\ posts[c] <= 1
    BY DEF TypeOK, WriteAhead, PostedAtMostOnce
  <2>2. CASE posts' = posts
    BY <2>1, <2>2
  <2>3. CASE pc = "post" /\ \E n \in 0..1 : posts' = [posts EXCEPT ![cand] = posts[cand] + n]
    <3>1. posts[cand] = 0
      BY <2>3 DEF WriteAhead
    <3> QED BY <2>1, <2>3, <3>1 DEF TypeOK
  <2> QED BY <2>2, <2>3 DEF WriteAheadFrame
<1> QED BY <1>1, <1>2, <1>3 DEF WriteAhead

\* What a step may do to a flatten request: a press replaces it by a newer one, a
\* sweep that ends drops it, and nothing else touches it or counts presses.
LEMMA FlattenFrame ==
    ASSUME TypeOK, Control, [Next]_vars
    PROVE  \/ UNCHANGED <<flatten, presses>>
           \/ flatten' = presses + 1 /\ presses' = presses + 1
           \/ SweepDone
<1> USE DEF Goto, accountVars, durableVars, rowVars, flagVars, processVars, tickVars,
            observerVars
<1>1. CASE \E entry \in {"manage", "poll"} : StartTick(entry, NoCid)
  BY <1>1 DEF StartTick
<1>2. CASE \E c \in Entrants : StartTick("cycle", c)
  BY <1>2 DEF StartTick, Entrants
<1>3. CASE FinishTick
  BY <1>3 DEF FinishTick
<1>4. CASE ProcessRequests \/ ReadOpenTrades \/ ReadPendingBook
  BY <1>4 DEF ProcessRequests, ReadOpenTrades, ReadPendingBook, RowStep
<1>5. CASE ReconcileRow \/ RowsDone \/ BlockOnDrift \/ FinishReconcile
  BY <1>5 DEF ReconcileRow, RowsDone, RowStep, BlockOnDrift, FinishReconcile
<1>6. CASE RecordAnswer \/ \E c \in Cid : SweepRow(c)
  BY <1>6 DEF RecordAnswer, SweepRow
<1>7. CASE ReadManualRequest \/ ServeManualRequest \/ FinishManualRequest
  BY <1>7 DEF ReadManualRequest, ServeManualRequest, FinishManualRequest, ManualStep
<1>8. CASE LossCheck \/ FridayTick \/ Manage
  BY <1>8 DEF LossCheck, FridayTick, MaybeSweep, Manage
<1>9. CASE Route \/ Admit \/ Size \/ Reversed \/ Flat
  BY <1>9 DEF Route, Admit, Size, Reversed, Flat
<1>10. CASE Intent \/ PreSubmitGate \/ Post
  BY <1>10 DEF Intent, PreSubmitGate, Post, RouteStep
<1>11. CASE SweepDone
  BY <1>11
<1>12. CASE Restart \/ Crash
  BY <1>12 DEF Restart, Crash
<1>13. CASE AccountStep /\ UNCHANGED <<durableVars, processVars, observerVars>>
  BY <1>13
<1>14. CASE RequestFlatten
  BY <1>14 DEF RequestFlatten, DashboardStep
<1>15. CASE EmergencyStop \/ ShowDrift \/ RequestDriftClear \/ \E c \in Cid : RequestManualClose(c)
  BY <1>15 DEF EmergencyStop, ShowDrift, RequestDriftClear, RequestManualClose, DashboardStep
<1>16. CASE ClearEmergency \/ ClearDrift \/ ClearUnresolved \/ \E c \in Cid : MarkNotSent(c)
  BY <1>16 DEF ClearEmergency, ClearDrift, ClearUnresolved, MarkNotSent, OperatorStep
<1>17. CASE UNCHANGED vars
  BY <1>17 DEF vars
<1> QED
  BY <1>1, <1>2, <1>3, <1>4, <1>5, <1>6, <1>7, <1>8, <1>9, <1>10, <1>11, <1>12, <1>13, <1>14, <1>15, <1>16, <1>17
     DEF Next, ProcessStep, Environment
-----------------------------------------------------------------------------
\* The invariant holds of a router deployed on an empty database.
LEMMA IInvInit == Init => IInv
<1> SUFFICES ASSUME Init PROVE WriteAhead /\ LatestPress
  BY TypeInit DEF IInv
<1>1. WriteAhead
  BY DEF Init, AccountInit, WriteAhead, Known, PostedAtMostOnce
<1>2. LatestPress
  BY DEF Init, LatestPress
<1> QED BY <1>1, <1>2

\* Every step preserves it.
LEMMA IInvStep == IInv /\ [Next]_vars => IInv'
<1> SUFFICES ASSUME IInv, [Next]_vars PROVE IInv'
  OBVIOUS
<1>1. TypeOK' /\ Control'
  BY TypeStep DEF IInv
<1>2. WriteAheadFrame
  BY StepFrame DEF IInv
<1>3. WriteAhead'
  BY <1>1, <1>2, WriteAheadStep DEF IInv
<1>4. LatestPress'
  <2>1. CASE UNCHANGED <<flatten, presses>>
    BY <2>1 DEF IInv, LatestPress
  <2>2. CASE flatten' = presses + 1 /\ presses' = presses + 1
    BY <2>2 DEF LatestPress
  <2>3. CASE SweepDone
    BY <2>3 DEF IInv, LatestPress, SweepDone, FlattenLeft, observerVars
  <2> QED BY <2>1, <2>2, <2>3, FlattenFrame DEF IInv
<1> QED BY <1>1, <1>3, <1>4 DEF IInv

\* The invariant of the router: types, control, write-ahead rows, latest press.
THEOREM IInvariant == Spec => []IInv
<1>1. Init => IInv
  BY IInvInit
<1>2. IInv /\ [Next]_vars => IInv'
  BY IInvStep
<1> QED BY <1>1, <1>2, PTL DEF Spec

\* The type invariant of the router, its database and the account.
THEOREM TypeCorrect == Spec => []TypeOK
<1>1. IInv => TypeOK
  BY DEF IInv
<1> QED BY <1>1, IInvariant, PTL

\* insert_intent before submit: the order of a cycle is posted at most once over
\* any number of crashes, restarts, lost answers, retried ticks and operator calls.
THEOREM PostedOnce == Spec => []PostedAtMostOnce
<1>1. IInv => PostedAtMostOnce
  BY DEF IInv, WriteAhead
<1> QED BY <1>1, IInvariant, PTL

\* The same row is why a restarted router can look up everything it sent.
THEOREM IntentFirst == Spec => []IntentBeforeExposure
<1>1. IInv => IntentBeforeExposure
  BY DEF IInv, TypeOK, AccountTypeOK, OrderState, WriteAhead, Known, IntentBeforeExposure,
         Exposed
<1> QED BY <1>1, IInvariant, PTL

\* _process_requests drops a flatten request only when no row is live, only if it
\* still holds the value this tick served, and so never for a later press.
THEOREM FlattenNotLost == Spec => FlattenServed
<1>1. IInv /\ [Next]_vars
        => [flatten # 0 /\ flatten' = 0 => Live = {} /\ flatten = raw /\ presses = raw]_vars
  <2> SUFFICES ASSUME IInv, [Next]_vars, flatten # 0, flatten' = 0
               PROVE  Live = {} /\ flatten = raw /\ presses = raw
    OBVIOUS
  <2>1. flatten \in Nat /\ presses \in Nat
    BY DEF IInv, TypeOK
  <2>2. SweepDone
    BY <2>1, FlattenFrame DEF IInv
  <2>3. Live = {} /\ flatten = raw
    BY <2>2 DEF SweepDone, FlattenLeft
  <2> QED BY <2>3 DEF IInv, LatestPress
<1> QED BY <1>1, IInvariant, PTL DEF Spec, FlattenServed

-----------------------------------------------------------------------------
\* The tick is between a broker write of one of these kinds and its record.
Answering(kinds) == pc = "answer" /\ call.kind \in kinds

-----------------------------------------------------------------------------
\* What the rows, the report of a pass and a positive answer prove about the broker.
AtBroker ==
    /\ \A c \in Rows({"OPEN"}) : TradeExists(c)
    /\ pc = "rec_rows" =>
         \A c \in Cid : /\ c \in report => TradeExists(c)
                        /\ c \notin report /\ status[c] = "OPEN" => order[c] = "closed"
    /\ Answering({"CLOSE"}) /\ call.answer = "ACCEPTED" => order[call.cid] = "closed"
    /\ Answering({"SUBMIT"}) /\ call.answer = "ACCEPTED" => TradeExists(call.cid)
    /\ Answering({"MODIFY"}) /\ call.answer = "ACCEPTED" => call.cid \in moved
    /\ stops \subseteq moved
    /\ RowsAgree

\* A trade that exists never stops to exist, a closed one never opens again, and a
\* stop at breakeven stays there.
TradesKept ==
    /\ \A c \in Cid : TradeExists(c) => TradeExists(c)'
    /\ \A c \in Cid : order[c] = "closed" => order'[c] = "closed"
    /\ moved \subseteq moved'

LEMMA WriteCallKeepsTrades ==
    ASSUME AccountTypeOK, NEW kind \in WriteKind, NEW c \in Cid, NEW a \in Answer,
           WriteCall(kind, c, a)
    PROVE  /\ TradesKept
           /\ a = "ACCEPTED" => /\ kind = "CLOSE" => order'[c] = "closed"
                                /\ kind = "SUBMIT" => order'[c] = "open"
                                /\ kind = "MODIFY" => c \in moved'
<1> USE DEF AccountTypeOK, TradesKept, TradeExists
<1>1. CASE a = "UNKNOWN"
  BY <1>1 DEF WriteCall, Unanswered
<1>2. CASE a # "UNKNOWN" /\ Processed(kind, c)
  BY <1>2 DEF WriteCall, Answered, Processed, SetOrder
<1>3. CASE a # "UNKNOWN" /\ UNCHANGED <<order, moved>>
  BY <1>3 DEF WriteCall, Answered, Processed, SetOrder
<1> QED BY <1>1, <1>2, <1>3 DEF WriteCall, Answered

LEMMA AccountStepKeepsTrades ==
    ASSUME AccountTypeOK, AccountStep
    PROVE  TradesKept
<1> USE DEF AccountTypeOK, TradesKept, TradeExists, SetOrder
<1>1. ASSUME NEW kind \in WriteKind, NEW c \in Cid, Deliver(kind, c) \/ Drop(kind, c)
      PROVE  TradesKept
  BY <1>1 DEF Deliver, Drop, Processed
<1>2. ASSUME NEW c \in Cid, FillLimit(c) \/ ExpireLimit(c) \/ StopOrTarget(c)
      PROVE  TradesKept
  BY <1>2 DEF FillLimit, ExpireLimit, StopOrTarget
<1>3. ASSUME NEW f \in Foreign, ForeignTrade(f)
      PROVE  TradesKept
  BY <1>3 DEF ForeignTrade
<1> QED BY <1>1, <1>2, <1>3 DEF AccountStep

LEMMA AtBrokerInit == Init => AtBroker
  BY DEF Init, AccountInit, AtBroker, Answering, Rows, RowsAgree, ClosedMeansClosed,
         BreakevenIsAtBroker, NoCall

\* Every step keeps that agreement: what it records, it has seen or been told.
LEMMA AtBrokerStep ==
    ASSUME TypeOK, Control, AtBroker, [Next]_vars
    PROVE  AtBroker'
<1> USE DEF TypeOK, AccountTypeOK, AtBroker, Answering, Rows, RowsAgree, ClosedMeansClosed,
            BreakevenIsAtBroker, Control, Goto, accountVars, durableVars, rowVars,
            flagVars, processVars, tickVars, observerVars
<1>1. CASE \E entry \in {"manage", "poll"} : StartTick(entry, NoCid)
  BY <1>1 DEF StartTick, TradeExists
<1>2. CASE \E c \in Entrants : StartTick("cycle", c)
  BY <1>2 DEF StartTick, TradeExists
<1>3. CASE FinishTick \/ Crash
  BY <1>3 DEF FinishTick, Crash, NoTick, TradeExists
<1>4. CASE ProcessRequests \/ ReadPendingBook \/ RowsDone \/ BlockOnDrift
  BY <1>4 DEF ProcessRequests, Reconcile, ReadPendingBook, RowsDone, RowStep, BlockOnDrift,
              TradeExists
<1>5. CASE ReadOpenTrades
  BY <1>5, ForeignAssumption DEF ReadOpenTrades, OpenTrades, OpenAtBroker, TradeExists
<1>6. CASE ReconcileRow
  BY <1>6 DEF ReconcileRow, RowStep, MatchRow, MissingRow, UnresolvedMarketRow, LimitRow,
              LookupTrade, SetStatus, SetLatch, TradeExists, UNRESOLVED_STATUSES
<1>7. CASE FinishReconcile
  BY <1>7 DEF FinishReconcile, Reconciling, AfterReconcile, StartSweep, TradeExists
<1>8. CASE RecordAnswer
  BY <1>8 DEF RecordAnswer, Resume, SetStatus, SetLatch, SubmitStatus, TradeExists, Sweeps
<1>9. CASE \E c \in Cid : SweepRow(c)
  BY <1>9, WriteCallKeepsTrades DEF SweepRow, BrokerWrite, TradesKept, TradeExists, WriteKind,
         Answer
<1>10. CASE SweepDone
  BY <1>10 DEF SweepDone, TradeExists
<1>11. CASE ReadManualRequest \/ FinishManualRequest
  BY <1>11 DEF ReadManualRequest, FinishManualRequest, AfterManual, Reconcile, ManualStep,
               TradeExists
<1>12. CASE ServeManualRequest
  BY <1>12, WriteCallKeepsTrades
     DEF ServeManualRequest, AfterManual, BrokerWrite, ManualStep, TradesKept,
         TradeExists, WriteKind, Answer
<1>13. CASE LossCheck \/ FridayTick \/ Manage
  BY <1>13 DEF LossCheck, FridayTick, MaybeSweep, Manage, StartSweep, Reconcile, TradeExists
<1>14. CASE Route \/ Admit \/ Reversed
  BY <1>14 DEF Route, Admit, Reversed, EndTick, Reconcile, TradeExists
<1>15. CASE Size
  BY <1>15, WriteCallKeepsTrades
     DEF Size, Sized, EndTick, StartSweep, BrokerWrite, TradesKept, TradeExists, WriteKind,
         Answer
<1>16. CASE Flat
  BY <1>16 DEF Flat, Sized, EndTick, StartSweep, TradeExists
<1>17. CASE Intent
  BY <1>17 DEF Intent, EndTick, SetStatus, TradeExists
<1>18. CASE PreSubmitGate
  BY <1>18 DEF PreSubmitGate, NotSent, RouteStep, TradeExists
<1>19. CASE Post
  BY <1>19, WriteCallKeepsTrades
     DEF Post, NotSent, RouteStep, BrokerWrite, TradesKept, TradeExists, WriteKind,
         Answer
<1>20. CASE Restart
  BY <1>20 DEF Restart, TradeExists
<1>21. CASE AccountStep /\ UNCHANGED <<durableVars, processVars, observerVars>>
  BY <1>21, AccountStepKeepsTrades DEF TradesKept
<1>22. CASE EmergencyStop \/ RequestFlatten \/ ShowDrift \/ RequestDriftClear
  BY <1>22 DEF EmergencyStop, RequestFlatten, ShowDrift, RequestDriftClear, DashboardStep,
               TradeExists
<1>23. CASE \E c \in Cid : RequestManualClose(c)
  BY <1>23 DEF RequestManualClose, DashboardStep, TradeExists
<1>24. CASE ClearEmergency \/ ClearDrift \/ ClearUnresolved
  BY <1>24 DEF ClearEmergency, ClearDrift, ClearUnresolved, OperatorStep, TradeExists
<1>25. CASE \E c \in Cid : MarkNotSent(c)
  BY <1>25 DEF MarkNotSent, OperatorStep, SetStatus, TradeExists
<1>26. CASE UNCHANGED vars
  BY <1>26 DEF vars, TradeExists
<1> QED
  BY <1>1, <1>2, <1>3, <1>4, <1>5, <1>6, <1>7, <1>8, <1>9, <1>10, <1>11, <1>12, <1>13, <1>14,
     <1>15, <1>16, <1>17, <1>18, <1>19, <1>20, <1>21, <1>22, <1>23, <1>24, <1>25, <1>26
     DEF Next, ProcessStep, Environment
-----------------------------------------------------------------------------
\* A drift episode, and the requests and the dashboard page that carry one, name
\* the block they belong to.
EpisodeOfBlock ==
    /\ episode \in {0, blocks}
    /\ shown.block = shown.episode /\ driftRequest.block = driftRequest.episode

\* The call a manual close waits for is the close of the requested trade.
ManualCall ==
    /\ (pc = "answer" /\ ret = "manual_done") \/ pc = "manual_done"
         => call.kind = "CLOSE" /\ call.cid = manual /\ manual \in Cid
    /\ pc = "manual_done" /\ call.answer \in {"ACCEPTED", "ABSENT"} => status[manual] # "OPEN"

\* Up to its admission a tick has no row to reverse.
BeforeReversal ==
    \/ pc \in {"down", "idle", "requests", "manual", "manual_go", "manual_done", "loss_check",
               "friday_check", "manage_check", "route", "admit"}
    \/ Reconciling /\ ret # "flat"
    \/ pc \in {"sweep", "answer"} /\ ret \in {"flatten", "loss", "friday", "manage", "manual_done"}

\* The status in which a row is acted upon.
ActedOn == [SUBMIT |-> "PENDING_SEND", CLOSE |-> "OPEN", MODIFY |-> "OPEN",
            CANCEL |-> "PENDING_LIMIT"]

\* Nobody changes a row between the check that chose it and the write that acts on it.
RowsHeld ==
    /\ pc = "rec_rows" => work \subseteq Live
    /\ BeforeReversal => rev = NoCid
    /\ pc = "size" /\ rev # NoCid => status[rev] = "OPEN" /\ latch[rev] = "none"
    /\ pc = "sweep" \/ (pc = "answer" /\ ret \in Sweeps)
         => \A c \in work : status[c] \in {"OPEN", "PENDING_LIMIT"} /\ latch[c] = "none"
    /\ pc = "answer" => /\ status[call.cid] = ActedOn[call.kind]
                        /\ call.kind # "SUBMIT" => latch[call.cid] = "none"
                        /\ ret \in Sweeps => call.cid \notin work
                        /\ call.kind = "SUBMIT" <=> ret = "done"
                        /\ ret = "done" => call.cid = cand
    /\ pc \in {"gate", "post"} => status[cand] = "PENDING_SEND"

TickInv == EpisodeOfBlock /\ ManualCall /\ RowsHeld

LEMMA TargetsAreActionable ==
    ASSUME NEW sweep, NEW c \in Targets(sweep)
    PROVE  c \in Cid /\ status[c] \in {"OPEN", "PENDING_LIMIT"} /\ latch[c] = "none"
  BY DEF Targets, Actionable, Rows

LEMMA TickInit == Init => TickInv
  BY NoCidAssumption
     DEF Init, AccountInit, TickInv, EpisodeOfBlock, ManualCall, RowsHeld, BeforeReversal,
         Reconciling, NoEpisode, NoCall

LEMMA TickStep ==
    ASSUME TypeOK, Control, TickInv, [Next]_vars
    PROVE  TickInv'
<1> USE NoCidAssumption
    DEF TypeOK, AccountTypeOK, TickInv, EpisodeOfBlock, ManualCall, RowsHeld, BeforeReversal,
        Reconciling, ActedOn, Control, Goto, Sweeps, accountVars, durableVars, rowVars,
        flagVars, processVars, tickVars, observerVars
<1>1. CASE \E entry \in {"manage", "poll"} : StartTick(entry, NoCid)
  BY <1>1 DEF StartTick
<1>2. CASE \E c \in Entrants : StartTick("cycle", c)
  BY <1>2 DEF StartTick
<1>3. CASE FinishTick \/ Crash
  BY <1>3 DEF FinishTick, Crash, NoTick
<1>4. CASE ProcessRequests \/ ReadPendingBook \/ RowsDone \/ BlockOnDrift
  BY <1>4 DEF ProcessRequests, Reconcile, ReadPendingBook, RowsDone, RowStep, BlockOnDrift,
              Live, Rows
<1>5. CASE ReadOpenTrades
  BY <1>5 DEF ReadOpenTrades, Live, Rows
<1>6. CASE ReconcileRow
  BY <1>6 DEF ReconcileRow, RowStep, MatchRow, MissingRow, UnresolvedMarketRow, LimitRow,
              LookupTrade, SetStatus, SetLatch, UNRESOLVED_STATUSES, Live, Rows
<1>7. CASE FinishReconcile
  BY <1>7, TargetsAreActionable
     DEF FinishReconcile, Reconciling, AfterReconcile, StartSweep, NoEpisode
<1>8. CASE RecordAnswer
  BY <1>8 DEF RecordAnswer, Resume, SetStatus, SetLatch, SubmitStatus, NoCall, WriteKind
<1>9. CASE \E c \in Cid : SweepRow(c)
  BY <1>9 DEF SweepRow, BrokerWrite, WriteKind, Answer
<1>10. CASE SweepDone
  BY <1>10 DEF SweepDone
<1>11. CASE ReadManualRequest \/ FinishManualRequest
  BY <1>11 DEF ReadManualRequest, FinishManualRequest, AfterManual, Reconcile, ManualStep
<1>12. CASE ServeManualRequest
  BY <1>12 DEF ServeManualRequest, AfterManual, BrokerWrite, ManualStep, WriteKind, Answer
<1>13. CASE LossCheck \/ FridayTick \/ Manage
  BY <1>13, TargetsAreActionable
     DEF LossCheck, FridayTick, MaybeSweep, Manage, StartSweep, Reconcile
<1>14. CASE Route \/ Reversed
  BY <1>14 DEF Route, Reversed, EndTick, Reconcile
<1>15. CASE Admit
  BY <1>15 DEF Admit, Reversible, EndTick, Live, Rows
<1>16. CASE Size
  BY <1>16, TargetsAreActionable
     DEF Size, Sized, EndTick, StartSweep, BrokerWrite, WriteKind, Answer
<1>17. CASE Flat
  BY <1>17, TargetsAreActionable DEF Flat, Sized, EndTick, StartSweep
<1>18. CASE Intent
  BY <1>18 DEF Intent, EndTick, SetStatus, Status
<1>19. CASE PreSubmitGate
  BY <1>19 DEF PreSubmitGate, NotSent, RouteStep
<1>20. CASE Post
  BY <1>20 DEF Post, NotSent, RouteStep, BrokerWrite, WriteKind, Answer
<1>21. CASE Restart
  BY <1>21 DEF Restart
<1>22. CASE AccountStep /\ UNCHANGED <<durableVars, processVars, observerVars>>
  BY <1>22 DEF Live, Rows
<1>23. CASE EmergencyStop \/ RequestFlatten \/ ShowDrift \/ RequestDriftClear
  BY <1>23 DEF EmergencyStop, RequestFlatten, ShowDrift, RequestDriftClear, DashboardStep,
               NoEpisode, Live, Rows
<1>24. CASE \E c \in Cid : RequestManualClose(c)
  BY <1>24 DEF RequestManualClose, DashboardStep, Live, Rows
<1>25. CASE ClearEmergency \/ ClearDrift \/ ClearUnresolved
  BY <1>25 DEF ClearEmergency, ClearDrift, ClearUnresolved, OperatorStep, Live, Rows
<1>26. CASE \E c \in Cid : MarkNotSent(c)
  BY <1>26 DEF MarkNotSent, OperatorStep, SetStatus
<1>27. CASE UNCHANGED vars
  BY <1>27 DEF vars, Live, Rows
<1> QED
  BY <1>1, <1>2, <1>3, <1>4, <1>5, <1>6, <1>7, <1>8, <1>9, <1>10, <1>11, <1>12, <1>13, <1>14,
     <1>15, <1>16, <1>17, <1>18, <1>19, <1>20, <1>21, <1>22, <1>23, <1>24, <1>25, <1>26, <1>27
     DEF Next, ProcessStep, Environment

-----------------------------------------------------------------------------
\* The write call whose answer was lost and is not recorded yet.
Unrecorded(kind, c) ==
    Answering({kind}) /\ call.cid = c /\ call.answer = "UNKNOWN"

\* Without a crash a close or a cancel the broker may still process is known to its row:
\* the row is past it, or latched with it, or about to be.
UnstackedRow(c) ==
    /\ <<"CLOSE", c>> \in wire =>
         /\ status[c] \in {"OPEN", "CLOSED", "CLOSED_AT_BROKER"}
         /\ status[c] = "OPEN" => latch[c] = "CLOSE" \/ Unrecorded("CLOSE", c)
    /\ <<"CANCEL", c>> \in wire =>
         /\ status[c] \notin {"NO_ROW", "PENDING_SEND", "UNKNOWN"}
         /\ status[c] = "PENDING_LIMIT" => latch[c] = "CANCEL" \/ Unrecorded("CANCEL", c)

Unstacked == crashes = 0 => \A c \in Cid : UnstackedRow(c)

\* Only a call without an answer leaves a request on its way.
LEMMA WriteCallWire ==
    ASSUME NEW kind \in WriteKind, NEW c \in Cid, NEW a \in Answer, WriteCall(kind, c, a)
    PROVE  wire' = IF a = "UNKNOWN" THEN wire \cup {<<kind, c>>} ELSE wire
  BY DEF WriteCall, Answered, Unanswered

LEMMA UnstackedInit == Init => Unstacked
  BY DEF Init, AccountInit, Unstacked, UnstackedRow

LEMMA UnstackedStep ==
    ASSUME TypeOK, Control, TickInv, Unstacked, [Next]_vars
    PROVE  Unstacked'
<1> SUFFICES ASSUME crashes' = 0, NEW c \in Cid
             PROVE  UnstackedRow(c)'
  BY DEF Unstacked
<1> USE DEF TypeOK, TickInv, RowsHeld, ActedOn, Unstacked, UnstackedRow, Unrecorded,
            Answering, Control, Goto, Sweeps, accountVars, durableVars, rowVars, flagVars,
            processVars, tickVars, observerVars
<1>1. CASE \E entry \in {"manage", "poll"} : StartTick(entry, NoCid)
  BY <1>1 DEF StartTick
<1>2. CASE \E d \in Entrants : StartTick("cycle", d)
  BY <1>2 DEF StartTick
<1>3. CASE FinishTick \/ Crash
  BY <1>3 DEF FinishTick, Crash, NoTick
<1>4. CASE ProcessRequests \/ ReadPendingBook \/ RowsDone \/ BlockOnDrift
  BY <1>4 DEF ProcessRequests, ReadPendingBook, RowsDone, RowStep, BlockOnDrift
<1>5. CASE ReadOpenTrades \/ FinishReconcile
  BY <1>5 DEF ReadOpenTrades, FinishReconcile
<1>6. CASE ReconcileRow
  BY <1>6 DEF ReconcileRow, RowStep, MatchRow, MissingRow, UnresolvedMarketRow, LimitRow,
              LookupTrade, SetStatus, SetLatch, UNRESOLVED_STATUSES, LIVE_STATUSES, Live, Rows
<1>7. CASE RecordAnswer
  BY <1>7 DEF RecordAnswer, Resume, SetStatus, SetLatch, SubmitStatus, NoCall, WriteKind, Answer
<1>8. CASE \E d \in Cid : SweepRow(d)
  BY <1>8, WriteCallWire DEF SweepRow, BrokerWrite, WriteKind, Answer
<1>9. CASE SweepDone
  BY <1>9 DEF SweepDone
<1>10. CASE ReadManualRequest \/ FinishManualRequest
  BY <1>10 DEF ReadManualRequest, FinishManualRequest, ManualStep
<1>11. CASE ServeManualRequest
  BY <1>11, WriteCallWire
     DEF ServeManualRequest, AfterManual, BrokerWrite, ManualStep, WriteKind, Answer
<1>12. CASE LossCheck \/ FridayTick \/ Manage
  BY <1>12 DEF LossCheck, FridayTick, MaybeSweep, Manage
<1>13. CASE Route \/ Admit \/ Reversed \/ Flat
  BY <1>13 DEF Route, Admit, Reversed, Flat, Sized, EndTick
<1>14. CASE Size
  BY <1>14, WriteCallWire DEF Size, Sized, EndTick, BrokerWrite, WriteKind, Answer
<1>15. CASE Intent
  BY <1>15 DEF Intent, EndTick, SetStatus
<1>16. CASE PreSubmitGate
  BY <1>16 DEF PreSubmitGate, NotSent, RouteStep
<1>17. CASE Post
  BY <1>17, WriteCallWire DEF Post, NotSent, RouteStep, BrokerWrite, WriteKind, Answer
<1>18. CASE Restart
  BY <1>18 DEF Restart
<1>19. CASE AccountStep /\ UNCHANGED <<durableVars, processVars, observerVars>>
  BY <1>19, AccountStepFrame
<1>20. CASE EmergencyStop \/ RequestFlatten \/ ShowDrift \/ RequestDriftClear
  BY <1>20 DEF EmergencyStop, RequestFlatten, ShowDrift, RequestDriftClear, DashboardStep
<1>21. CASE \E d \in Cid : RequestManualClose(d)
  BY <1>21 DEF RequestManualClose, DashboardStep
<1>22. CASE ClearEmergency \/ ClearDrift
  BY <1>22 DEF ClearEmergency, ClearDrift, OperatorStep
<1>23. CASE ClearUnresolved
  BY <1>23 DEF ClearUnresolved, OperatorStep, LatchedOpen, Settled, Rows, WriteKind
<1>24. CASE \E d \in Cid : MarkNotSent(d)
  BY <1>24 DEF MarkNotSent, OperatorStep, SetStatus, UNRESOLVED_STATUSES
<1>25. CASE UNCHANGED vars
  BY <1>25 DEF vars
<1> QED
  BY <1>1, <1>2, <1>3, <1>4, <1>5, <1>6, <1>7, <1>8, <1>9, <1>10, <1>11, <1>12, <1>13, <1>14,
     <1>15, <1>16, <1>17, <1>18, <1>19, <1>20, <1>21, <1>22, <1>23, <1>24, <1>25
     DEF Next, ProcessStep, Environment

-----------------------------------------------------------------------------
\* What is known of an order before its POST and of a submit that was answered, and of
\* a market order throughout: it never rests, it is looked for while it may still
\* arrive, what acts on it comes after it, and a rejected row has nothing behind it.
MarketRow(c) ==
    /\ order[c] # "resting" /\ status[c] \notin {"PENDING_LIMIT", "CANCELLED"}
    /\ <<"SUBMIT", c>> \in wire => order[c] = "none" /\ status[c] \in UNRESOLVED_STATUSES
    /\ \A kind \in WriteKind \ {"SUBMIT"} : <<kind, c>> \in wire => TradeExists(c)
    /\ status[c] = "REJECTED" => order[c] \in {"none", "gone"}
    /\ Answering({"SUBMIT"}) /\ call.cid = c =>
         /\ call.answer # "RESTING"
         /\ call.answer # "UNKNOWN" => <<"SUBMIT", c>> \notin wire
         /\ call.answer \in {"REJECTED", "FAILED"} => order[c] \in {"none", "gone"}

SentRow(c) ==
    /\ posts[c] = 0 => order[c] = "none" /\ <<"SUBMIT", c>> \notin wire
    /\ Answering({"SUBMIT"}) /\ call.cid = c => call.answer # "ABSENT"
    /\ c \notin LimitCid => MarketRow(c)

SentInv == \A c \in Cid : SentRow(c)

\* What may become of an order without a submit of it.
OrderMoves(c) ==
    \/ order'[c] = order[c]
    \/ order[c] = "open" /\ order'[c] = "closed"
    \/ order[c] = "resting" /\ order'[c] \in {"open", "gone"}

\* The broker processes a submit once, and takes it off its way.
LEMMA AccountStepOrders ==
    ASSUME AccountTypeOK, AccountStep, NEW c \in Cid
    PROVE  \/ OrderMoves(c)
           \/ /\ order[c] = "none" /\ <<"SUBMIT", c>> \in wire /\ <<"SUBMIT", c>> \notin wire'
              /\ order'[c] = "resting" => c \in LimitCid
<1> USE DEF AccountTypeOK, OrderMoves, SetOrder
<1>1. ASSUME NEW kind \in WriteKind, NEW d \in Cid, Deliver(kind, d)
      PROVE  \/ OrderMoves(c)
             \/ /\ order[c] = "none" /\ <<"SUBMIT", c>> \in wire /\ <<"SUBMIT", c>> \notin wire'
                /\ order'[c] = "resting" => c \in LimitCid
  BY <1>1 DEF Deliver, Processed
<1>2. ASSUME NEW kind \in WriteKind, NEW d \in Cid, Drop(kind, d)
      PROVE  OrderMoves(c)
  BY <1>2 DEF Drop
<1>3. ASSUME NEW d \in Cid, FillLimit(d) \/ ExpireLimit(d) \/ StopOrTarget(d)
      PROVE  OrderMoves(c)
  BY <1>3 DEF FillLimit, ExpireLimit, StopOrTarget
<1>4. ASSUME NEW f \in Foreign, ForeignTrade(f)
      PROVE  OrderMoves(c)
  BY <1>4 DEF ForeignTrade
<1> QED BY <1>1, <1>2, <1>3, <1>4 DEF AccountStep

\* A write call moves the order of another client id, or its own without a submit, the
\* same way; a submit that is answered says what became of it.
LEMMA WriteCallOrders ==
    ASSUME AccountTypeOK, NEW kind \in WriteKind, NEW d \in Cid, NEW a \in Answer,
           WriteCall(kind, d, a), NEW c \in Cid
    PROVE  /\ \/ OrderMoves(c)
              \/ /\ c = d /\ kind = "SUBMIT" /\ order[c] = "none" /\ a # "UNKNOWN" /\ a # "FAILED"
                 /\ a = "REJECTED" => order'[c] = "gone"
                 /\ order'[c] = "resting" => a = "RESTING"
           /\ a = "RESTING" => d \in LimitCid
<1> USE DEF AccountTypeOK, OrderMoves, SetOrder
<1>1. CASE a = "UNKNOWN"
  BY <1>1 DEF WriteCall, Unanswered
<1>2. CASE a # "UNKNOWN" /\ Processed(kind, d)
  BY <1>2 DEF WriteCall, Answered, Processed
<1>3. CASE UNCHANGED <<order, moved>>
  BY <1>3 DEF WriteCall, Answered, Processed
<1> QED BY <1>1, <1>2, <1>3 DEF WriteCall, Answered

LEMMA SentInit == Init => SentInv
  BY DEF Init, AccountInit, SentInv, SentRow, MarketRow, Answering

LEMMA SentStep ==
    ASSUME TypeOK, Control, WriteAhead, AtBroker, TickInv, SentInv, [Next]_vars
    PROVE  SentInv'
<1> SUFFICES ASSUME NEW c \in Cid PROVE SentRow(c)'
  BY DEF SentInv
<1> USE DEF TypeOK, WriteAhead, AtBroker, TickInv, RowsHeld, ActedOn, SentInv, SentRow, MarketRow,
            Answering, Control, TradeExists, Goto, Sweeps, accountVars, durableVars, rowVars,
            flagVars, processVars, tickVars, observerVars
<1>1. CASE \E entry \in {"manage", "poll"} : StartTick(entry, NoCid)
  BY <1>1 DEF StartTick
<1>2. CASE \E d \in Entrants : StartTick("cycle", d)
  BY <1>2 DEF StartTick
<1>3. CASE FinishTick \/ Crash
  BY <1>3 DEF FinishTick, Crash, NoTick
<1>4. CASE ProcessRequests \/ ReadPendingBook \/ RowsDone \/ BlockOnDrift
  BY <1>4 DEF ProcessRequests, Reconcile, ReadPendingBook, RowsDone, RowStep, BlockOnDrift
<1>5. CASE ReadOpenTrades \/ FinishReconcile
  BY <1>5 DEF ReadOpenTrades, FinishReconcile, AfterReconcile, StartSweep, Reconciling
<1>6. CASE ReconcileRow
  BY <1>6 DEF ReconcileRow, RowStep, MatchRow, MissingRow, UnresolvedMarketRow, LimitRow,
              LookupTrade, SetStatus, SetLatch, UNRESOLVED_STATUSES, LIVE_STATUSES, Live, Rows
<1>7. CASE RecordAnswer
  BY <1>7 DEF RecordAnswer, Resume, SetStatus, SetLatch, SubmitStatus, NoCall, WriteKind, Answer,
              UNRESOLVED_STATUSES
<1>8. CASE \E d \in Cid : SweepRow(d)
  BY <1>8, WriteCallWire, WriteCallOrders
     DEF SweepRow, BrokerWrite, OrderMoves, Rows, WriteKind, Answer
<1>9. CASE SweepDone
  BY <1>9 DEF SweepDone
<1>10. CASE ReadManualRequest \/ FinishManualRequest
  BY <1>10 DEF ReadManualRequest, FinishManualRequest, AfterManual, Reconcile, ManualStep
<1>11. CASE ServeManualRequest
  BY <1>11, WriteCallWire, WriteCallOrders
     DEF ServeManualRequest, AfterManual, BrokerWrite, ManualStep, OrderMoves, Rows, WriteKind,
         Answer
<1>12. CASE LossCheck \/ FridayTick \/ Manage
  BY <1>12 DEF LossCheck, FridayTick, MaybeSweep, Manage, StartSweep, Reconcile
<1>13. CASE Route \/ Admit \/ Reversed \/ Flat
  BY <1>13 DEF Route, Admit, Reversed, Flat, Sized, EndTick, StartSweep, Reconcile
<1>14. CASE Size
  BY <1>14, WriteCallWire, WriteCallOrders
     DEF Size, Sized, EndTick, StartSweep, BrokerWrite, OrderMoves, Rows, WriteKind, Answer
<1>15. CASE Intent
  BY <1>15 DEF Intent, EndTick, SetStatus, UNRESOLVED_STATUSES
<1>16. CASE PreSubmitGate
  BY <1>16 DEF PreSubmitGate, NotSent, RouteStep
<1>17. CASE Post
  <2>1. posts[cand] = 0 /\ status[cand] = "PENDING_SEND" /\ cand \in Cid
    BY <1>17 DEF Post
  <2>2. CASE emergency
    BY <1>17, <2>1, <2>2 DEF Post, NotSent, RouteStep
  <2>3. ASSUME NEW a \in Answer \ {"ABSENT"}, WriteCall("SUBMIT", cand, a),
               call' = [kind |-> "SUBMIT", cid |-> cand, answer |-> a],
               posts' = [posts EXCEPT ![cand] = IF a = "FAILED" THEN @ ELSE @ + 1],
               UNCHANGED durableVars
        PROVE  SentRow(c)'
    <3>1. wire' = IF a = "UNKNOWN" THEN wire \cup {<<"SUBMIT", cand>>} ELSE wire
      BY <2>1, <2>3, WriteCallWire DEF WriteKind
    <3>2. /\ \/ OrderMoves(c)
             \/ /\ c = cand /\ order[c] = "none" /\ a # "UNKNOWN" /\ a # "FAILED"
                /\ a = "REJECTED" => order'[c] = "gone"
                /\ order'[c] = "resting" => a = "RESTING"
          /\ a = "RESTING" => cand \in LimitCid
      BY <2>1, <2>3, WriteCallOrders DEF WriteKind
    <3>3. CASE c # cand
      BY <2>1, <2>3, <3>1, <3>2, <3>3 DEF OrderMoves
    <3>4. CASE c = cand
      BY <2>1, <2>3, <3>1, <3>2, <3>4 DEF OrderMoves, UNRESOLVED_STATUSES, Answer
    <3> QED BY <3>3, <3>4
  <2> QED BY <1>17, <2>2, <2>3 DEF Post, BrokerWrite, RouteStep
<1>18. CASE Restart
  BY <1>18 DEF Restart
<1>19. CASE AccountStep /\ UNCHANGED <<durableVars, processVars, observerVars>>
  <2>1. wire' \subseteq wire
    BY <1>19, AccountStepFrame
  <2>2. CASE OrderMoves(c)
    BY <1>19, <2>1, <2>2 DEF OrderMoves
  <2>3. CASE /\ order[c] = "none" /\ <<"SUBMIT", c>> \in wire /\ <<"SUBMIT", c>> \notin wire'
             /\ order'[c] = "resting" => c \in LimitCid
    BY <1>19, <2>1, <2>3 DEF UNRESOLVED_STATUSES
  <2> QED BY <1>19, <2>2, <2>3, AccountStepOrders
<1>20. CASE EmergencyStop \/ RequestFlatten \/ ShowDrift \/ RequestDriftClear
  BY <1>20 DEF EmergencyStop, RequestFlatten, ShowDrift, RequestDriftClear, DashboardStep
<1>21. CASE \E d \in Cid : RequestManualClose(d)
  BY <1>21 DEF RequestManualClose, DashboardStep
<1>22. CASE ClearEmergency \/ ClearDrift \/ ClearUnresolved
  BY <1>22 DEF ClearEmergency, ClearDrift, ClearUnresolved, OperatorStep
<1>23. CASE \E d \in Cid : MarkNotSent(d)
  BY <1>23 DEF MarkNotSent, OperatorStep, SetStatus, Settled, AccountTypeOK, OrderState, WriteKind
<1>24. CASE UNCHANGED vars
  BY <1>24 DEF vars
<1> QED
  BY <1>1, <1>2, <1>3, <1>4, <1>5, <1>6, <1>7, <1>8, <1>9, <1>10, <1>11, <1>12, <1>13, <1>14,
     <1>15, <1>16, <1>17, <1>18, <1>19, <1>20, <1>21, <1>22, <1>23, <1>24
     DEF Next, ProcessStep, Environment

-----------------------------------------------------------------------------
\* Market orders that are, or may yet become, a position.
MarketExposed == Exposed \ LimitCid

\* A new order is sized, recorded and sent only while no other row is unresolved, and
\* posted only while nothing is open or on its way.
OnePosition ==
    /\ pc \in {"size", "intent"} => Rows(UNRESOLVED_STATUSES) = {}
    /\ pc \in {"gate", "post"} => Rows(UNRESOLVED_STATUSES) \subseteq {cand}
    /\ pc = "post" => MarketExposed = {}
    /\ \A c, d \in MarketExposed : c = d

\* What a step may do to the account: nothing, a step of the broker's own, a close,
\* cancel or modify call, or the POST of the candidate.
LEMMA AccountFrame ==
    ASSUME TypeOK, Control, [Next]_vars
    PROVE  \/ UNCHANGED accountVars
           \/ AccountStep
           \/ \E kind \in WriteKind \ {"SUBMIT"}, c \in Cid, a \in Answer : WriteCall(kind, c, a)
           \/ /\ pc = "post" /\ pc' = "answer"
              /\ \E a \in Answer : WriteCall("SUBMIT", cand, a)
<1> USE DEF TypeOK, Control, Goto, durableVars, rowVars, flagVars, processVars, tickVars,
            observerVars
<1>1. CASE (\E entry \in {"manage", "poll"} : StartTick(entry, NoCid))
           \/ (\E d \in Entrants : StartTick("cycle", d)) \/ FinishTick
  BY <1>1 DEF StartTick, FinishTick
<1>2. CASE ProcessRequests \/ ReadOpenTrades \/ ReadPendingBook \/ ReconcileRow \/ RowsDone
           \/ BlockOnDrift \/ FinishReconcile
  BY <1>2 DEF ProcessRequests, ReadOpenTrades, ReadPendingBook, ReconcileRow, RowsDone, RowStep,
              BlockOnDrift, FinishReconcile
<1>3. CASE RecordAnswer \/ SweepDone \/ ReadManualRequest \/ FinishManualRequest
  BY <1>3 DEF RecordAnswer, SweepDone, ReadManualRequest, FinishManualRequest
<1>4. CASE \E d \in Cid : SweepRow(d)
  BY <1>4 DEF SweepRow, BrokerWrite, WriteKind, Answer
<1>5. CASE ServeManualRequest
  BY <1>5 DEF ServeManualRequest, BrokerWrite, Rows, WriteKind
<1>6. CASE LossCheck \/ FridayTick \/ Manage \/ Route \/ Admit \/ Reversed
  BY <1>6 DEF LossCheck, FridayTick, MaybeSweep, Manage, Route, Admit, Reversed
<1>7. CASE Size
  BY <1>7 DEF Size, Sized, EndTick, BrokerWrite, WriteKind
<1>8. CASE Flat \/ Intent \/ PreSubmitGate
  BY <1>8 DEF Flat, Sized, EndTick, Intent, PreSubmitGate
<1>9. CASE Post
  BY <1>9 DEF Post, BrokerWrite
<1>10. CASE Restart \/ Crash
  BY <1>10 DEF Restart, Crash
<1>11. CASE AccountStep /\ UNCHANGED <<durableVars, processVars, observerVars>>
  BY <1>11
<1>12. CASE EmergencyStop \/ RequestFlatten \/ ShowDrift \/ RequestDriftClear
            \/ \E d \in Cid : RequestManualClose(d)
  BY <1>12 DEF EmergencyStop, RequestFlatten, ShowDrift, RequestDriftClear, RequestManualClose,
               DashboardStep
<1>13. CASE ClearEmergency \/ ClearDrift \/ ClearUnresolved \/ \E d \in Cid : MarkNotSent(d)
  BY <1>13 DEF ClearEmergency, ClearDrift, ClearUnresolved, MarkNotSent, OperatorStep
<1>14. CASE UNCHANGED vars
  BY <1>14 DEF vars
<1> QED
  BY <1>1, <1>2, <1>3, <1>4, <1>5, <1>6, <1>7, <1>8, <1>9, <1>10, <1>11, <1>12, <1>13, <1>14
     DEF Next, ProcessStep, Environment

\* Nothing becomes exposed in a step other than the order the step posts.
Posted == IF pc = "post" /\ pc' = "answer" THEN {cand} ELSE {}

LEMMA ExposureFrame ==
    ASSUME TypeOK, Control, SentInv, [Next]_vars
    PROVE  MarketExposed' \subseteq MarketExposed \cup Posted
<1> SUFFICES ASSUME NEW c \in Cid, c \notin LimitCid, c \in Exposed', c \notin Posted
             PROVE  c \in Exposed
  BY DEF MarketExposed, Exposed
<1>1. order[c] # "resting" /\ (<<"SUBMIT", c>> \in wire => order[c] = "none")
  BY DEF SentInv, SentRow, MarketRow
<1>2. CASE UNCHANGED accountVars
  BY <1>2 DEF accountVars, Exposed
<1>3. CASE AccountStep
  BY <1>1, <1>3, AccountStepFrame, AccountStepOrders DEF TypeOK, OrderMoves, Exposed
<1>4. ASSUME NEW kind \in WriteKind, NEW d \in Cid, NEW a \in Answer, WriteCall(kind, d, a),
             kind = "SUBMIT" => c # d
      PROVE  c \in Exposed
  BY <1>1, <1>4, WriteCallWire, WriteCallOrders DEF TypeOK, OrderMoves, Exposed
<1>5. CASE /\ pc = "post" /\ pc' = "answer"
            /\ \E a \in Answer : WriteCall("SUBMIT", cand, a)
  BY <1>4, <1>5 DEF Control, WriteKind, Posted
<1> QED BY <1>2, <1>3, <1>4, <1>5, AccountFrame

\* How a tick comes to size, record and post an order, and what it looked at.
RouteFrame ==
    /\ pc' \in {"size", "intent"} =>
         \/ pc \in {"size", "intent"} /\ status' = status
         \/ /\ pc \in {"admit", "flat"} /\ status' = status
            /\ Rows(UNRESOLVED_STATUSES) = {}
    /\ pc' \in {"gate", "post"} =>
         \/ pc \in {"gate", "post"} /\ UNCHANGED <<status, cand>>
         \/ /\ pc = "intent" /\ cand' = cand
            /\ status' = [status EXCEPT ![cand] = "PENDING_SEND"]
    /\ pc' = "post" => pc = "post" \/ (OpenAtBroker = {} /\ pc = "gate" /\ UNCHANGED accountVars)

LEMMA RouteStepFrame ==
    ASSUME TypeOK, Control, [Next]_vars
    PROVE  RouteFrame
<1> USE DEF TypeOK, Control, RouteFrame, Goto, durableVars, rowVars, flagVars, processVars,
            tickVars, observerVars
<1>1. CASE (\E entry \in {"manage", "poll"} : StartTick(entry, NoCid))
           \/ (\E d \in Entrants : StartTick("cycle", d)) \/ FinishTick
  BY <1>1 DEF StartTick, FinishTick
<1>2. CASE ProcessRequests \/ ReadOpenTrades \/ ReadPendingBook \/ RowsDone \/ BlockOnDrift
  BY <1>2 DEF ProcessRequests, Reconcile, ReadOpenTrades, ReadPendingBook, RowsDone, RowStep,
              BlockOnDrift
<1>3. CASE ReconcileRow
  BY <1>3 DEF ReconcileRow, RowStep
<1>4. CASE FinishReconcile
  BY <1>4 DEF FinishReconcile, AfterReconcile, StartSweep, Reconciling
<1>5. CASE RecordAnswer
  BY <1>5 DEF RecordAnswer, Resume, Sweeps
<1>6. CASE (\E d \in Cid : SweepRow(d)) \/ SweepDone
  BY <1>6 DEF SweepRow, BrokerWrite, SweepDone
<1>7. CASE ReadManualRequest \/ ServeManualRequest \/ FinishManualRequest
  BY <1>7 DEF ReadManualRequest, ServeManualRequest, FinishManualRequest, AfterManual,
              BrokerWrite, ManualStep, Reconcile
<1>8. CASE LossCheck \/ FridayTick \/ Manage
  BY <1>8 DEF LossCheck, FridayTick, MaybeSweep, Manage, StartSweep, Reconcile
<1>9. CASE Route \/ Reversed
  BY <1>9 DEF Route, Reversed, EndTick, Reconcile
<1>10. CASE Admit
  BY <1>10 DEF Admit, EndTick
<1>11. CASE Size
  BY <1>11 DEF Size, Sized, EndTick, StartSweep, BrokerWrite
<1>12. CASE Flat
  BY <1>12 DEF Flat, Sized, EndTick, StartSweep, Live, Rows, LIVE_STATUSES, UNRESOLVED_STATUSES
<1>13. CASE Intent
  BY <1>13 DEF Intent, EndTick, SetStatus
<1>14. CASE PreSubmitGate
  BY <1>14 DEF PreSubmitGate, NotSent, RouteStep
<1>15. CASE Post
  BY <1>15 DEF Post, NotSent, RouteStep, BrokerWrite
<1>16. CASE Restart \/ Crash
  BY <1>16 DEF Restart, Crash
<1>17. CASE AccountStep /\ UNCHANGED <<durableVars, processVars, observerVars>>
  BY <1>17
<1>18. CASE EmergencyStop \/ RequestFlatten \/ ShowDrift \/ RequestDriftClear
            \/ \E d \in Cid : RequestManualClose(d)
  BY <1>18 DEF EmergencyStop, RequestFlatten, ShowDrift, RequestDriftClear, RequestManualClose,
               DashboardStep
<1>19. CASE ClearEmergency \/ ClearDrift \/ ClearUnresolved \/ \E d \in Cid : MarkNotSent(d)
  BY <1>19 DEF ClearEmergency, ClearDrift, ClearUnresolved, MarkNotSent, OperatorStep
<1>20. CASE UNCHANGED vars
  BY <1>20 DEF vars
<1> QED
  BY <1>1, <1>2, <1>3, <1>4, <1>5, <1>6, <1>7, <1>8, <1>9, <1>10, <1>11, <1>12, <1>13, <1>14,
     <1>15, <1>16, <1>17, <1>18, <1>19, <1>20
     DEF Next, ProcessStep, Environment

LEMMA OnePositionInit == Init => OnePosition
  BY DEF Init, AccountInit, OnePosition, MarketExposed, Exposed

\* Every step keeps the new order alone: the rows are looked at when it is admitted and
\* again when the router is flat, the account right before the POST.
LEMMA OnePositionStep ==
    ASSUME TypeOK, Control, WriteAhead, SentInv, OnePosition, [Next]_vars
    PROVE  OnePosition'
<1>1. RouteFrame /\ MarketExposed' \subseteq MarketExposed \cup Posted
  BY RouteStepFrame, ExposureFrame
<1>2. pc' \in {"size", "intent"} => Rows(UNRESOLVED_STATUSES)' = {}
  BY <1>1 DEF RouteFrame, OnePosition, Rows, UNRESOLVED_STATUSES
<1>3. pc' \in {"gate", "post"} => Rows(UNRESOLVED_STATUSES)' \subseteq {cand'}
  BY <1>1 DEF RouteFrame, OnePosition, Rows, UNRESOLVED_STATUSES, TypeOK
<1>4. ASSUME pc' = "post" PROVE MarketExposed' = {}
  <2>1. CASE pc = "post"
    BY <1>1, <1>4, <2>1 DEF OnePosition, Posted
  <2>2. CASE pc = "gate" /\ OpenAtBroker = {} /\ UNCHANGED accountVars
    <3> SUFFICES ASSUME NEW c \in MarketExposed PROVE FALSE
      BY <2>2 DEF MarketExposed, Exposed, accountVars
    <3>1. c \in Cid /\ c \notin LimitCid /\ order[c] # "open" /\ SentRow(c)
      BY <2>2 DEF MarketExposed, Exposed, OpenAtBroker, SentInv
    <3>2. <<"SUBMIT", c>> \in wire /\ c \in Rows(UNRESOLVED_STATUSES)
      BY <3>1 DEF SentRow, MarketRow, MarketExposed, Exposed, Rows
    <3>3. c = cand /\ posts[cand] = 0
      BY <2>2, <3>2 DEF OnePosition, WriteAhead
    <3> QED BY <3>1, <3>2, <3>3 DEF SentRow
  <2> QED BY <1>1, <1>4, <2>1, <2>2 DEF RouteFrame
<1>5. \A c, d \in MarketExposed' : c = d
  <2>1. CASE pc = "post"
    BY <1>1, <2>1 DEF OnePosition, Posted
  <2>2. CASE pc # "post"
    BY <1>1, <2>2 DEF OnePosition, Posted
  <2> QED BY <2>1, <2>2
<1> QED BY <1>2, <1>3, <1>4, <1>5 DEF OnePosition

-----------------------------------------------------------------------------
RowsInv == AtBroker /\ TickInv /\ Unstacked /\ SentInv /\ OnePosition

\* The rows and the broker: the invariant behind every theorem below.
THEOREM RowsInvariant == Spec => [](IInv /\ RowsInv)
<1>1. Init => RowsInv
  BY AtBrokerInit, TickInit, UnstackedInit, SentInit, OnePositionInit DEF RowsInv
<1>2. IInv /\ RowsInv /\ [Next]_vars => RowsInv'
  BY AtBrokerStep, TickStep, UnstackedStep, SentStep, OnePositionStep DEF IInv, RowsInv
<1> QED BY <1>1, <1>2, IInvariant, PTL DEF Spec

\* A row the router recorded as closed has no open trade, and a breakeven that counts as
\* done is the stop at the broker, whatever was lost, crashed or read late.
THEOREM RowsAgreeHolds == Spec => []RowsAgree
<1>1. RowsInv => RowsAgree
  BY DEF RowsInv, AtBroker
<1> QED BY <1>1, RowsInvariant, PTL

\* The half of it that the flatten and the reconcile rest on: CLOSED is closed.
THEOREM ClosedHolds == Spec => []ClosedMeansClosed
<1>1. RowsAgree => ClosedMeansClosed
  BY DEF RowsAgree
<1> QED BY <1>1, RowsAgreeHolds, PTL

\* A market entry given up as never sent has nothing behind it: no order, and no request
\* that may still arrive.
THEOREM MarketRejectedHolds ==
    Spec => [](\A c \in Rows({"REJECTED"}) \ LimitCid : order[c] \in {"none", "gone"} /\ Settled(c))
<1>1. RowsInv => \A c \in Rows({"REJECTED"}) \ LimitCid :
                    order[c] \in {"none", "gone"} /\ Settled(c)
  BY DEF RowsInv, SentInv, SentRow, MarketRow, Rows, Settled, TradeExists, UNRESOLVED_STATUSES
<1> QED BY <1>1, RowsInvariant, PTL

\* So it is for every row where the pullback entry is off, the deployed default.
THEOREM RejectedHolds ==
    ASSUME LimitCid = {}
    PROVE  Spec => []RejectedMeansNothingThere
<1>1. (\A c \in Rows({"REJECTED"}) \ LimitCid : order[c] \in {"none", "gone"} /\ Settled(c))
        => RejectedMeansNothingThere
  BY DEF RejectedMeansNothingThere
<1> QED BY <1>1, MarketRejectedHolds, PTL

\* One net position: two market orders are never both open or on their way, whatever
\* limit orders there are.
THEOREM MarketSingleHolds == Spec => [](\A c, d \in Exposed \ LimitCid : c = d)
<1>1. RowsInv => \A c, d \in Exposed \ LimitCid : c = d
  BY DEF RowsInv, OnePosition, MarketExposed
<1> QED BY <1>1, RowsInvariant, PTL

\* With the pullback entry off that is every order of ours.
THEOREM SingleExposureHolds ==
    ASSUME LimitCid = {}
    PROVE  Spec => []SingleExposure
<1>1. (\A c, d \in Exposed \ LimitCid : c = d) => SingleExposure
  BY DEF SingleExposure
<1> QED BY <1>1, MarketSingleHolds, PTL

-----------------------------------------------------------------------------
\* Which steps drop a manual request, start a write call and change the block that a
\* reconcile is about to clear.
RequestFrame ==
    /\ manual # NoCid /\ manual' = NoCid => ServeManualRequest \/ FinishManualRequest
    /\ call' # call => \/ call' = NoCall \/ call'.kind = "SUBMIT"
                       \/ (\E d \in Cid : SweepRow(d)) \/ ServeManualRequest \/ Size
    /\ pc = "rec_clear" /\ blocked' # blocked => FinishReconcile

LEMMA RequestStepFrame ==
    ASSUME TypeOK, [Next]_vars
    PROVE  RequestFrame
<1> USE NoCidAssumption DEF RequestFrame, Goto, accountVars, durableVars, rowVars, flagVars,
        processVars, tickVars, observerVars
<1>1. CASE (\E entry \in {"manage", "poll"} : StartTick(entry, NoCid))
           \/ (\E d \in Entrants : StartTick("cycle", d)) \/ FinishTick
  BY <1>1 DEF StartTick, FinishTick, NoTick
<1>2. CASE ProcessRequests \/ ReadOpenTrades \/ ReadPendingBook \/ RowsDone \/ BlockOnDrift
           \/ ReconcileRow
  BY <1>2 DEF ProcessRequests, Reconcile, ReadOpenTrades, ReadPendingBook, RowsDone, RowStep,
              BlockOnDrift, ReconcileRow
<1>3. CASE FinishReconcile
  BY <1>3 DEF FinishReconcile
<1>4. CASE RecordAnswer \/ SweepDone \/ ReadManualRequest
  BY <1>4 DEF RecordAnswer, SweepDone, ReadManualRequest, ManualStep
<1>5. CASE \E d \in Cid : SweepRow(d)
  BY <1>5 DEF SweepRow
<1>6. CASE ServeManualRequest \/ FinishManualRequest
  BY <1>6 DEF ServeManualRequest, FinishManualRequest, ManualStep
<1>7. CASE LossCheck \/ FridayTick \/ Manage
  BY <1>7 DEF LossCheck, FridayTick, MaybeSweep, Manage
<1>8. CASE Route \/ Admit \/ Reversed \/ Flat
  BY <1>8 DEF Route, Admit, Reversed, Flat, Sized, EndTick
<1>9. CASE Size
  BY <1>9 DEF Size
<1>10. CASE Intent \/ PreSubmitGate \/ Post
  BY <1>10 DEF Intent, EndTick, PreSubmitGate, Post, NotSent, BrokerWrite, RouteStep
<1>11. CASE Restart \/ Crash
  BY <1>11 DEF Restart, Crash, NoTick
<1>12. CASE AccountStep /\ UNCHANGED <<durableVars, processVars, observerVars>>
  BY <1>12
<1>13. CASE EmergencyStop \/ RequestFlatten \/ ShowDrift \/ RequestDriftClear
            \/ \E d \in Cid : RequestManualClose(d)
  BY <1>13 DEF EmergencyStop, RequestFlatten, ShowDrift, RequestDriftClear, RequestManualClose,
               DashboardStep
<1>14. CASE ClearEmergency \/ ClearDrift \/ ClearUnresolved \/ \E d \in Cid : MarkNotSent(d)
  BY <1>14 DEF ClearEmergency, ClearDrift, ClearUnresolved, MarkNotSent, OperatorStep
<1>15. CASE UNCHANGED vars
  BY <1>15 DEF vars
<1> QED
  BY <1>1, <1>2, <1>3, <1>4, <1>5, <1>6, <1>7, <1>8, <1>9, <1>10, <1>11, <1>12, <1>13, <1>14,
     <1>15
     DEF Next, ProcessStep, Environment

\* _process_manual_close consumes a request only with its trade proved off OPEN, or with
\* the broker's refusal of exactly that close in hand.
THEOREM ManualServedHolds == Spec => ManualServed
<1>1. IInv /\ RowsInv /\ [Next]_vars
        => [manual # NoCid /\ manual' = NoCid
              => \/ status[manual] # "OPEN"
                 \/ call = [kind |-> "CLOSE", cid |-> manual, answer |-> "REJECTED"]]_vars
  <2> SUFFICES ASSUME IInv, RowsInv, [Next]_vars, manual # NoCid, manual' = NoCid,
                      status[manual] = "OPEN"
               PROVE  call = [kind |-> "CLOSE", cid |-> manual, answer |-> "REJECTED"]
    OBVIOUS
  <2>1. FinishManualRequest
    BY RequestStepFrame DEF IInv, RequestFrame, ServeManualRequest, ManualStep, BrokerWrite
  <2>2. call.kind = "CLOSE" /\ call.cid = manual /\ call.answer \notin {"ACCEPTED", "ABSENT"}
    BY <2>1 DEF FinishManualRequest, RowsInv, TickInv, ManualCall
  <2>3. call.answer \in Consuming
    BY <2>1 DEF FinishManualRequest
  <2> QED BY <2>2, <2>3 DEF IInv, TypeOK, Consuming
<1> QED BY <1>1, RowsInvariant, PTL DEF Spec, ManualServed

\* A close or a cancel is never sent on top of one of the same order that the broker may
\* still process, as long as the process lives to record the lost answer.
THEOREM NothingStackedHolds == Spec => NothingStacked
<1>1. IInv /\ RowsInv /\ [Next]_vars
        => [crashes = 0 /\ call' # call /\ call'.kind \in {"CLOSE", "CANCEL"}
              => <<call'.kind, call'.cid>> \notin wire]_vars
  <2> SUFFICES ASSUME IInv, RowsInv, [Next]_vars, crashes = 0, call' # call,
                      call'.kind \in {"CLOSE", "CANCEL"}
               PROVE  <<call'.kind, call'.cid>> \notin wire
    OBVIOUS
  <2> DEFINE Fresh == /\ pc # "answer" /\ call'.cid \in Cid /\ latch[call'.cid] = "none"
                      /\ call'.kind = "CLOSE" => status[call'.cid] = "OPEN"
                      /\ call'.kind = "CANCEL" => status[call'.cid] = "PENDING_LIMIT"
  <2>1. Fresh
    <3> USE DEF RowsInv, TickInv, RowsHeld, IInv, TypeOK, Control, Sweeps, BrokerWrite
    <3>1. CASE \E d \in Cid : SweepRow(d)
      BY <3>1 DEF SweepRow
    <3>2. CASE ServeManualRequest
      BY <3>2 DEF ServeManualRequest, Rows
    <3>3. CASE Size
      BY <3>3 DEF Size, Sized, EndTick, tickVars
    <3> QED BY <3>1, <3>2, <3>3, RequestStepFrame DEF RequestFrame, NoCall
  <2>2. ASSUME NEW c \in Cid, pc # "answer", latch[c] = "none"
        PROVE  /\ status[c] = "OPEN" => <<"CLOSE", c>> \notin wire
               /\ status[c] = "PENDING_LIMIT" => <<"CANCEL", c>> \notin wire
    BY <2>2 DEF RowsInv, Unstacked, UnstackedRow, Unrecorded, Answering
  <2> QED BY <2>1, <2>2
<1> QED BY <1>1, RowsInvariant, PTL DEF Spec, NothingStacked

\* A drift-clear request of the dashboard ends only the block its operator was shown: an
\* episode token that was carried over to a later block never matches.
THEOREM DriftClearHolds == Spec => DriftClearIsForThisBlock
<1>1. IInv /\ RowsInv /\ [Next]_vars
        => [pc = "rec_clear" /\ blocked = "drift" /\ blocked' # "drift"
              => driftRequest.block = blocks]_vars
  <2> SUFFICES ASSUME IInv, RowsInv, [Next]_vars, pc = "rec_clear", blocked = "drift",
                      blocked' # "drift"
               PROVE  driftRequest.block = blocks
    OBVIOUS
  <2>1. FinishReconcile
    BY RequestStepFrame DEF IInv, RequestFrame
  <2>2. driftRequest # NoEpisode /\ driftRequest.episode = episode
    BY <2>1 DEF FinishReconcile, ClearVerified
  <2>3. driftRequest.block = driftRequest.episode /\ episode \in {0, blocks}
    BY DEF RowsInv, TickInv, EpisodeOfBlock
  <2> QED BY <2>2, <2>3 DEF IInv, TypeOK, NoEpisode
<1> QED BY <1>1, RowsInvariant, PTL DEF Spec, DriftClearIsForThisBlock
=============================================================================
