--------------------------- MODULE PaperCycle_proof ---------------------------
(***************************************************************************)
(* For any runtimes, symbols, calendar and horizon: the shared account     *)
(* keeps its types, a lock belongs to the running run of its symbol, an    *)
(* order enters only while it is current, and every step of the runtimes   *)
(* is a step of PaperLedger.  In the second half, what is kept in time: an *)
(* order fills before the boundary that cancels it and a position sees its *)
(* bars in sequence, for any number of runtimes; and for one runtime, the  *)
(* route of cloud_runner.py, no bar after its boundary reaches an open     *)
(* position and an earlier stop wins.                                      *)
(***************************************************************************)
EXTENDS PaperCycle, FiniteSetTheorems, TLAPS

\* The locals an operation relies on, stage by stage.
AfterData == {"size", "gate", "fill", "choose", "submit"}
Pricing == {"duration", "catch_up", "bar", "close", "pause_close"} \cup AfterData

LocalsOK(t) ==
    /\ t.stage \notin {"down", "idle"} => t.slot \in Slot
    /\ t.stage \notin {"down", "idle", "tick"} => t.sym \in Symbol
    /\ t.stage \in {"down", "idle", "tick"} => ~t.cycle
    /\ t.stage \in Pricing \/ (t.cycle /\ t.stage \notin {"data", "finish", "fail"}) => t.data \in Slot
    /\ t.stage = "cancel" /\ t.sym \in t.over => t.data \in Slot
    /\ t.stage = "pause_cancel" /\ t.pos # NoSlot => t.data \in Slot
    /\ t.stage \in {"catch_up", "bar"} => t.upto \in Slot /\ t.then \in {"size", "close", "pause_close"}
    /\ t.stage = "bar" => t.bar <= t.upto
    /\ t.stage = "close" \/ (t.stage \in {"catch_up", "bar"} /\ t.then = "close") => t.pos \in Slot
    \* A cycle enters its gate, and submits outside the weekend.
    /\ t.stage \in AfterData \/ (t.stage \in {"catch_up", "bar"} /\ t.then = "size") => t.cycle
    /\ t.stage \in {"fill", "choose", "submit"} /\ t.entry => t.slot \notin Weekend
    /\ t.stage = "submit" => t.entry

CycleInv == TypeOK /\ LockIsOfRun /\ \A p \in Proc : LocalsOK(task[p])

-----------------------------------------------------------------------------
\* The calendar.

LEMMA LeastOf ==
  ASSUME NEW S \in SUBSET Nat, S # {}
  PROVE  \E x \in S : \A y \in S : x <= y
<1> DEFINE T == {0..x : x \in S}
<1>1. IsWellFoundedOn(StrictSubsetOrdering(Nat), FiniteSubsetsOf(Nat))
  BY FS_StrictSubsetOrderingWellFounded
<1>2. T \subseteq FiniteSubsetsOf(Nat) /\ T # {}
  <2>1. \A x \in S : 0..x \in SUBSET Nat /\ IsFiniteSet(0..x)
    BY FS_Interval
  <2> QED
    BY <2>1 DEF FiniteSubsetsOf
<1>3. PICK m \in T : \A y \in T : ~(<<y, m>> \in StrictSubsetOrdering(Nat))
  <2> HIDE DEF T
  <2> QED
    BY <1>1, <1>2, WFMin
<1>4. PICK x \in S : m = 0..x
  OBVIOUS
<1>5. ASSUME NEW y \in S, y < x PROVE FALSE
  <2>1. 0..y \in T /\ 0..y \subseteq m /\ m # 0..y /\ m \in SUBSET Nat /\ 0..y \in SUBSET Nat
    BY <1>4, <1>5
  <2> QED
    BY <2>1, <1>3 DEF StrictSubsetOrdering
<1> QED
  BY <1>5

LEMMA FlattenFromType ==
  ASSUME NEW t \in Slot
  PROVE  FlattenFrom(t) \in Nat
<1> USE SetsAssumption DEF Slot
<1>1. CASE \E w \in Weekend : w >= t
  <2> DEFINE S == {w \in Weekend : w >= t}
  <2>0. Weekend \subseteq Nat
    BY SetsAssumption
  <2>1. S \in SUBSET Nat /\ S # {}
    BY <1>1, <2>0
  <2>2. \E w \in S : \A v \in S : w <= v
    <3> HIDE DEF S
    <3> QED
      BY <2>1, LeastOf
  <2>3. \E w \in Weekend : w >= t /\ \A v \in Weekend : v >= t => w <= v
    BY <2>2
  <2>4. (CHOOSE w \in Weekend : w >= t /\ \A v \in Weekend : v >= t => w <= v) \in Weekend
    BY <2>3
  <2> QED
    BY <1>1, <2>0, <2>4 DEF FlattenFrom
<1>2. CASE ~\E w \in Weekend : w >= t
  BY <1>2 DEF FlattenFrom
<1> QED
  BY <1>1, <1>2

LEMMA PositionBoundaryType ==
  ASSUME NEW f \in Slot
  PROVE  PositionBoundary(f) \in Nat
<1>1. FlattenFrom(f) \in Nat
  BY FlattenFromType
<1> QED
  BY <1>1 DEF PositionBoundary, Slot

-----------------------------------------------------------------------------
\* Tasks.

LEMMA AtType ==
  ASSUME NEW t \in Task, NEW stage \in Stages
  PROVE  /\ At(t, stage) \in Task
         /\ At(t, stage).stage = stage /\ At(t, stage).slot = t.slot /\ At(t, stage).sym = t.sym
         /\ At(t, stage).cycle = t.cycle /\ At(t, stage).data = t.data /\ At(t, stage).pos = t.pos
         /\ At(t, stage).entry = t.entry
BY DEF At, Task

LEMMA RestingType == Resting \in Task /\ Down \in Task /\ LocalsOK(Resting) /\ LocalsOK(Down)
<1>1. 0 \in 0..(MaxSlot + 1)
  BY SetsAssumption
<1> QED
  BY <1>1, SetsAssumption DEF Resting, Down, Task, Stages, LocalsOK, Pricing, AfterData

LEMMA ServedType ==
  ASSUME NEW t \in Task, t.slot \in Slot
  PROVE  Served(t) \in Task /\ LocalsOK(Served(t))
<1>1. "tick" \in Stages
  BY DEF Stages
<1>2. Served(t) \in Task
  BY <1>1, RestingType, ZenonT(60) DEF Served, Task
<1>3. /\ Served(t).stage = "tick" /\ Served(t).slot = t.slot
      /\ Served(t).cycle = FALSE
  BY DEF Served, Resting
<1> HIDE DEF Served
<1> QED
  BY <1>2, <1>3 DEF LocalsOK, Pricing, AfterData

LEMMA CatchUpToType ==
  ASSUME NEW t \in Task, NEW goal \in Nat, NEW stage \in Stages, t.data \in Slot
  PROVE  LET u == CatchUpTo(t, goal, stage) IN
         /\ u \in Task /\ u.upto \in Slot
         /\ u.stage = "catch_up" /\ u.slot = t.slot /\ u.sym = t.sym
         /\ u.cycle = t.cycle /\ u.data = t.data /\ u.pos = t.pos /\ u.then = stage
<1>1. Min(goal, t.data) \in Slot /\ Slot \subseteq 0..(MaxSlot + 1)
  BY SetsAssumption DEF Min, Slot
<1>2. "catch_up" \in Stages
  BY DEF Stages
<1> HIDE DEF Min
<1> QED
  BY <1>1, <1>2 DEF CatchUpTo, At, Task

\* Fields that LocalsOK does not read may change.
LEMMA AtOK ==
  ASSUME NEW t \in Task, LocalsOK(t), NEW stage \in Stages,
         t.stage \notin {"down", "idle", "tick"},
         stage \in {"data", "finish", "fail"} \/ stage \in {"duration", "close", "pause_close"} \/ stage \in AfterData,
         stage \in Pricing => t.data \in Slot,
         stage = "close" => t.pos \in Slot,
         stage \in AfterData => t.cycle,
         stage \in {"fill", "choose", "submit"} /\ t.entry => t.slot \notin Weekend,
         stage = "submit" => t.entry
  PROVE  At(t, stage) \in Task /\ LocalsOK(At(t, stage))
<1>2. t.slot \in Slot /\ t.sym \in Symbol
  BY DEF LocalsOK
<1>3. t.cycle /\ stage \notin {"data", "finish", "fail"} => t.data \in Slot
  BY DEF Pricing
<1> QED
  BY <1>2, <1>3, AtType DEF LocalsOK, Pricing, AfterData

LEMMA CatchUpToOK ==
  ASSUME NEW t \in Task, LocalsOK(t), NEW goal \in Nat, NEW stage \in {"size", "close", "pause_close"},
         t.stage \notin {"down", "idle", "tick"}, t.data \in Slot,
         stage = "close" => t.pos \in Slot, stage = "size" => t.cycle
  PROVE  CatchUpTo(t, goal, stage) \in Task /\ LocalsOK(CatchUpTo(t, goal, stage))
<1> DEFINE u == CatchUpTo(t, goal, stage)
<1>0. stage \in Stages
  BY DEF Stages
<1>1. /\ u \in Task /\ u.upto \in Slot
      /\ u.stage = "catch_up" /\ u.slot = t.slot /\ u.sym = t.sym
      /\ u.cycle = t.cycle /\ u.data = t.data /\ u.pos = t.pos /\ u.then = stage
  BY <1>0, CatchUpToType
<1>2. t.slot \in Slot /\ t.sym \in Symbol
  BY DEF LocalsOK
<1> HIDE DEF u
<1>3. LocalsOK(u)
  BY <1>1, <1>2 DEF LocalsOK, Pricing, AfterData
<1> QED
  BY <1>1, <1>3 DEF u

-----------------------------------------------------------------------------
\* Every write of the account is a step of the ledger, and only submit enters an order.

NoEntry == \A s \in Symbol, t \in Slot : paper'.order[s][t] = "PENDING" => paper.order[s][t] = "PENDING"

LEMMA BookedStep ==
  ASSUME paper \in Paper, NEW s \in Symbol, paper.position[s] # Flat, paper' \in Booked(paper, s)
  PROVE  paper' \in Paper /\ Ledger!Close(s) /\ Ledger!LedgerNext /\ NoEntry
<1>1. PICK e \in Equity :
        paper' = [paper EXCEPT !.position[s] = Flat, !.trades[s][paper.position[s].run] = @ + 1, !.equity = e]
  BY DEF Booked
<1>2. paper.position[s] \in Ledger!Position /\ paper.position[s].run \in Slot
  BY DEF Paper, Ledger!Position, Ledger!Slot, Slot
<1>3. /\ paper'.order = paper.order
      /\ paper'.position = [paper.position EXCEPT ![s] = Flat]
      /\ paper'.trades = [paper.trades EXCEPT ![s][paper.position[s].run] = @ + 1]
  BY <1>1 DEF Paper
<1>4. paper'.trades \in [Symbol -> [Slot -> Nat]]
  <2>1. paper.trades \in [Symbol -> [Slot -> Nat]]
    BY DEF Paper
  <2>2. paper.trades[s][paper.position[s].run] + 1 \in Nat
    BY <1>2, <2>1
  <2> QED
    BY <1>2, <1>3, <2>1, <2>2
<1>5. paper'.position \in [Symbol -> Ledger!Position \cup {Flat}]
  BY <1>3, SMTT(40) DEF Paper
<1>6. paper' \in Paper
  BY <1>1, <1>4, <1>5 DEF Paper
<1> QED
  BY <1>3, <1>6 DEF Ledger!Close, Ledger!LedgerNext, NoEntry

LEMMA BarStep ==
  ASSUME paper \in Paper, NEW s \in Symbol, NEW b \in Slot, paper' \in BarResults(paper, s, b)
  PROVE  paper' \in Paper /\ Ledger!LedgerNext /\ NoEntry
<1>1. paper.position[s] # Flat /\ ~(b <= paper.position[s].mark)
  BY DEF BarResults
<1>2. paper.position[s] \in Ledger!Position /\ paper.position[s].mark \in Slot
  BY <1>1 DEF Paper, Ledger!Position, Ledger!Slot, Slot
<1>3. CASE paper' \in Booked(paper, s)
  BY <1>1, <1>3, BookedStep
<1>4. CASE \E e \in Equity : paper' = [paper EXCEPT !.position[s].mark = b, !.equity = e]
  <2>1. PICK e \in Equity : paper' = [paper EXCEPT !.position[s].mark = b, !.equity = e]
    BY <1>4
  <2>2. [paper.position[s] EXCEPT !.mark = b] \in Ledger!Position
    BY <1>2 DEF Ledger!Position, Ledger!Slot, Slot
  <2>3. /\ paper'.order = paper.order /\ paper'.trades = paper.trades
        /\ paper'.position = [paper.position EXCEPT ![s].mark = b]
    BY <2>1 DEF Paper
  <2>4. paper' \in Paper
    BY <2>1, <2>2 DEF Paper
  <2>5. Ledger!Bar(s, b)
    BY <1>1, <1>2, <2>3, SetsAssumption DEF Ledger!Bar, Slot
  <2> QED
    BY <2>3, <2>4, <2>5 DEF Ledger!LedgerNext, Ledger!Slot, Slot, NoEntry
<1> QED
  BY <1>1, <1>3, <1>4 DEF BarResults

LEMMA CancelStep ==
  ASSUME paper \in Paper, NEW s \in Symbol, NEW due, due \subseteq PendingIn(paper, s),
         paper' \in CancelResults(paper, s, due)
  PROVE  paper' \in Paper /\ Ledger!LedgerNext /\ NoEntry
<1>1. /\ due # {}
      /\ paper' = [paper EXCEPT !.order[s] = [t \in Slot |-> IF t \in due THEN "CANCELLED" ELSE @[t]]]
  BY DEF CancelResults
<1>2. /\ paper'.position = paper.position /\ paper'.trades = paper.trades
      /\ paper'.order = [paper.order EXCEPT ![s] =
                           [t \in Slot |-> IF t \in due THEN "CANCELLED" ELSE paper.order[s][t]]]
  BY <1>1 DEF Paper
<1>3. [t \in Slot |-> IF t \in due THEN "CANCELLED" ELSE paper.order[s][t]] \in [Slot -> Ledger!OrderStatus]
  BY DEF Paper, Ledger!OrderStatus
<1>4. paper' \in Paper
  BY <1>1, <1>3 DEF Paper
<1>5. Ledger!Settle(s, due)
  BY <1>1, <1>2 DEF Ledger!Settle, Ledger!Pending, PendingIn, Ledger!Slot, Slot
<1>6. due \in SUBSET Ledger!Slot
  BY DEF PendingIn, Ledger!Slot, Slot
<1>7. NoEntry
  BY <1>2 DEF NoEntry, Paper
<1> QED
  BY <1>4, <1>5, <1>6, <1>7 DEF Ledger!LedgerNext

LEMMA FillStep ==
  ASSUME paper \in Paper, NEW s \in Symbol, NEW b \in Slot, paper' \in FillResults(paper, s, b)
  PROVE  paper' \in Paper /\ Ledger!LedgerNext /\ NoEntry
<1>1. PICK t \in PendingIn(paper, s) :
        /\ b > t
        /\ \/ paper' = [paper EXCEPT !.order[s][t] = "REJECTED"]
           \/ paper' = [paper EXCEPT !.order[s][t] = "FILLED",
                                     !.position[s] = [run |-> t, opened |-> b, mark |-> b]]
  BY DEF FillResults
<1>2. t \in Slot /\ t \in Ledger!Slot /\ b \in Ledger!Slot /\ paper.order[s][t] = "PENDING"
  BY DEF PendingIn, Slot, Ledger!Slot
<1>3. CASE paper' = [paper EXCEPT !.order[s][t] = "REJECTED"]
  <2>1. /\ paper'.position = paper.position /\ paper'.trades = paper.trades
        /\ paper'.order = [paper.order EXCEPT ![s][t] = "REJECTED"]
    BY <1>3 DEF Paper
  <2>2. paper' \in Paper
    BY <1>2, <1>3 DEF Paper, Ledger!OrderStatus
  <2>3. paper'.order = [paper.order EXCEPT ![s] =
                          [u \in Slot |-> IF u \in {t} THEN "REJECTED" ELSE paper.order[s][u]]]
    BY <1>2, <2>1 DEF Paper
  <2>4. Ledger!Settle(s, {t})
    BY <1>2, <2>1, <2>3 DEF Ledger!Settle, Ledger!Pending, Ledger!Slot, Slot
  <2> QED
    BY <1>2, <2>1, <2>2, <2>4 DEF Ledger!LedgerNext, NoEntry, Paper
<1>4. CASE paper' = [paper EXCEPT !.order[s][t] = "FILLED",
                                  !.position[s] = [run |-> t, opened |-> b, mark |-> b]]
  <2>1. /\ paper'.trades = paper.trades
        /\ paper'.order = [paper.order EXCEPT ![s][t] = "FILLED"]
        /\ paper'.position = [paper.position EXCEPT ![s] = [run |-> t, opened |-> b, mark |-> b]]
    BY <1>4 DEF Paper
  <2>2. [run |-> t, opened |-> b, mark |-> b] \in Ledger!Position
    BY <1>2 DEF Ledger!Position
  <2>3. paper' \in Paper
    BY <1>2, <1>4, <2>2 DEF Paper, Ledger!OrderStatus
  <2>4. Ledger!Fill(s, t, b)
    BY <1>1, <1>2, <2>1 DEF Ledger!Fill
  <2> QED
    BY <1>2, <2>1, <2>3, <2>4 DEF Ledger!LedgerNext, NoEntry, Paper
<1> QED
  BY <1>1, <1>3, <1>4

LEMMA SubmitStep ==
  ASSUME paper \in Paper, NEW s \in Symbol, NEW t \in Slot, NEW sized,
         paper' \in SubmitResults(paper, s, t, sized)
  PROVE  /\ paper' \in Paper /\ Ledger!Submit(s, t) /\ Ledger!LedgerNext
         /\ paper.equity = sized
<1>1. /\ PendingIn(paper, s) = {} /\ paper.position[s] = Flat /\ paper.equity = sized
      /\ paper.order[s][t] = "NONE"
      /\ paper' = [paper EXCEPT !.order[s][t] = "PENDING"]
  BY DEF SubmitResults
<1>2. /\ paper'.position = paper.position /\ paper'.trades = paper.trades
      /\ paper'.order = [paper.order EXCEPT ![s][t] = "PENDING"]
  BY <1>1 DEF Paper
<1>3. paper' \in Paper
  BY <1>1 DEF Paper, Ledger!OrderStatus
<1>4. Ledger!Submit(s, t)
  BY <1>1, <1>2 DEF Ledger!Submit, Ledger!Pending, PendingIn, Ledger!Slot, Slot
<1> QED
  BY <1>1, <1>3, <1>4 DEF Ledger!LedgerNext, Ledger!Slot, Slot

LEMMA ResultStep ==
  ASSUME paper \in Paper, NEW t \in Task, LocalsOK(t), t.stage \in Writes, paper' \in Results(t, paper)
  PROVE  /\ paper' \in Paper /\ Ledger!LedgerNext
         /\ t.stage # "submit" => NoEntry
<1>1. t.sym \in Symbol /\ t.slot \in Slot
  BY DEF LocalsOK, Writes
<1>2. CASE t.stage = "bar"
  <2>1. t.bar \in Slot
    <3>1. t.bar \in Nat /\ t.upto \in Slot /\ t.bar <= t.upto
      BY <1>2 DEF LocalsOK, Task
    <3> QED
      BY <3>1, SetsAssumption DEF Slot
  <2>2. paper' \in BarResults(paper, t.sym, t.bar)
    BY <1>2 DEF Results
  <2> QED
    BY <1>1, <2>1, <2>2, BarStep
<1>3. CASE t.stage = "close"
  <2>1. paper.position[t.sym] # Flat /\ paper' \in Booked(paper, t.sym)
    BY <1>3 DEF Results, CloseResults
  <2> QED
    BY <1>1, <2>1, BookedStep
<1>4. CASE t.stage = "cancel"
  <2>1. paper' \in CancelResults(paper, t.sym, DueIn(paper, t.sym, t.slot))
    BY <1>4 DEF Results
  <2>2. DueIn(paper, t.sym, t.slot) \subseteq PendingIn(paper, t.sym)
    BY DEF DueIn
  <2> QED
    BY <1>1, <2>1, <2>2, CancelStep
<1>5. CASE t.stage = "fill"
  <2>1. paper' \in FillResults(paper, t.sym, t.data) /\ t.data \in Slot
    BY <1>5 DEF Results, LocalsOK, Pricing, AfterData
  <2> QED
    BY <1>1, <2>1, FillStep
<1>6. CASE t.stage = "submit"
  <2>1. paper' \in SubmitResults(paper, t.sym, t.slot, t.sized)
    BY <1>6 DEF Results
  <2> QED
    BY <1>1, <1>6, <2>1, SubmitStep
<1>7. CASE t.stage = "pause_cancel"
  <2>1. paper' \in CancelResults(paper, t.sym, PendingIn(paper, t.sym))
    BY <1>7 DEF Results
  <2> QED
    BY <1>1, <2>1, CancelStep
<1>8. CASE t.stage = "pause_close"
  <2>1. paper.position[t.sym] # Flat /\ paper' \in Booked(paper, t.sym)
    BY <1>8 DEF Results, PauseCloseResults
  <2> QED
    BY <1>1, <2>1, BookedStep
<1> QED
  BY <1>2, <1>3, <1>4, <1>5, <1>6, <1>7, <1>8 DEF Writes

-----------------------------------------------------------------------------
\* Where a write leads keeps the locals in order.

LEMMA ThenOK ==
  ASSUME NEW t \in Task, LocalsOK(t), t.stage = "bar"
  PROVE  At(t, t.then) \in Task /\ LocalsOK(At(t, t.then))
<1>1. t.then \in {"size", "close", "pause_close"} /\ t.then \in Stages
  BY DEF LocalsOK, Stages
<1>2. t.then = "close" => t.pos \in Slot
  BY DEF LocalsOK
<1>3. t.then = "size" => t.cycle
  BY DEF LocalsOK
<1>4. t.data \in Slot
  BY DEF LocalsOK, Pricing
<1> QED
  BY <1>1, <1>2, <1>3, <1>4, AtOK DEF AfterData

\* The other fields may change.
LEMMA BlockedOK ==
  ASSUME NEW t \in Task, LocalsOK(t), NEW acted \in BOOLEAN
  PROVE  /\ [t EXCEPT !.blocked = TRUE] \in Task /\ LocalsOK([t EXCEPT !.blocked = TRUE])
         /\ [t EXCEPT !.acted = acted] \in Task /\ LocalsOK([t EXCEPT !.acted = acted])
<1>0. [t EXCEPT !.blocked = TRUE] \in Task
  BY DEF Task
<1>1. [t EXCEPT !.acted = acted] \in Task
  BY DEF Task
<1>2. LocalsOK([t EXCEPT !.blocked = TRUE]) /\ LocalsOK([t EXCEPT !.acted = acted])
  BY DEF LocalsOK, Task
<1> QED
  BY <1>0, <1>1, <1>2

LEMMA AfterWriteOK ==
  ASSUME NEW t \in Task, LocalsOK(t), t.stage \in Writes, NEW h
  PROVE  AfterWrite(t, h) \in Task /\ LocalsOK(AfterWrite(t, h))
<1> DEFINE OK(u) == u \in Task /\ LocalsOK(u)
<1>1. t.sym \in Symbol /\ t.slot \in Slot /\ t.slot \in Nat
  BY SetsAssumption DEF LocalsOK, Writes, Slot
<1>2. OK(Served(t))
  BY <1>1, ServedType
<1>3. CASE t.stage = "bar"
  <2>1. CASE h.position[t.sym] = Flat \/ t.bar = t.upto
    BY <1>3, <2>1, ThenOK DEF AfterWrite
  <2>2. CASE ~(h.position[t.sym] = Flat \/ t.bar = t.upto)
    <3> DEFINE u == [At(t, "bar") EXCEPT !.bar = t.bar + 1, !.stale = t.stale]
    <3>1. AfterWrite(t, h) = u
      BY <1>3, <2>2 DEF AfterWrite, At, Task
    <3>2. t.bar + 1 <= t.upto /\ t.bar + 1 \in Nat
      <4>1. t.bar \in Nat /\ t.upto \in Nat /\ t.bar <= t.upto
        BY <1>3, SetsAssumption DEF LocalsOK, Task, Slot
      <4> QED
        BY <2>2, <4>1
    <3>3. /\ u \in Task /\ u.stage = t.stage /\ u.slot = t.slot /\ u.sym = t.sym /\ u.cycle = t.cycle
          /\ u.data = t.data /\ u.pos = t.pos /\ u.entry = t.entry /\ u.upto = t.upto /\ u.then = t.then
          /\ u.bar = t.bar + 1
      BY <1>3, <3>2 DEF At, Task
    <3> HIDE DEF u
    <3> QED
      BY <1>3, <3>1, <3>2, <3>3 DEF LocalsOK, Pricing, AfterData
  <2> QED
    BY <2>1, <2>2
<1>4. CASE t.stage = "close"
  <2>1. t.data \in Slot
    BY <1>4 DEF LocalsOK, Pricing
  <2>2. OK(At(t, "duration"))
    BY <1>4, <2>1, AtOK DEF AfterData, Stages
  <2> QED
    BY <1>4, <2>2 DEF AfterWrite
<1>5. CASE t.stage = "cancel"
  <2>1. CASE t.cycle
    <3>1. t.data \in Slot
      BY <1>5, <2>1 DEF LocalsOK
    <3>2. OK(CatchUpTo(t, t.slot, "size"))
      BY <1>1, <1>5, <2>1, <3>1, CatchUpToOK
    <3> QED
      BY <1>5, <2>1, <3>2 DEF AfterWrite
  <2>2. CASE ~t.cycle /\ t.sym \in t.over
    <3>1. t.data \in Slot
      BY <1>5, <2>2 DEF LocalsOK
    <3>2. OK(At(t, "duration"))
      BY <1>5, <3>1, AtOK DEF AfterData, Stages
    <3> QED
      BY <1>5, <2>2, <3>2 DEF AfterWrite
  <2>3. CASE ~t.cycle /\ t.sym \notin t.over
    BY <1>2, <1>5, <2>3 DEF AfterWrite
  <2> QED
    BY <2>1, <2>2, <2>3
<1>6. CASE t.stage = "fill"
  <2>1. t.data \in Slot /\ t.cycle /\ (t.entry => t.slot \notin Weekend)
    BY <1>6 DEF LocalsOK, Pricing, AfterData
  <2>2. OK(At(t, "choose"))
    BY <1>6, <2>1, AtOK DEF AfterData, Stages
  <2> QED
    BY <1>6, <2>2 DEF AfterWrite
<1>7. CASE t.stage = "submit"
  <2>1. OK(At(t, "finish"))
    BY <1>7, AtOK DEF AfterData, Stages, Pricing
  <2> QED
    BY <1>7, <2>1 DEF AfterWrite
<1>8. CASE t.stage = "pause_cancel"
  <2>1. CASE t.pos = NoSlot
    BY <1>2, <1>8, <2>1 DEF AfterWrite
  <2>2. CASE t.pos # NoSlot
    <3>1. t.data \in Slot
      BY <1>8, <2>2 DEF LocalsOK
    <3>2. OK(CatchUpTo(t, t.slot, "pause_close"))
      BY <1>1, <1>8, <3>1, CatchUpToOK
    <3> QED
      BY <1>8, <2>2, <3>2 DEF AfterWrite
  <2> QED
    BY <2>1, <2>2
<1>9. CASE t.stage = "pause_close"
  BY <1>2, <1>9 DEF AfterWrite
<1> QED
  BY <1>3, <1>4, <1>5, <1>6, <1>7, <1>8, <1>9 DEF Writes

LEMMA AfterStaleOK ==
  ASSUME NEW t \in Task, LocalsOK(t), t.stage \in Writes
  PROVE  AfterStale(t) \in Task /\ LocalsOK(AfterStale(t))
<1> DEFINE OK(u) == u \in Task /\ LocalsOK(u)
<1>1. t.sym \in Symbol /\ t.slot \in Slot /\ t.slot \in Nat
  BY SetsAssumption DEF LocalsOK, Writes, Slot
<1>2. OK(Served(t))
  BY <1>1, ServedType
<1>3. CASE t.stage = "bar" /\ t.then = "size"
  <2>1. t.data \in Slot /\ t.cycle
    BY <1>3 DEF LocalsOK, Pricing
  <2>2. OK(At(t, "size"))
    BY <1>3, <2>1, AtOK DEF AfterData, Stages
  <2>3. AfterStale(t) = [At(t, "size") EXCEPT !.blocked = TRUE]
    BY <1>3 DEF AfterStale
  <2> QED
    BY <2>2, <2>3, BlockedOK
<1>4. CASE t.stage = "fill"
  <2>1. OK(At(t, "fail"))
    BY <1>4, AtOK DEF AfterData, Stages, Pricing
  <2> QED
    BY <1>4, <2>1 DEF AfterStale
<1>5. CASE t.stage = "submit"
  <2>1. OK(At(t, "finish"))
    BY <1>5, AtOK DEF AfterData, Stages, Pricing
  <2> QED
    BY <1>5, <2>1 DEF AfterStale
<1>6. CASE t.stage = "cancel" /\ ~t.cycle
  BY <1>6, AfterWriteOK DEF AfterStale
<1>7. CASE t.cycle /\ ~(t.stage = "bar" /\ t.then = "size") /\ t.stage \notin {"fill", "submit"}
  <2>1. t.data \in Slot
    BY <1>7 DEF LocalsOK, Writes
  <2>2. OK(CatchUpTo(t, t.slot, "size"))
    BY <1>1, <1>7, <2>1, CatchUpToOK DEF Writes
  <2>3. AfterStale(t) = [CatchUpTo(t, t.slot, "size") EXCEPT !.blocked = TRUE]
    BY <1>7 DEF AfterStale, Blocked
  <2> QED
    BY <2>2, <2>3, BlockedOK
<1>8. CASE ~t.cycle /\ ~(t.stage = "bar" /\ t.then = "size") /\ t.stage \notin {"fill", "submit", "cancel"}
  BY <1>2, <1>8 DEF AfterStale
<1> QED
  BY <1>3, <1>4, <1>5, <1>6, <1>7, <1>8

-----------------------------------------------------------------------------
\* The steps.

LEMMA LocalStep ==
  ASSUME CycleInv, NEW p \in Proc, NEW u \in Task, LocalsOK(u), task' = [task EXCEPT ![p] = u],
         UNCHANGED <<paper, runs, lock, now, crashes>>
  PROVE  CycleInv'
BY DEF CycleInv, TypeOK, LockIsOfRun

LEMMA TaskOf ==
  ASSUME CycleInv, NEW p \in Proc
  PROVE  task[p] \in Task /\ LocalsOK(task[p])
BY DEF CycleInv, TypeOK

LEMMA InitInv == Init => CycleInv
<1> SUFFICES ASSUME Init PROVE CycleInv
  OBVIOUS
<1>0. 0 \in Slot /\ 0 \in 0..MaxCrashes
  BY SetsAssumption DEF Slot
<1>1. PICK first \in [Symbol -> {"NONE", "PENDING", "FILLED"}], e \in Equity :
        /\ paper = [order |-> [s \in Symbol |-> [t \in Slot |-> IF t = 0 THEN first[s] ELSE "NONE"]],
                    position |-> [s \in Symbol |-> IF first[s] = "FILLED"
                                                   THEN [run |-> 0, opened |-> 0, mark |-> 0] ELSE Flat],
                    trades |-> [s \in Symbol |-> [t \in Slot |-> 0]],
                    equity |-> e]
        /\ runs = [s \in Symbol |-> [t \in Slot |-> IF t = 0 /\ first[s] # "NONE" THEN "COMPLETED" ELSE "NONE"]]
  BY DEF Init
<1>2. paper \in Paper
  <2>1. [run |-> 0, opened |-> 0, mark |-> 0] \in Ledger!Position
    BY <1>0 DEF Ledger!Position, Ledger!Slot, Slot
  <2>2. paper.order \in [Symbol -> [Slot -> Ledger!OrderStatus]]
    BY <1>1 DEF Ledger!OrderStatus
  <2>3. paper.position \in [Symbol -> Ledger!Position \cup {Flat}]
    BY <1>1, <2>1
  <2>4. paper.trades \in [Symbol -> [Slot -> Nat]]
    BY <1>1
  <2> QED
    BY <1>1, <2>2, <2>3, <2>4 DEF Paper
<1>3. runs \in [Symbol -> [Slot -> {"NONE", "RUNNING", "COMPLETED", "FAILED"}]]
  BY <1>1
<1>4. TypeOK
  BY <1>0, <1>2, <1>3, RestingType DEF Init, TypeOK
<1>5. LockIsOfRun
  BY <1>1, NullAssumption DEF Init, LockIsOfRun, Slot
<1>6. \A p \in Proc : LocalsOK(task[p])
  BY RestingType DEF Init
<1> QED
  BY <1>4, <1>5, <1>6 DEF CycleInv

LEMMA WriteInv ==
  ASSUME CycleInv, NEW p \in Proc, Load(p) \/ Save(p) \/ Stale(p) \/ NotOwner(p)
  PROVE  CycleInv'
<1> DEFINE t == task[p]
<1>0. t \in Task /\ LocalsOK(t)
  BY TaskOf
<1>1. CASE Load(p)
  <2>1. t.stage \in Writes
    BY <1>1 DEF Load
  <2>2. WithoutWrite(t, paper) \in Task /\ LocalsOK(WithoutWrite(t, paper))
    BY <1>0, <2>1, AfterWriteOK, ThenOK DEF WithoutWrite
  <2>3. [t EXCEPT !.held = paper] \in Task /\ LocalsOK([t EXCEPT !.held = paper])
    <3>1. paper \in Paper
      BY DEF CycleInv, TypeOK
    <3> HIDE DEF t
    <3> QED
      BY <1>0, <3>1 DEF Task, LocalsOK
  <2>4. PICK u \in Task : LocalsOK(u) /\ task' = [task EXCEPT ![p] = u]
    BY <1>1, <2>2, <2>3 DEF Load
  <2> QED
    BY <1>1, <2>4, LocalStep DEF Load
<1>2. CASE Save(p)
  <2>1. t.stage \in Writes /\ paper' \in Results(t, paper)
    BY <1>2 DEF Save, SavePaper
  <2>2. paper' \in Paper
    BY <1>0, <2>1, ResultStep DEF CycleInv, TypeOK
  <2>3. AfterWrite(t, paper') \in Task /\ LocalsOK(AfterWrite(t, paper'))
    BY <1>0, <2>1, AfterWriteOK
  <2>4. PICK u \in Task : LocalsOK(u) /\ task' = [task EXCEPT ![p] = u]
    <3> DEFINE w == AfterWrite(t, paper')
               acted == w.acted \/ t.stage = "close"
    <3>1. acted \in BOOLEAN
      OBVIOUS
    <3>2. task' = [task EXCEPT ![p] = [w EXCEPT !.acted = acted]]
      BY <1>2 DEF Save
    <3> HIDE DEF w, acted
    <3>3. w \in Task /\ LocalsOK(w)
      BY <2>3 DEF w
    <3> QED
      BY <3>1, <3>2, <3>3, BlockedOK
  <2> QED
    BY <1>2, <2>2, <2>4 DEF Save, CycleInv, TypeOK, LockIsOfRun
<1>3. CASE Stale(p)
  <2>1. t.stage \in Writes
    BY <1>3 DEF Stale
  <2> DEFINE again == [t EXCEPT !.held = NoPaper, !.stale = TRUE,
                                !.stage = IF t.stage = "bar" THEN "catch_up" ELSE t.stage]
  <2>2. again \in Task /\ LocalsOK(again)
    <3>1. (IF t.stage = "bar" THEN "catch_up" ELSE t.stage) \in Stages
      BY <1>0 DEF Stages, Task
    <3> HIDE DEF t
    <3>0. again \in Task
      <4> DEFINE stage == IF t.stage = "bar" THEN "catch_up" ELSE t.stage
      <4>1. stage \in Stages
        BY <3>1
      <4> HIDE DEF stage
      <4>2. [t EXCEPT !.held = NoPaper, !.stale = TRUE, !.stage = stage] \in Task
        BY <1>0, <4>1 DEF Task
      <4> QED
        BY <4>2 DEF stage
    <3>2. /\ again.stage = (IF t.stage = "bar" THEN "catch_up" ELSE t.stage)
          /\ again.slot = t.slot /\ again.sym = t.sym /\ again.cycle = t.cycle /\ again.data = t.data
          /\ again.pos = t.pos /\ again.entry = t.entry /\ again.upto = t.upto /\ again.then = t.then
          /\ again.bar = t.bar /\ again.over = t.over
      BY <1>0 DEF Task
    <3> HIDE DEF again
    <3> QED
      BY <1>0, <2>1, <3>0, <3>2 DEF LocalsOK, Pricing, AfterData, Writes
  <2>3. AfterStale(t) \in Task /\ LocalsOK(AfterStale(t))
    BY <1>0, <2>1, AfterStaleOK
  <2>4. PICK u \in Task : LocalsOK(u) /\ task' = [task EXCEPT ![p] = u]
    BY <1>3, <2>2, <2>3 DEF Stale
  <2> QED
    BY <1>3, <2>4, LocalStep DEF Stale
<1>4. CASE NotOwner(p)
  <2>1. At(t, "fail") \in Task /\ LocalsOK(At(t, "fail"))
    BY <1>0, <1>4, AtOK DEF NotOwner, AfterData, Pricing, Stages, Writes
  <2> QED
    BY <1>4, <2>1, LocalStep DEF NotOwner
<1> QED
  BY <1>1, <1>2, <1>3, <1>4

LEMMA CatchUpInv ==
  ASSUME CycleInv, NEW p \in Proc, CatchUp(p)
  PROVE  CycleInv'
<1> DEFINE t == task[p]
           position == paper.position[t.sym]
           next == [t EXCEPT !.stage = "bar", !.bar = position.mark + 1]
<1>0. t \in Task /\ LocalsOK(t) /\ t.stage = "catch_up"
  BY TaskOf DEF CatchUp
<1>1. At(t, t.then) \in Task /\ LocalsOK(At(t, t.then))
  <2>1. t.then \in {"size", "close", "pause_close"} /\ t.then \in Stages
    BY <1>0 DEF LocalsOK, Stages
  <2>2. t.data \in Slot /\ (t.then = "close" => t.pos \in Slot) /\ (t.then = "size" => t.cycle)
    BY <1>0 DEF LocalsOK, Pricing
  <2> HIDE DEF t
  <2> QED
    BY <1>0, <2>1, <2>2, AtOK DEF AfterData
<1>2. ASSUME position # Flat, ~(position.mark >= t.upto)
      PROVE  next \in Task /\ LocalsOK(next)
  <2>1. position.mark \in Slot /\ t.upto \in Slot /\ t.sym \in Symbol
    BY <1>0, <1>2 DEF LocalsOK, CycleInv, TypeOK, Paper, Ledger!Position, Ledger!Slot, Slot
  <2>2. position.mark + 1 <= t.upto /\ position.mark + 1 \in Nat
    BY <1>2, <2>1, SetsAssumption DEF Slot
  <2> HIDE DEF t, position
  <2>3. "bar" \in Stages
    BY DEF Stages
  <2>4. next \in Task
    BY <1>0, <2>2, <2>3 DEF Task
  <2>5. /\ next.stage = "bar" /\ next.bar = position.mark + 1
        /\ next.slot = t.slot /\ next.sym = t.sym /\ next.cycle = t.cycle /\ next.data = t.data
        /\ next.pos = t.pos /\ next.entry = t.entry /\ next.upto = t.upto /\ next.then = t.then
    BY <1>0 DEF Task
  <2> HIDE DEF next
  <2> QED
    BY <1>0, <2>2, <2>4, <2>5 DEF LocalsOK, Pricing, AfterData
<1>3. PICK u \in Task : LocalsOK(u) /\ task' = [task EXCEPT ![p] = u]
  BY <1>1, <1>2 DEF CatchUp
<1> QED
  BY <1>3, LocalStep DEF CatchUp

LEMMA DurationInv ==
  ASSUME CycleInv, NEW p \in Proc, Duration(p)
  PROVE  CycleInv'
<1> DEFINE t == task[p]
           position == paper.position[t.sym]
           close == [CatchUpTo(t, PositionBoundary(position.opened), "close") EXCEPT !.pos = position.run]
<1>0. t \in Task /\ LocalsOK(t) /\ t.stage = "duration"
  BY TaskOf DEF Duration
<1>1. t.slot \in Slot /\ t.sym \in Symbol /\ t.data \in Slot
  BY <1>0 DEF LocalsOK, Pricing
<1>2. At(t, "cancel") \in Task /\ LocalsOK(At(t, "cancel"))
  <2> HIDE DEF t
  <2>1. "cancel" \in Stages
    BY DEF Stages
  <2> QED
    BY <1>0, <1>1, <2>1, AtType DEF LocalsOK, Pricing, AfterData
<1>3. Served(t) \in Task /\ LocalsOK(Served(t))
  BY <1>0, <1>1, ServedType
<1>4. ASSUME position # Flat
      PROVE  close \in Task /\ LocalsOK(close)
  <2>1. position.opened \in Slot /\ position.run \in Slot
    BY <1>1, <1>4 DEF CycleInv, TypeOK, Paper, Ledger!Position, Ledger!Slot, Slot
  <2>2. PositionBoundary(position.opened) \in Nat
    BY <2>1, PositionBoundaryType
  <2> HIDE DEF t, position
  <2> DEFINE v == CatchUpTo(t, PositionBoundary(position.opened), "close")
  <2>3. /\ v \in Task /\ v.upto \in Slot
        /\ v.stage = "catch_up" /\ v.slot = t.slot /\ v.sym = t.sym
        /\ v.cycle = t.cycle /\ v.data = t.data /\ v.then = "close"
    BY <1>0, <1>1, <2>2, CatchUpToType DEF Stages
  <2> HIDE DEF v
  <2>4. /\ close \in Task /\ close.pos = position.run /\ close.upto = v.upto
        /\ close.stage = "catch_up" /\ close.slot = t.slot /\ close.sym = t.sym
        /\ close.cycle = t.cycle /\ close.data = t.data /\ close.then = "close"
    BY <2>1, <2>3 DEF Task, v
  <2> HIDE DEF close
  <2> QED
    BY <1>1, <2>1, <2>3, <2>4 DEF LocalsOK, Pricing, AfterData
<1>5. PICK u \in Task : LocalsOK(u) /\ task' = [task EXCEPT ![p] = u]
  BY <1>2, <1>3, <1>4 DEF Duration, OverdueIn
<1> QED
  BY <1>5, LocalStep DEF Duration

LEMMA TickInv ==
  ASSUME CycleInv, NEW p \in Proc, StartTick(p) \/ EndTick(p)
  PROVE  CycleInv'
<1> DEFINE t == task[p]
<1>0. t \in Task /\ LocalsOK(t)
  BY TaskOf
<1>1. CASE StartTick(p)
  <2>1. PICK todo \in SUBSET Symbol, due \in SUBSET Symbol, over \in SUBSET Symbol :
          task' = [task EXCEPT ![p] = [task[p] EXCEPT !.stage = "tick", !.slot = now, !.todo = todo,
                                                      !.due = due, !.over = over]]
    BY <1>1, SetsAssumption DEF StartTick
  <2> DEFINE u == [t EXCEPT !.stage = "tick", !.slot = now, !.todo = todo, !.due = due, !.over = over]
  <2>2. t.stage = "idle" /\ now \in Slot
    BY <1>1 DEF StartTick, CycleInv, TypeOK
  <2> HIDE DEF t
  <2>3. u \in Task /\ u.stage = "tick" /\ u.slot = now /\ u.cycle = t.cycle
    <3>1. "tick" \in Stages
      BY DEF Stages
    <3>2. u \in Task
      BY <1>0, <2>2, <3>1 DEF Task
    <3> QED
      BY <1>0, <3>2 DEF Task
  <2> HIDE DEF u
  <2>4. LocalsOK(u)
    BY <1>0, <2>2, <2>3 DEF LocalsOK, Pricing, AfterData
  <2> QED
    BY <1>1, <2>1, <2>3, <2>4, LocalStep DEF StartTick, u, t
<1>2. CASE EndTick(p)
  BY <1>2, RestingType, LocalStep DEF EndTick
<1> QED
  BY <1>1, <1>2

\* The symbol a tick serves next, with the snapshot it got.
LEMMA ServeType ==
  ASSUME CycleInv, NEW p \in Proc, NEW s \in Symbol, Serve(p, s)
  PROVE  LET t == [task[p] EXCEPT !.todo = @ \ {s}, !.sym = s] IN
         /\ t \in Task /\ t.slot \in Slot /\ t.sym = s /\ t.cycle = FALSE
         /\ t.stage = "tick" /\ t.over \in SUBSET Symbol /\ t.pos \in Slot \cup {NoSlot}
<1>1. task[p] \in Task /\ LocalsOK(task[p]) /\ task[p].stage = "tick"
  BY TaskOf DEF Serve
<1>2. task[p].slot \in Slot /\ ~task[p].cycle
  BY <1>1 DEF LocalsOK
<1> QED
  BY <1>1, <1>2 DEF Task

LEMMA SnapshotType ==
  ASSUME NEW slot \in Slot, NEW data \in Snapshots(slot)
  PROVE  data \in Slot \cup {NoSlot}
BY SetsAssumption DEF Snapshots, Slot

LEMMA PausedInv ==
  ASSUME CycleInv, NEW p \in Proc, NEW s \in Symbol, StartPaused(p, s)
  PROVE  CycleInv'
<1> DEFINE t == [task[p] EXCEPT !.todo = @ \ {s}, !.sym = s]
           open == paper.position[s] # Flat
<1>0. /\ t \in Task /\ t.slot \in Slot /\ t.sym = s /\ t.cycle = FALSE
      /\ t.stage = "tick" /\ t.pos \in Slot \cup {NoSlot}
  BY ServeType DEF StartPaused
<1>1. Served(t) \in Task /\ LocalsOK(Served(t))
  BY <1>0, ServedType
<1> HIDE DEF t
<1>2. ASSUME NEW data \in Slot \cup {NoSlot}
      PROVE  LET u == [At(t, "pause_cancel") EXCEPT !.data = data,
                         !.pos = IF open /\ data # NoSlot THEN paper.position[s].run ELSE NoSlot] IN
             u \in Task /\ LocalsOK(u)
  <2> DEFINE run == IF open /\ data # NoSlot THEN paper.position[s].run ELSE NoSlot
             u == [At(t, "pause_cancel") EXCEPT !.data = data, !.pos = run]
  <2>1. run \in Slot \cup {NoSlot} /\ (run # NoSlot => data # NoSlot)
    BY DEF CycleInv, TypeOK, Paper, Ledger!Position, Ledger!Slot, Slot
  <2> HIDE DEF run
  <2>2. /\ u \in Task /\ u.stage = "pause_cancel" /\ u.slot = t.slot /\ u.sym = s
        /\ u.cycle = FALSE /\ u.data = data /\ u.pos = run
    <3> DEFINE v == At(t, "pause_cancel")
    <3>1. v \in Task /\ v.stage = "pause_cancel" /\ v.slot = t.slot /\ v.sym = s /\ v.cycle = FALSE
      BY <1>0, AtType DEF Stages
    <3> HIDE DEF v
    <3>2. [v EXCEPT !.data = data, !.pos = run] \in Task
      BY <1>2, <2>1, <3>1 DEF Task
    <3>3. LET w == [v EXCEPT !.data = data, !.pos = run] IN
          /\ w.stage = v.stage /\ w.slot = v.slot /\ w.sym = v.sym /\ w.cycle = v.cycle
          /\ w.data = data /\ w.pos = run
      BY <3>1 DEF Task
    <3> QED
      BY <3>1, <3>2, <3>3 DEF v
  <2> HIDE DEF u
  <2>3. LocalsOK(u)
    BY <1>0, <1>2, <2>1, <2>2 DEF LocalsOK, Pricing, AfterData
  <2> QED
    BY <2>2, <2>3 DEF u, run
<1>3. ASSUME NEW data \in Slot
      PROVE  LET u == CatchUpTo([t EXCEPT !.data = data], t.slot, "pause_close") IN
             u \in Task /\ LocalsOK(u)
  <2> DEFINE v == [t EXCEPT !.data = data]
             u == CatchUpTo(v, t.slot, "pause_close")
  <2>1. v \in Task /\ v.data = data /\ v.slot = t.slot /\ v.sym = s /\ v.cycle = FALSE
    BY <1>0, <1>3 DEF Task
  <2> HIDE DEF v
  <2>2. t.slot \in Nat /\ "pause_close" \in Stages
    BY <1>0, SetsAssumption DEF Slot, Stages
  <2>3. /\ u \in Task /\ u.upto \in Slot
        /\ u.stage = "catch_up" /\ u.slot = t.slot /\ u.sym = s
        /\ u.cycle = FALSE /\ u.data = data /\ u.then = "pause_close"
    BY <1>3, <2>1, <2>2, CatchUpToType
  <2> HIDE DEF u
  <2>4. LocalsOK(u)
    BY <1>0, <1>3, <2>3 DEF LocalsOK, Pricing, AfterData
  <2> QED
    BY <2>3, <2>4 DEF u, v
<1>4. PICK u \in Task : LocalsOK(u) /\ task' = [task EXCEPT ![p] = u]
  <2>1. PICK data \in IF open THEN Snapshots(t.slot) ELSE {NoSlot} :
          task' = [task EXCEPT ![p] =
            IF PendingIn(paper, s) # {}
            THEN [At(t, "pause_cancel") EXCEPT !.data = data,
                    !.pos = IF open /\ data # NoSlot THEN paper.position[s].run ELSE NoSlot]
            ELSE IF open /\ data # NoSlot
            THEN CatchUpTo([t EXCEPT !.data = data], t.slot, "pause_close")
            ELSE Served(t)]
    BY DEF StartPaused, t
  <2>2. data \in Slot \cup {NoSlot}
    BY <1>0, <2>1, SnapshotType
  <2>3. CASE PendingIn(paper, s) # {}
    BY <1>2, <2>1, <2>2, <2>3
  <2>4. CASE PendingIn(paper, s) = {} /\ open /\ data # NoSlot
    BY <1>3, <2>1, <2>2, <2>4
  <2>5. CASE PendingIn(paper, s) = {} /\ ~(open /\ data # NoSlot)
    BY <1>1, <2>1, <2>5
  <2> QED
    BY <2>3, <2>4, <2>5
<1> QED
  BY <1>4, LocalStep DEF StartPaused

LEMMA ManageInv ==
  ASSUME CycleInv, NEW p \in Proc, NEW s \in Symbol, StartManage(p, s)
  PROVE  CycleInv'
<1> DEFINE t == [task[p] EXCEPT !.todo = @ \ {s}, !.sym = s]
<1>0. /\ t \in Task /\ t.slot \in Slot /\ t.sym = s /\ t.cycle = FALSE
      /\ t.stage = "tick" /\ t.over \in SUBSET Symbol
  BY ServeType DEF StartManage
<1>1. PICK data \in IF s \in t.over THEN Snapshots(t.slot) ELSE {NoSlot} :
        LET u == [t EXCEPT !.data = data, !.over = IF data = NoSlot THEN @ \ {s} ELSE @] IN
        task' = [task EXCEPT ![p] = IF s \in u.due THEN At(u, "cancel")
                                    ELSE IF s \in u.over THEN At(u, "duration") ELSE Served(u)]
  BY DEF StartManage
<1>2. data \in Slot \cup {NoSlot}
  BY <1>0, <1>1, SnapshotType
<1> DEFINE over == IF data = NoSlot THEN t.over \ {s} ELSE t.over
           u == [t EXCEPT !.data = data, !.over = over]
<1>3. over \in SUBSET Symbol /\ (s \in over => data # NoSlot)
  BY <1>0
<1>4. task' = [task EXCEPT ![p] = IF s \in u.due THEN At(u, "cancel")
                                  ELSE IF s \in u.over THEN At(u, "duration") ELSE Served(u)]
  BY <1>0, <1>1 DEF Task
<1> HIDE DEF t, over
<1>5. /\ u \in Task /\ u.slot = t.slot /\ u.sym = s /\ u.cycle = FALSE
      /\ u.data = data /\ u.over = over
  BY <1>0, <1>2, <1>3 DEF Task
<1> HIDE DEF u
<1>6. At(u, "cancel") \in Task /\ LocalsOK(At(u, "cancel"))
  <2>1. At(u, "cancel").over = over
    BY <1>5 DEF At, Task
  <2> QED
    BY <1>0, <1>2, <1>3, <1>5, <2>1, AtType DEF LocalsOK, Pricing, AfterData, Stages
<1>7. ASSUME s \in u.over PROVE At(u, "duration") \in Task /\ LocalsOK(At(u, "duration"))
  BY <1>0, <1>2, <1>3, <1>5, <1>7, AtType DEF LocalsOK, Pricing, AfterData, Stages
<1>8. Served(u) \in Task /\ LocalsOK(Served(u))
  BY <1>0, <1>5, ServedType
<1>9. PICK w \in Task : LocalsOK(w) /\ task' = [task EXCEPT ![p] = w]
  BY <1>4, <1>6, <1>7, <1>8
<1> QED
  BY <1>9, LocalStep DEF StartManage

LEMMA StartCycleInv ==
  ASSUME CycleInv, NEW p \in Proc, NEW s \in Symbol, StartCycle(p, s)
  PROVE  CycleInv'
<1> DEFINE t == [task[p] EXCEPT !.todo = @ \ {s}, !.sym = s]
           u == [At(t, "data") EXCEPT !.cycle = TRUE]
<1>0. t \in Task /\ t.slot \in Slot /\ t.sym = s
  BY ServeType DEF StartCycle
<1>1. Served(t) \in Task /\ LocalsOK(Served(t))
  BY <1>0, ServedType
<1>2. CASE lock[s] = NoSlot /\ runs[s][t.slot] = "NONE"
  <2>1. /\ runs' = [runs EXCEPT ![s][t.slot] = "RUNNING"] /\ lock' = [lock EXCEPT ![s] = t.slot]
        /\ task' = [task EXCEPT ![p] = u] /\ UNCHANGED <<paper, now, crashes>>
    BY <1>2 DEF StartCycle
  <2> HIDE DEF t
  <2>2. u \in Task /\ u.stage = "data" /\ u.slot = t.slot /\ u.sym = s
    <3> DEFINE v == At(t, "data")
    <3>1. v \in Task /\ v.stage = "data" /\ v.slot = t.slot /\ v.sym = s
      BY <1>0, AtType DEF Stages
    <3> HIDE DEF v
    <3>2. [v EXCEPT !.cycle = TRUE] \in Task
      BY <3>1 DEF Task
    <3>3. LET w == [v EXCEPT !.cycle = TRUE] IN w.stage = v.stage /\ w.slot = v.slot /\ w.sym = v.sym
      BY <3>1 DEF Task
    <3> QED
      BY <3>1, <3>2, <3>3 DEF v
  <2> HIDE DEF u
  <2>3. LocalsOK(u)
    BY <1>0, <2>2 DEF LocalsOK, Pricing, AfterData
  <2>4. TypeOK'
    BY <1>0, <2>1, <2>2 DEF CycleInv, TypeOK
  <2>5. LockIsOfRun'
    <3> SUFFICES ASSUME NEW v \in Symbol, NEW r \in Slot
                 PROVE  lock'[v] = r <=> runs'[v][r] = "RUNNING"
      BY DEF LockIsOfRun
    <3>1. lock[v] = r <=> runs[v][r] = "RUNNING"
      BY DEF CycleInv, LockIsOfRun
    <3>2. r # NoSlot
      BY NullAssumption DEF Slot
    <3>3. CASE v = s
      <4>1. lock'[v] = t.slot /\ runs'[v][r] = (IF r = t.slot THEN "RUNNING" ELSE runs[v][r])
        BY <1>0, <2>1, <3>3 DEF CycleInv, TypeOK
      <4> QED
        BY <1>2, <3>1, <3>2, <3>3, <4>1
    <3>4. CASE v # s
      BY <1>0, <2>1, <3>1, <3>4 DEF CycleInv, TypeOK
    <3> QED
      BY <3>3, <3>4
  <2> QED
    BY <2>1, <2>2, <2>3, <2>4, <2>5 DEF CycleInv, TypeOK
<1>3. CASE ~(lock[s] = NoSlot /\ runs[s][t.slot] = "NONE")
  BY <1>1, <1>3, LocalStep DEF StartCycle
<1> QED
  BY <1>2, <1>3

LEMMA DataInv ==
  ASSUME CycleInv, NEW p \in Proc, Data(p)
  PROVE  CycleInv'
<1> DEFINE t == task[p]
           u == [At(t, "duration") EXCEPT !.data = t.slot]
<1>0. t \in Task /\ LocalsOK(t) /\ t.stage = "data"
  BY TaskOf DEF Data
<1>1. /\ At(t, "finish") \in Task /\ LocalsOK(At(t, "finish"))
      /\ At(t, "fail") \in Task /\ LocalsOK(At(t, "fail"))
  BY <1>0, AtOK DEF AfterData, Pricing, Stages
<1>2. u \in Task /\ LocalsOK(u)
  <2> HIDE DEF t
  <2>1. t.slot \in Slot /\ t.sym \in Symbol
    BY <1>0 DEF LocalsOK
  <2>2. u \in Task /\ u.stage = "duration" /\ u.slot = t.slot /\ u.sym = t.sym /\ u.data = t.slot
    <3> DEFINE v == At(t, "duration")
    <3>1. v \in Task /\ v.stage = "duration" /\ v.slot = t.slot /\ v.sym = t.sym
      BY <1>0, AtType DEF Stages
    <3> HIDE DEF v
    <3>2. [v EXCEPT !.data = t.slot] \in Task
      BY <2>1, <3>1 DEF Task
    <3>3. LET w == [v EXCEPT !.data = t.slot] IN
          w.stage = v.stage /\ w.slot = v.slot /\ w.sym = v.sym /\ w.data = t.slot
      BY <3>1 DEF Task
    <3> QED
      BY <3>1, <3>2, <3>3 DEF v
  <2> HIDE DEF u
  <2> QED
    BY <2>1, <2>2 DEF LocalsOK, Pricing, AfterData
<1>3. PICK w \in Task : LocalsOK(w) /\ task' = [task EXCEPT ![p] = w]
  BY <1>1, <1>2 DEF Data
<1> QED
  BY <1>3, LocalStep DEF Data

LEMMA SizeInv ==
  ASSUME CycleInv, NEW p \in Proc, Size(p)
  PROVE  CycleInv'
<1> DEFINE t == task[p]
           u == [At(t, "gate") EXCEPT !.sized = paper.equity]
<1>0. t \in Task /\ LocalsOK(t) /\ t.stage = "size"
  BY TaskOf DEF Size
<1>1. paper.equity \in Equity
  BY DEF CycleInv, TypeOK, Paper
<1>2. task' = [task EXCEPT ![p] = u]
  BY DEF Size
<1> HIDE DEF t
<1>3. t.slot \in Slot /\ t.sym \in Symbol /\ t.data \in Slot /\ t.cycle
  BY <1>0 DEF LocalsOK, Pricing, AfterData
<1>4. u \in Task /\ u.stage = "gate" /\ u.slot = t.slot /\ u.sym = t.sym /\ u.data = t.data /\ u.cycle = t.cycle
  <2> DEFINE v == At(t, "gate")
  <2>1. v \in Task /\ v.stage = "gate" /\ v.slot = t.slot /\ v.sym = t.sym /\ v.data = t.data /\ v.cycle = t.cycle
    BY <1>0, AtType DEF Stages
  <2> HIDE DEF v
  <2>2. [v EXCEPT !.sized = paper.equity] \in Task
    BY <1>1, <2>1 DEF Task
  <2>3. LET w == [v EXCEPT !.sized = paper.equity] IN
        w.stage = v.stage /\ w.slot = v.slot /\ w.sym = v.sym /\ w.data = v.data /\ w.cycle = v.cycle
    BY <2>1 DEF Task
  <2> QED
    BY <2>1, <2>2, <2>3 DEF v
<1> HIDE DEF u
<1>5. LocalsOK(u)
  BY <1>3, <1>4 DEF LocalsOK, Pricing, AfterData
<1> QED
  BY <1>2, <1>4, <1>5, LocalStep DEF Size

LEMMA GateInv ==
  ASSUME CycleInv, NEW p \in Proc, Gate(p)
  PROVE  CycleInv'
<1> DEFINE t == task[p]
<1>0. t \in Task /\ LocalsOK(t) /\ t.stage = "gate"
  BY TaskOf DEF Gate
<1>1. /\ At(t, "finish") \in Task /\ LocalsOK(At(t, "finish"))
      /\ At(t, "fail") \in Task /\ LocalsOK(At(t, "fail"))
  BY <1>0, AtOK DEF AfterData, Pricing, Stages
<1>2. t.slot \in Slot /\ t.sym \in Symbol /\ t.data \in Slot /\ t.cycle
  BY <1>0 DEF LocalsOK, Pricing, AfterData
<1>3. ASSUME now = t.slot, NEW entry \in BOOLEAN, entry => now \notin Weekend, NEW stage \in {"fill", "choose"}
      PROVE  LET u == [At(t, stage) EXCEPT !.entry = entry] IN u \in Task /\ LocalsOK(u)
  <2> DEFINE u == [At(t, stage) EXCEPT !.entry = entry]
  <2> HIDE DEF t
  <2>0. stage \in Stages
    BY DEF Stages
  <2>1. /\ u \in Task /\ u.stage = stage /\ u.slot = t.slot /\ u.sym = t.sym /\ u.data = t.data
        /\ u.cycle = t.cycle /\ u.entry = entry
    <3> DEFINE v == At(t, stage)
    <3>1. /\ v \in Task /\ v.stage = stage /\ v.slot = t.slot /\ v.sym = t.sym /\ v.data = t.data
          /\ v.cycle = t.cycle
      BY <1>0, <2>0, AtType
    <3> HIDE DEF v
    <3>2. [v EXCEPT !.entry = entry] \in Task
      BY <3>1 DEF Task
    <3>3. LET w == [v EXCEPT !.entry = entry] IN
          /\ w.stage = v.stage /\ w.slot = v.slot /\ w.sym = v.sym /\ w.data = v.data
          /\ w.cycle = v.cycle /\ w.entry = entry
      BY <3>1 DEF Task
    <3> QED
      BY <3>1, <3>2, <3>3 DEF v
  <2> HIDE DEF u
  <2>2. LocalsOK(u)
    BY <1>2, <1>3, <2>1 DEF LocalsOK, Pricing, AfterData
  <2> QED
    BY <2>1, <2>2 DEF u
<1>4. PICK w \in Task : LocalsOK(w) /\ task' = [task EXCEPT ![p] = w]
  <2>1. CASE task' = [task EXCEPT ![p] = At(t, "fail")] \/ task' = [task EXCEPT ![p] = At(t, "finish")]
    BY <1>1, <2>1
  <2>2. CASE now = t.slot /\ \E healthy, entry \in BOOLEAN :
               /\ entry => healthy /\ ~t.blocked /\ ~t.acted /\ now \notin Weekend
               /\ task' = [task EXCEPT ![p] =
                    [At(t, IF healthy /\ ~t.blocked THEN "fill" ELSE "choose") EXCEPT !.entry = entry]]
    <3>1. PICK healthy \in BOOLEAN, entry \in BOOLEAN :
               /\ entry => now \notin Weekend
               /\ task' = [task EXCEPT ![p] =
                    [At(t, IF healthy /\ ~t.blocked THEN "fill" ELSE "choose") EXCEPT !.entry = entry]]
      BY <2>2
    <3> DEFINE stage == IF healthy /\ ~t.blocked THEN "fill" ELSE "choose"
    <3>2. stage \in {"fill", "choose"}
      OBVIOUS
    <3>3. task' = [task EXCEPT ![p] = [At(t, stage) EXCEPT !.entry = entry]]
      BY <3>1
    <3> HIDE DEF stage
    <3> QED
      BY <1>3, <2>2, <3>1, <3>2, <3>3
  <2> QED
    BY <2>1, <2>2 DEF Gate
<1> QED
  BY <1>4, LocalStep DEF Gate

LEMMA ChooseInv ==
  ASSUME CycleInv, NEW p \in Proc, Choose(p)
  PROVE  CycleInv'
<1> DEFINE t == task[p]
<1>0. t \in Task /\ LocalsOK(t) /\ t.stage = "choose"
  BY TaskOf DEF Choose
<1>1. /\ At(t, "finish") \in Task /\ LocalsOK(At(t, "finish"))
      /\ At(t, "fail") \in Task /\ LocalsOK(At(t, "fail"))
  BY <1>0, AtOK DEF AfterData, Pricing, Stages
<1>2. ASSUME t.entry PROVE At(t, "submit") \in Task /\ LocalsOK(At(t, "submit"))
  <2>1. t.data \in Slot /\ t.cycle /\ t.slot \notin Weekend
    BY <1>0, <1>2 DEF LocalsOK, Pricing, AfterData
  <2> QED
    BY <1>0, <1>2, <2>1, AtOK DEF AfterData, Stages
<1>3. PICK w \in Task : LocalsOK(w) /\ task' = [task EXCEPT ![p] = w]
  BY <1>1, <1>2 DEF Choose
<1> QED
  BY <1>3, LocalStep DEF Choose

LEMMA FinishInv ==
  ASSUME CycleInv, NEW p \in Proc, Finish(p)
  PROVE  CycleInv'
<1> DEFINE t == task[p]
<1>0. t \in Task /\ LocalsOK(t) /\ t.stage \in {"finish", "fail"} /\ t.slot \in Slot /\ t.sym \in Symbol
  BY TaskOf DEF Finish, LocalsOK
<1>1. Served(t) \in Task /\ LocalsOK(Served(t))
  BY <1>0, ServedType
<1>2. task' = [task EXCEPT ![p] = Served(t)] /\ UNCHANGED <<paper, now, crashes>>
  BY DEF Finish
<1>3. CASE Owns(p)
  <2>1. PICK status \in {"COMPLETED", "FAILED"} :
          runs' = [runs EXCEPT ![t.sym][t.slot] = status] /\ lock' = [lock EXCEPT ![t.sym] = NoSlot]
    BY <1>3 DEF Finish
  <2>2. lock[t.sym] = t.slot
    BY <1>3 DEF Owns
  <2> HIDE DEF t
  <2>3. TypeOK'
    BY <1>0, <1>1, <1>2, <2>1 DEF CycleInv, TypeOK
  <2>4. LockIsOfRun'
    <3> SUFFICES ASSUME NEW s \in Symbol, NEW r \in Slot
                 PROVE  lock'[s] = r <=> runs'[s][r] = "RUNNING"
      BY DEF LockIsOfRun
    <3>1. lock[s] = r <=> runs[s][r] = "RUNNING"
      BY DEF CycleInv, LockIsOfRun
    <3>2. r # NoSlot
      BY NullAssumption DEF Slot
    <3>3. CASE s = t.sym
      <4>1. lock'[s] = NoSlot /\ runs'[s][r] = (IF r = t.slot THEN status ELSE runs[s][r])
        BY <1>0, <2>1, <3>3 DEF CycleInv, TypeOK
      <4> QED
        BY <2>1, <2>2, <3>1, <3>2, <3>3, <4>1
    <3>4. CASE s # t.sym
      BY <1>0, <2>1, <3>1, <3>4 DEF CycleInv, TypeOK
    <3> QED
      BY <3>3, <3>4
  <2> QED
    BY <1>1, <1>2, <2>3, <2>4 DEF CycleInv, TypeOK
<1>4. CASE ~Owns(p)
  BY <1>1, <1>2, <1>4, LocalStep DEF Finish
<1> QED
  BY <1>3, <1>4

LEMMA StartInv ==
  ASSUME CycleInv, NEW p \in Proc, Start(p)
  PROVE  CycleInv'
<1>1. PICK dead \in SUBSET Running :
        /\ runs' = [s \in Symbol |-> [t \in Slot |-> IF <<s, t>> \in dead THEN "FAILED" ELSE runs[s][t]]]
        /\ lock' = [s \in Symbol |-> IF <<s, lock[s]>> \in dead THEN NoSlot ELSE lock[s]]
  BY DEF Start
<1>2. task' = [task EXCEPT ![p] = Resting] /\ UNCHANGED <<paper, now, crashes>>
  BY DEF Start
<1>3. TypeOK'
  BY <1>1, <1>2, RestingType DEF CycleInv, TypeOK
<1>4. LockIsOfRun'
  <2> SUFFICES ASSUME NEW s \in Symbol, NEW t \in Slot
               PROVE  lock'[s] = t <=> runs'[s][t] = "RUNNING"
    BY DEF LockIsOfRun
  <2>1. /\ lock'[s] = (IF <<s, lock[s]>> \in dead THEN NoSlot ELSE lock[s])
        /\ runs'[s][t] = (IF <<s, t>> \in dead THEN "FAILED" ELSE runs[s][t])
    BY <1>1
  <2>2. lock[s] = t <=> runs[s][t] = "RUNNING"
    BY DEF CycleInv, LockIsOfRun
  <2>3. t # NoSlot
    BY NullAssumption DEF Slot
  <2> QED
    BY <2>1, <2>2, <2>3
<1> QED
  BY <1>2, <1>3, <1>4, RestingType DEF CycleInv, TypeOK

LEMMA NextInv == CycleInv /\ [Next]_vars => CycleInv'
<1> SUFFICES ASSUME CycleInv, [Next]_vars PROVE CycleInv'
  OBVIOUS
<1>1. ASSUME NEW p \in Proc, Step(p) PROVE CycleInv'
  BY <1>1, TickInv, PausedInv, ManageInv, StartCycleInv, DataInv, DurationInv, CatchUpInv, SizeInv,
     GateInv, ChooseInv, FinishInv, WriteInv DEF Step
<1>2. ASSUME NEW p \in Proc, Start(p) PROVE CycleInv'
  BY <1>2, StartInv
<1>3. ASSUME NEW p \in Proc, Crash(p) PROVE CycleInv'
  BY <1>3, RestingType, SetsAssumption DEF Crash, CycleInv, TypeOK, LockIsOfRun
<1>4. CASE Clock
  BY <1>4, SetsAssumption DEF Clock, CycleInv, TypeOK, LockIsOfRun, Slot
<1>5. CASE UNCHANGED vars
  BY <1>5 DEF vars, CycleInv, TypeOK, LockIsOfRun
<1> QED
  BY <1>1, <1>2, <1>3, <1>4, <1>5 DEF Next

-----------------------------------------------------------------------------
\* The theorems.

\* Every behaviour of the runtimes keeps the types, the lock of every running run and
\* the locals each stage of an operation relies on: the inductive invariant of the rest.
THEOREM CycleInvariant == Spec => []CycleInv
<1>1. Init => CycleInv
  BY InitInv
<1>2. CycleInv /\ [Next]_vars => CycleInv'
  BY NextInv
<1> QED
  BY <1>1, <1>2, PTL DEF Spec

\* Types of the account, the runs and the locals (TypeOK), for every instance.
THEOREM CycleTypes == Spec => []TypeOK
<1>1. CycleInv => TypeOK
  BY DEF CycleInv
<1> QED
  BY <1>1, CycleInvariant, PTL

\* A symbol lock belongs to a RUNNING run of that symbol and a RUNNING run has its
\* lock, whatever crashes, and whatever live runs recovery takes for interrupted
\* (claim_slot, finish and recover of storage/database.py).
THEOREM LockIsOfRunHolds == Spec => []LockIsOfRun
<1>1. CycleInv => LockIsOfRun
  BY DEF CycleInv
<1> QED
  BY <1>1, CycleInvariant, PTL

\* Only a save changes the account.
LEMMA OnlySave ==
  ASSUME [Next]_vars
  PROVE  UNCHANGED paper \/ \E p \in Proc : Save(p)
<1>1. ASSUME NEW p \in Proc, Step(p) PROVE UNCHANGED paper \/ Save(p)
  <2>1. ASSUME NEW s \in Symbol, StartPaused(p, s) \/ StartManage(p, s) \/ StartCycle(p, s)
        PROVE  UNCHANGED paper
    BY <2>1 DEF StartPaused, StartManage, StartCycle
  <2>2. CASE StartTick(p) \/ EndTick(p) \/ Data(p) \/ Duration(p) \/ CatchUp(p)
    BY <2>2 DEF StartTick, EndTick, Data, Duration, CatchUp
  <2>3. CASE Size(p) \/ Gate(p) \/ Choose(p) \/ Finish(p)
    BY <2>3 DEF Size, Gate, Choose, Finish
  <2>4. CASE Load(p) \/ Stale(p) \/ NotOwner(p)
    BY <2>4 DEF Load, Stale, NotOwner
  <2> QED
    BY <1>1, <2>1, <2>2, <2>3, <2>4 DEF Step
<1>2. ASSUME NEW p \in Proc, Start(p) \/ Crash(p) PROVE UNCHANGED paper
  BY <1>2 DEF Start, Crash
<1>3. CASE Clock \/ UNCHANGED vars
  BY <1>3 DEF Clock, vars
<1> QED
  BY <1>1, <1>2, <1>3 DEF Next

LEMMA SaveStep ==
  ASSUME CycleInv, NEW p \in Proc, Save(p)
  PROVE  /\ Ledger!LedgerNext
         /\ task[p].stage = "submit" \/ NoEntry
<1>1. task[p] \in Task /\ LocalsOK(task[p])
  BY TaskOf
<1>2. task[p].stage \in Writes /\ paper' \in Results(task[p], paper)
  BY DEF Save, SavePaper
<1> QED
  BY <1>1, <1>2, ResultStep DEF CycleInv, TypeOK

\* The runtimes implement the ledger: from its initial accounts, every step of any
\* of them, the late save of a run that was taken for dead included, is a step of
\* PaperLedger or leaves the account alone (save_paper of storage/database.py).
THEOREM LedgerKeptHolds == Spec => LedgerKept
<1>1. Init => Ledger!LedgerInit
  <2> SUFFICES ASSUME Init PROVE Ledger!LedgerInit
    OBVIOUS
  <2>1. PICK first \in [Symbol -> {"NONE", "PENDING", "FILLED"}], e \in Equity :
          paper = [order |-> [s \in Symbol |-> [t \in Slot |-> IF t = 0 THEN first[s] ELSE "NONE"]],
                   position |-> [s \in Symbol |-> IF first[s] = "FILLED"
                                                  THEN [run |-> 0, opened |-> 0, mark |-> 0] ELSE Flat],
                   trades |-> [s \in Symbol |-> [t \in Slot |-> 0]],
                   equity |-> e]
    BY DEF Init
  <2>2. paper.trades = [s \in Symbol |-> [t \in Ledger!Slot |-> 0]]
    BY <2>1 DEF Slot, Ledger!Slot
  <2>3. paper.position \in [Symbol -> {Flat, [run |-> 0, opened |-> 0, mark |-> 0]}]
    BY <2>1
  <2> DEFINE was == [s \in Symbol |-> IF first[s] = "PENDING" THEN "PENDING" ELSE "NONE"]
  <2>4. was \in [Symbol -> {"NONE", "PENDING"}]
    OBVIOUS
  <2>5. paper.order = [s \in Symbol |-> [t \in Ledger!Slot |->
           IF t > 0 THEN "NONE" ELSE IF paper.position[s] = Flat THEN was[s] ELSE "FILLED"]]
    <3>1. [run |-> 0, opened |-> 0, mark |-> 0] \in Ledger!Position
      BY SetsAssumption DEF Ledger!Position, Ledger!Slot
    <3>2. ASSUME NEW s \in Symbol, NEW t \in Slot
          PROVE  (IF t = 0 THEN first[s] ELSE "NONE") =
                 (IF t > 0 THEN "NONE" ELSE IF paper.position[s] = Flat THEN was[s] ELSE "FILLED")
      <4>1. paper.position[s] = Flat <=> first[s] # "FILLED"
        BY <2>1, <3>1, FlatAssumption
      <4>2. t > 0 <=> t # 0
        BY SetsAssumption DEF Slot
      <4> QED
        BY <4>1, <4>2
    <3> QED
      BY <2>1, <3>2 DEF Slot, Ledger!Slot
  <2> HIDE DEF was
  <2> QED
    BY <2>2, <2>3, <2>4, <2>5 DEF Ledger!LedgerInit
<1>2. CycleInv /\ [Next]_vars => [Ledger!LedgerNext]_(Ledger!ledgerVars)
  <2> SUFFICES ASSUME CycleInv, [Next]_vars PROVE [Ledger!LedgerNext]_(Ledger!ledgerVars)
    OBVIOUS
  <2>1. CASE UNCHANGED paper
    BY <2>1 DEF Ledger!ledgerVars
  <2>2. CASE \E p \in Proc : Save(p)
    BY <2>2, SaveStep
  <2> QED
    BY <2>1, <2>2, OnlySave
<1> QED
  BY <1>1, <1>2, CycleInvariant, PTL DEF Spec, LedgerKept, Ledger!LedgerSpec

\* An order enters the book only for the run that owns the symbol, sized on the
\* equity of the account it enters and not for a weekend slot, however late it comes
\* (submit of _run_cycle and save_paper).
THEOREM EntryIsCurrentHolds == Spec => EntryIsCurrent
<1> DEFINE Entry == \A s \in Symbol, t \in Slot :
         paper.order[s][t] = "NONE" /\ paper'.order[s][t] = "PENDING"
           => /\ lock[s] = t /\ runs[s][t] = "RUNNING" /\ t \notin Weekend
              /\ \E p \in Proc : task[p].sym = s /\ task[p].slot = t /\ task[p].sized = paper.equity
<1>1. CycleInv /\ [Next]_vars => [Entry]_vars
  <2> SUFFICES ASSUME CycleInv, [Next]_vars PROVE Entry
    OBVIOUS
  <2>1. CASE UNCHANGED paper \/ NoEntry
    BY <2>1 DEF NoEntry
  <2>2. ASSUME NEW p \in Proc, Save(p), task[p].stage = "submit" PROVE Entry
    <3>1. LocalsOK(task[p]) /\ task[p] \in Task
      BY TaskOf
    <3>2. /\ task[p].sym \in Symbol /\ task[p].slot \in Slot /\ task[p].cycle
          /\ task[p].slot \notin Weekend
      BY <2>2, <3>1 DEF LocalsOK, AfterData
    <3>3. Owns(p) /\ paper' \in SubmitResults(paper, task[p].sym, task[p].slot, task[p].sized)
      BY <2>2, <3>2 DEF Save, SavePaper, Results
    <3>4. Ledger!Submit(task[p].sym, task[p].slot) /\ paper.equity = task[p].sized
      BY <3>2, <3>3, SubmitStep DEF CycleInv, TypeOK
    <3>5. paper'.order = [paper.order EXCEPT ![task[p].sym][task[p].slot] = "PENDING"]
      BY <3>4 DEF Ledger!Submit
    <3>6. ASSUME NEW s \in Symbol, NEW t \in Slot, paper.order[s][t] = "NONE", paper'.order[s][t] = "PENDING"
          PROVE  s = task[p].sym /\ t = task[p].slot
      BY <3>2, <3>5, <3>6 DEF CycleInv, TypeOK, Paper
    <3> QED
      BY <3>2, <3>3, <3>4, <3>6 DEF Owns
  <2> QED
    BY <2>1, <2>2, OnlySave, SaveStep
<1> QED
  BY <1>1, CycleInvariant, PTL DEF Spec, EntryIsCurrent

-----------------------------------------------------------------------------
\* A cycle that has its data, and one that is past its cancel and not blocked.
Claimed(t) == t.cycle /\ t.stage \notin {"data", "finish", "fail"}
PastCancel(t) ==
    /\ t.cycle /\ ~t.blocked
    /\ t.stage \in AfterData \/ (t.stage \in {"catch_up", "bar"} /\ t.then = "size")
Holds(t) == runs[t.sym][t.slot] = "RUNNING" /\ lock[t.sym] = t.slot

\* The locals of an operation and the clock: data is never newer than the tick, a cycle
\* works on the bars of its own slot, and its run has been claimed.
Timed(t) ==
    /\ t.stage \notin {"down", "idle"} => t.slot <= now
    /\ t.stage \notin {"down", "idle", "tick", "data", "finish", "fail"} /\ t.data # NoSlot => t.data <= t.slot
    /\ Claimed(t) => t.data = t.slot
    /\ t.stage \in {"catch_up", "bar"} => t.upto <= t.data
    /\ t.cycle => runs[t.sym][t.slot] # "NONE"
    /\ t.stage = "fill" => ~t.blocked

\* What is pending when the owner is past its cancel is not due at its slot.
OrderRule(t) ==
    PastCancel(t) /\ Holds(t) => \A o \in PendingIn(paper, t.sym) : OrderBoundary(o) > t.slot

\* A bar about to be applied is at most the next one of the position ...
BarRule(t) ==
    t.stage = "bar" => paper.position[t.sym] = Flat \/ paper.position[t.sym].mark + 1 >= t.bar

\* ... also of the position that the owner c of the symbol opens meanwhile.
FillRule(t, c) ==
    t.stage = "bar" /\ Claimed(c) /\ Holds(c) /\ c.sym = t.sym =>
        \A o \in PendingIn(paper, t.sym) : o < c.slot => t.bar <= c.slot + 1

Exposure ==
    \A s \in Symbol : /\ \A t, u \in PendingIn(paper, s) : t = u
                      /\ paper.position[s] # Flat => PendingIn(paper, s) = {}

TimeInv ==
    /\ CycleInv /\ Exposure
    /\ \A p \in Proc : Timed(task[p]) /\ OrderRule(task[p]) /\ BarRule(task[p])
    /\ \A p, q \in Proc : FillRule(task[p], task[q])

\* One runtime: what it loaded is what is there, and its catch-up ends where it should.
InPause(t) ==
    \/ t.stage \in {"pause_cancel", "pause_close"}
    \/ t.stage \in {"catch_up", "bar"} /\ t.then = "pause_close"

AloneOK(t) ==
    /\ t.held \in {NoPaper, paper} /\ ~t.stale
    /\ InPause(t) => t.sym \in Paused
    /\ t.stage = "bar" => paper.position[t.sym] # Flat /\ paper.position[t.sym].mark + 1 = t.bar
    /\ t.stage \in {"catch_up", "bar"} /\ t.then = "close" /\ paper.position[t.sym] # Flat =>
         t.upto <= PositionBoundary(paper.position[t.sym].opened)
    /\ t.cycle /\ (t.stage = "cancel" \/ (t.stage \in {"catch_up", "bar"} /\ t.then = "size"))
         /\ paper.position[t.sym] # Flat => PositionBoundary(paper.position[t.sym].opened) > t.slot
    /\ t.stage = "close" /\ paper.position[t.sym] # Flat => paper.position[t.sym].mark >= t.upto

AloneInv == TimeInv /\ BoundaryFirst /\ \A p \in Proc : AloneOK(task[p])

-----------------------------------------------------------------------------
\* The calendar.

LEMMA FlattenFromAbove ==
  ASSUME NEW t \in Slot
  PROVE  /\ FlattenFrom(t) \in Nat /\ FlattenFrom(t) >= t
         /\ t \notin Weekend => FlattenFrom(t) > t
<1>0. t \in Nat /\ t <= MaxSlot /\ MaxSlot \in Nat /\ Weekend \subseteq Nat
  BY SetsAssumption DEF Slot
<1>1. CASE \E w \in Weekend : w >= t
  <2> DEFINE S == {w \in Weekend : w >= t}
  <2>1. S \in SUBSET Nat /\ S # {}
    BY <1>0, <1>1
  <2>2. \E w \in S : \A v \in S : w <= v
    <3> HIDE DEF S
    <3> QED
      BY <2>1, LeastOf
  <2>3. \E w \in Weekend : w >= t /\ \A v \in Weekend : v >= t => w <= v
    BY <2>2
  <2> DEFINE c == CHOOSE w \in Weekend : w >= t /\ \A v \in Weekend : v >= t => w <= v
  <2>4. c \in Weekend /\ c >= t
    BY <2>3
  <2>5. FlattenFrom(t) = c
    BY <1>1 DEF FlattenFrom
  <2> HIDE DEF c
  <2> QED
    BY <1>0, <2>4, <2>5
<1>2. CASE ~\E w \in Weekend : w >= t
  BY <1>0, <1>2 DEF FlattenFrom
<1> QED
  BY <1>1, <1>2

LEMMA PositionBoundaryAbove ==
  ASSUME NEW f \in Slot
  PROVE  PositionBoundary(f) \in Nat /\ PositionBoundary(f) >= f
<1>1. FlattenFrom(f) \in Nat /\ FlattenFrom(f) >= f /\ f \in Nat
  BY FlattenFromAbove, SetsAssumption DEF Slot
<1> QED
  BY <1>1 DEF PositionBoundary

LEMMA MinOf ==
  ASSUME NEW a \in Nat, NEW b \in Nat
  PROVE  Min(a, b) \in Nat /\ Min(a, b) <= a /\ Min(a, b) <= b
BY DEF Min

-----------------------------------------------------------------------------
\* The fields of a task after each way on.

LEMMA AtAll ==
  ASSUME NEW t \in Task, NEW stage \in Stages
  PROVE  LET u == At(t, stage) IN
         /\ u.stage = stage /\ u.slot = t.slot /\ u.sym = t.sym /\ u.cycle = t.cycle /\ u.data = t.data
         /\ u.upto = t.upto /\ u.bar = t.bar /\ u.then = t.then /\ u.blocked = t.blocked
         /\ u.pos = t.pos /\ u.over = t.over /\ u.held = NoPaper /\ u.stale = FALSE
BY DEF At, Task

LEMMA CatchAll ==
  ASSUME NEW t \in Task, NEW goal \in Nat, NEW stage \in Stages
  PROVE  LET u == CatchUpTo(t, goal, stage) IN
         /\ u.stage = "catch_up" /\ u.slot = t.slot /\ u.sym = t.sym /\ u.cycle = t.cycle
         /\ u.data = t.data /\ u.upto = Min(goal, t.data) /\ u.then = stage /\ u.blocked = t.blocked
         /\ u.pos = t.pos /\ u.held = NoPaper /\ u.stale = FALSE
BY DEF CatchUpTo, At, Task

\* The same for a pass that goes to the slot of the task.
LEMMA CatchOwnSlot ==
  ASSUME NEW t \in Task, NEW stage \in Stages, t.slot \in Nat
  PROVE  LET u == CatchUpTo(t, t.slot, stage) IN
         /\ u.stage = "catch_up" /\ u.slot = t.slot /\ u.sym = t.sym /\ u.cycle = t.cycle
         /\ u.data = t.data /\ u.upto = Min(t.slot, t.data) /\ u.then = stage /\ u.blocked = t.blocked
         /\ u.held = NoPaper /\ u.stale = FALSE
BY CatchAll

LEMMA ServedAll ==
  ASSUME NEW t
  PROVE  LET u == Served(t) IN
         /\ u.stage = "tick" /\ u.slot = t.slot /\ u.sym = NoSlot /\ u.cycle = FALSE /\ u.data = NoSlot
         /\ u.held = NoPaper /\ u.stale = FALSE
BY DEF Served, Resting

\* A bar under way is not newer than the clock.
LEMMA BarUpto ==
  ASSUME TimeInv, NEW p \in Proc, task[p].stage = "bar"
  PROVE  /\ task[p].bar \in Nat /\ task[p].bar <= task[p].upto /\ task[p].upto <= task[p].slot
         /\ task[p].slot <= now /\ task[p].slot \in Nat /\ task[p].sym \in Symbol
<1>1. task[p] \in Task /\ LocalsOK(task[p]) /\ Timed(task[p])
  BY TaskOf DEF TimeInv
<1>2. /\ task[p].bar \in Nat /\ task[p].bar <= task[p].upto /\ task[p].upto \in Slot
      /\ task[p].data \in Slot /\ task[p].slot \in Slot /\ task[p].sym \in Symbol
  BY <1>1 DEF LocalsOK, Pricing, Task
<1>3. task[p].upto <= task[p].data /\ task[p].slot <= now
  BY <1>1 DEF Timed
<1>4. task[p].data # NoSlot
  BY <1>2, NullAssumption DEF Slot
<1>5. task[p].data <= task[p].slot
  BY <1>1, <1>4 DEF Timed
<1>6. Slot \subseteq Nat
  BY SetsAssumption DEF Slot
<1>7. task[p].upto \in Nat /\ task[p].data \in Nat /\ task[p].slot \in Nat
  BY <1>2, <1>6
<1>8. task[p].upto <= task[p].slot
  BY <1>3, <1>5, <1>7
<1> QED
  BY <1>2, <1>3, <1>7, <1>8

-----------------------------------------------------------------------------
\* A step of p that leaves the account alone: what the others may rely on, and what
\* the new task u has to satisfy.

Rely ==
    /\ paper' = paper /\ now' \in Nat /\ now <= now'
    /\ \A s \in Symbol, x \in Slot : runs[s][x] # "NONE" =>
         /\ runs'[s][x] # "NONE"
         /\ runs'[s][x] = "RUNNING" /\ lock'[s] = x => runs[s][x] = "RUNNING" /\ lock[s] = x

Quiet(t, u) ==
    /\ u.stage = "bar" => paper.position[u.sym] # Flat \/ (t.stage = "bar" /\ u.bar = t.bar /\ u.sym = t.sym)
    /\ Claimed(u) => now = u.slot \/ (Claimed(t) /\ u.slot = t.slot /\ u.sym = t.sym)

LEMMA LocalTime ==
  ASSUME TimeInv, CycleInv', NEW p \in Proc, NEW u \in Task, task' = [task EXCEPT ![p] = u],
         Rely, Quiet(task[p], u), Timed(u)', OrderRule(u)', BarRule(u)'
  PROVE  TimeInv'
<1>1. /\ task[p] \in Task /\ task \in [Proc -> Task]
      /\ task'[p] = u /\ \A q \in Proc : q # p => task'[q] = task[q]
  BY DEF TimeInv, CycleInv, TypeOK
<1>2. LocalsOK(u) /\ now \in Nat
  <2>1. LocalsOK(task'[p]) /\ now \in Slot
    BY DEF CycleInv, TimeInv, TypeOK
  <2> QED
    BY <1>1, <2>1, SetsAssumption DEF Slot
<1>3. Exposure'
  BY DEF TimeInv, Exposure, Rely, PendingIn
<1>4. ASSUME NEW q \in Proc, q # p
      PROVE  /\ task'[q] = task[q] /\ task[q] \in Task /\ LocalsOK(task[q])
             /\ task[q].cycle => task[q].sym \in Symbol /\ task[q].slot \in Slot
             /\ Timed(task[q]) /\ OrderRule(task[q]) /\ BarRule(task[q])
  <2>1. task[q] \in Task /\ LocalsOK(task[q])
    BY TaskOf DEF TimeInv
  <2> QED
    BY <1>1, <1>4, <2>1 DEF LocalsOK, TimeInv
<1>5. ASSUME NEW q \in Proc, q # p
      PROVE  /\ Timed(task[q])'
             /\ task[q].cycle /\ Holds(task[q])' => Holds(task[q])
  <2>1. task[q].cycle => runs[task[q].sym][task[q].slot] # "NONE"
    BY <1>4, <1>5 DEF Timed
  <2>2. task[q].stage \notin {"down", "idle"} => task[q].slot \in Nat
    BY <1>4, <1>5, SetsAssumption DEF LocalsOK, Slot
  <2> QED
    BY <1>2, <1>4, <1>5, <2>1, <2>2 DEF Timed, Rely, Holds, Claimed
<1>6. ASSUME NEW q \in Proc
      PROVE  Timed(task[q])' /\ OrderRule(task[q])' /\ BarRule(task[q])'
  <2>1. CASE q = p
    BY <1>1, <2>1 DEF Timed, OrderRule, BarRule, Claimed, PastCancel, Holds
  <2>2. CASE q # p
    BY <1>4, <1>5, <2>2 DEF OrderRule, BarRule, PastCancel, Rely, PendingIn
  <2> QED
    BY <2>1, <2>2
<1>7. ASSUME NEW q \in Proc, NEW c \in Proc
      PROVE  FillRule(task[q], task[c])'
  <2> SUFFICES ASSUME task'[q].stage = "bar", Claimed(task'[c]), Holds(task[c])',
                      task'[c].sym = task'[q].sym,
                      NEW o \in PendingIn(paper', task'[q].sym), o < task'[c].slot
               PROVE  task'[q].bar <= task'[c].slot + 1
    BY DEF FillRule, Claimed
  <2>1. paper.position[task'[q].sym] = Flat
    <3>1. task'[q].sym \in Symbol
      <4>1. LocalsOK(task'[q])
        BY DEF CycleInv
      <4> QED
        BY <4>1 DEF LocalsOK
    <3> QED
      BY <3>1 DEF TimeInv, Exposure, Rely
  <2>2. task[q].stage = "bar" /\ task'[q].bar = task[q].bar /\ task'[q].sym = task[q].sym
    BY <1>1, <2>1 DEF Quiet
  <2>3. /\ task[q].bar \in Nat /\ task[q].bar <= task[q].upto /\ task[q].upto <= task[q].slot
        /\ task[q].slot <= now /\ task[q].slot \in Nat
    BY <2>2, BarUpto
  <2>4. CASE now = task'[c].slot
    <3>1. task[q].upto \in Nat
      BY <1>1, SetsAssumption DEF Task
    <3> QED
      BY <1>2, <2>2, <2>3, <2>4, <3>1
  <2>5. CASE /\ Claimed(task[c]) /\ task'[c].slot = task[c].slot /\ task'[c].sym = task[c].sym
    <3>1. Holds(task[c])
      <4>1. task[c].sym \in Symbol /\ task[c].slot \in Slot /\ runs[task[c].sym][task[c].slot] # "NONE"
        <5>1. task[c] \in Task /\ LocalsOK(task[c]) /\ Timed(task[c])
          BY TaskOf DEF TimeInv
        <5> QED
          BY <2>5, <5>1 DEF LocalsOK, Timed, Claimed
      <4> QED
        BY <2>5, <4>1 DEF Holds, Rely
    <3>2. FillRule(task[q], task[c])
      BY DEF TimeInv
    <3> QED
      BY <2>2, <2>5, <3>1, <3>2 DEF FillRule, Rely
  <2> QED
    BY <1>1, <2>4, <2>5 DEF Quiet
<1> QED
  BY <1>3, <1>6, <1>7 DEF TimeInv

-----------------------------------------------------------------------------
\* An operation goes on, or a task rests or runs a pass that owns nothing.

LEMMA Onward ==
  ASSUME TimeInv, CycleInv', NEW p \in Proc, NEW u, task' = [task EXCEPT ![p] = u],
         UNCHANGED <<paper, runs, lock, now>>,
         task[p].stage \notin {"down", "idle", "tick", "data", "finish", "fail"},
         u.stage \notin {"down", "idle", "tick", "data"},
         u.slot = task[p].slot, u.sym = task[p].sym, u.cycle = task[p].cycle, u.data = task[p].data,
         u.stage \in {"catch_up", "bar"} => u.upto <= u.data,
         u.stage = "fill" => ~u.blocked,
         PastCancel(u) => PastCancel(task[p]) \/ DueIn(paper, u.sym, u.slot) = {},
         u.stage = "bar" => \/ paper.position[u.sym] # Flat /\ paper.position[u.sym].mark + 1 >= u.bar
                            \/ task[p].stage = "bar" /\ u.bar = task[p].bar
  PROVE  TimeInv'
<1>1. task'[p] = u /\ u \in Task /\ task[p] \in Task /\ LocalsOK(task[p])
  <2>1. task' \in [Proc -> Task] /\ task \in [Proc -> Task]
    BY DEF CycleInv, TimeInv, TypeOK
  <2> QED
    BY <2>1, TaskOf DEF TimeInv
<1>2. Rely
  <2>1. now \in Nat
    BY SetsAssumption DEF TimeInv, CycleInv, TypeOK, Slot
  <2> QED
    BY <2>1 DEF Rely
<1>3. Timed(task[p]) /\ OrderRule(task[p]) /\ BarRule(task[p])
  BY DEF TimeInv
<1>4. Quiet(task[p], u)
  BY DEF Quiet, Claimed
<1>5. Timed(u)'
  BY <1>3 DEF Timed, Claimed
<1>6. BarRule(u)'
  BY <1>3 DEF BarRule
<1>7. OrderRule(u)'
  <2> SUFFICES ASSUME PastCancel(u), Holds(u)', NEW o \in PendingIn(paper', u.sym)
               PROVE  OrderBoundary(o) > u.slot
    BY DEF OrderRule
  <2>1. Holds(task[p]) /\ o \in PendingIn(paper, u.sym)
    BY DEF Holds
  <2>2. CASE PastCancel(task[p])
    BY <1>3, <2>1, <2>2 DEF OrderRule
  <2>3. CASE DueIn(paper, u.sym, u.slot) = {}
    <3>1. ~(OrderBoundary(o) <= u.slot) /\ o \in Slot
      BY <2>1, <2>3 DEF DueIn, PendingIn
    <3>2. OrderBoundary(o) \in Nat
      BY <3>1, FlattenFromType DEF OrderBoundary
    <3>3. u.slot \in Nat
      BY <1>1, SetsAssumption DEF LocalsOK, Slot
    <3> QED
      BY <3>1, <3>2, <3>3
  <2> QED
    BY <2>2, <2>3
<1> QED
  BY <1>1, <1>2, <1>4, <1>5, <1>6, <1>7, LocalTime

LEMMA PassTime ==
  ASSUME TimeInv, CycleInv', NEW p \in Proc, NEW u, task' = [task EXCEPT ![p] = u], Rely,
         ~u.cycle, u.stage \notin {"bar", "fill"},
         u.stage \notin {"down", "idle"} => u.slot <= now,
         u.stage \notin {"down", "idle", "tick", "data", "finish", "fail"} /\ u.data # NoSlot => u.data <= u.slot,
         u.stage = "catch_up" => u.upto <= u.data
  PROVE  TimeInv'
<1>1. task'[p] = u /\ u \in Task /\ LocalsOK(u)
  <2>1. task' \in [Proc -> Task] /\ task \in [Proc -> Task] /\ LocalsOK(task'[p])
    BY DEF CycleInv, TimeInv, TypeOK
  <2> QED
    BY <2>1
<1>2. u.stage \notin {"down", "idle"} => u.slot <= now'
  <2>1. now \in Nat /\ now' \in Nat /\ now <= now'
    BY SetsAssumption DEF TimeInv, CycleInv, TypeOK, Slot, Rely
  <2>2. u.stage \notin {"down", "idle"} => u.slot \in Nat
    BY <1>1, SetsAssumption DEF LocalsOK, Slot
  <2> QED
    BY <2>1, <2>2
<1>3. Quiet(task[p], u)
  BY DEF Quiet, Claimed
<1>4. Timed(u)'
  BY <1>2 DEF Timed, Claimed
<1>5. BarRule(u)' /\ OrderRule(u)'
  BY DEF BarRule, OrderRule, PastCancel
<1> QED
  BY <1>1, <1>3, <1>4, <1>5, LocalTime

\* Runs and locks at rest, and the clock, are enough for Rely.
LEMMA RelySame ==
  ASSUME TimeInv, UNCHANGED <<paper, runs, lock, now>>
  PROVE  Rely
<1>1. now \in Nat
  BY SetsAssumption DEF TimeInv, CycleInv, TypeOK, Slot
<1> QED
  BY <1>1 DEF Rely

LEMMA ServedTime ==
  ASSUME TimeInv, CycleInv', NEW p \in Proc, NEW t, task' = [task EXCEPT ![p] = Served(t)], Rely,
         t.slot = task[p].slot, task[p].stage \notin {"down", "idle"}
  PROVE  TimeInv'
<1>1. Timed(task[p])
  BY DEF TimeInv
<1>2. task[p].slot <= now
  BY <1>1 DEF Timed
<1>3. /\ Served(t).stage = "tick" /\ Served(t).slot = t.slot /\ Served(t).cycle = FALSE
  BY ServedAll
<1> HIDE DEF Served
<1> QED
  BY <1>2, <1>3, PassTime

-----------------------------------------------------------------------------
\* The steps that leave the account alone.

LEMMA TickTime ==
  ASSUME TimeInv, CycleInv', NEW p \in Proc, StartTick(p) \/ EndTick(p)
  PROVE  TimeInv'
<1> DEFINE t == task[p]
<1>0. t \in Task /\ LocalsOK(t) /\ now \in Nat
  BY TaskOf, SetsAssumption DEF TimeInv, CycleInv, TypeOK, Slot
<1>1. CASE StartTick(p)
  <2>1. PICK todo, due, over :
          task' = [task EXCEPT ![p] = [task[p] EXCEPT !.stage = "tick", !.slot = now, !.todo = todo,
                                                      !.due = due, !.over = over]]
    BY <1>1 DEF StartTick
  <2> DEFINE u == [t EXCEPT !.stage = "tick", !.slot = now, !.todo = todo, !.due = due, !.over = over]
  <2>2. t.stage = "idle" /\ ~t.cycle
    BY <1>0, <1>1 DEF StartTick, LocalsOK
  <2>3. Rely
    BY <1>1, RelySame DEF StartTick
  <2>4. u.stage = "tick" /\ u.slot = now /\ u.cycle = t.cycle
    <3> HIDE DEF t
    <3> QED
      BY <1>0 DEF Task
  <2>5. task' = [task EXCEPT ![p] = u]
    BY <2>1
  <2>6. u.slot <= now
    BY <1>0, <2>4
  <2> HIDE DEF u, t
  <2> QED
    BY <2>2, <2>3, <2>4, <2>5, <2>6, PassTime
<1>2. CASE EndTick(p)
  <2>1. Rely /\ task' = [task EXCEPT ![p] = Resting]
    BY <1>2, RelySame DEF EndTick
  <2>2. Resting.stage = "idle" /\ ~Resting.cycle
    BY DEF Resting
  <2> QED
    BY <2>1, <2>2, PassTime
<1> QED
  BY <1>1, <1>2

\* A snapshot is never newer than its tick.
LEMMA SnapshotOld ==
  ASSUME NEW slot \in Slot, NEW data \in Snapshots(slot), data # NoSlot
  PROVE  data \in Slot /\ data \in Nat /\ data <= slot
BY SetsAssumption DEF Snapshots, Slot

LEMMA PausedTime ==
  ASSUME TimeInv, CycleInv', NEW p \in Proc, NEW s \in Symbol, StartPaused(p, s)
  PROVE  TimeInv'
<1> DEFINE t == [task[p] EXCEPT !.todo = @ \ {s}, !.sym = s]
           open == paper.position[s] # Flat
<1>0. /\ t \in Task /\ t.slot \in Slot /\ t.slot \in Nat /\ t.sym = s /\ t.cycle = FALSE /\ t.stage = "tick"
  <2>1. /\ t \in Task /\ t.slot \in Slot /\ t.sym = s /\ t.cycle = FALSE /\ t.stage = "tick"
    BY ServeType DEF StartPaused, TimeInv
  <2> HIDE DEF t
  <2> QED
    BY <2>1, SetsAssumption DEF Slot
<1>1. t.slot = task[p].slot /\ task[p].stage = "tick"
  BY TaskOf DEF TimeInv, StartPaused, Serve, Task
<1>2. t.slot <= now
  BY <1>1 DEF TimeInv, Timed
<1>3. Rely
  BY RelySame DEF StartPaused
<1>4. PICK data \in IF open THEN Snapshots(t.slot) ELSE {NoSlot} :
        task' = [task EXCEPT ![p] =
          IF PendingIn(paper, s) # {}
          THEN [At(t, "pause_cancel") EXCEPT !.data = data,
                  !.pos = IF open /\ data # NoSlot THEN paper.position[s].run ELSE NoSlot]
          ELSE IF open /\ data # NoSlot
          THEN CatchUpTo([t EXCEPT !.data = data], t.slot, "pause_close")
          ELSE Served(t)]
  BY DEF StartPaused, t
<1> HIDE DEF t
<1>5. data # NoSlot => data \in Slot /\ data \in Nat /\ data <= t.slot
  BY <1>0, <1>4, SnapshotOld
<1>6. CASE PendingIn(paper, s) # {}
  <2> DEFINE run == IF open /\ data # NoSlot THEN paper.position[s].run ELSE NoSlot
             v == At(t, "pause_cancel")
             u == [v EXCEPT !.data = data, !.pos = run]
  <2>1. task' = [task EXCEPT ![p] = u]
    BY <1>4, <1>6
  <2>2. v.stage = "pause_cancel" /\ v.slot = t.slot /\ v.cycle = FALSE /\ v \in Task
    BY <1>0, AtType DEF Stages
  <2> HIDE DEF v, run
  <2>3. u.stage = "pause_cancel" /\ u.slot = t.slot /\ u.cycle = FALSE /\ u.data = data
    BY <2>2 DEF Task
  <2> HIDE DEF u
  <2> QED
    BY <1>2, <1>3, <1>5, <2>1, <2>3, PassTime
<1>7. CASE PendingIn(paper, s) = {} /\ open /\ data # NoSlot
  <2> DEFINE v == [t EXCEPT !.data = data]
             u == CatchUpTo(v, t.slot, "pause_close")
  <2>1. v \in Task /\ v.data = data /\ v.slot = t.slot /\ v.cycle = FALSE
    BY <1>0, <1>5, <1>7 DEF Task
  <2>2. task' = [task EXCEPT ![p] = u]
    BY <1>4, <1>7
  <2> HIDE DEF v
  <2>3. /\ u.stage = "catch_up" /\ u.slot = t.slot /\ u.cycle = FALSE /\ u.data = data
        /\ u.upto = Min(t.slot, data)
    <3>0. "pause_close" \in Stages
      BY DEF Stages
    <3>1. /\ u.stage = "catch_up" /\ u.slot = v.slot /\ u.cycle = v.cycle /\ u.data = v.data
          /\ u.upto = Min(t.slot, v.data)
      BY <1>0, <2>1, <3>0, CatchAll
    <3> QED
      BY <2>1, <3>1
  <2>4. u.upto <= data
    BY <1>0, <1>5, <1>7, <2>3, MinOf
  <2> HIDE DEF u
  <2> QED
    BY <1>2, <1>3, <1>5, <1>7, <2>2, <2>3, <2>4, PassTime
<1>8. CASE PendingIn(paper, s) = {} /\ ~(open /\ data # NoSlot)
  <2>1. task' = [task EXCEPT ![p] = Served(t)]
    BY <1>4, <1>8
  <2> QED
    BY <1>1, <1>3, <2>1, ServedTime
<1> QED
  BY <1>6, <1>7, <1>8

LEMMA ManageTime ==
  ASSUME TimeInv, CycleInv', NEW p \in Proc, NEW s \in Symbol, StartManage(p, s)
  PROVE  TimeInv'
<1> DEFINE t == [task[p] EXCEPT !.todo = @ \ {s}, !.sym = s]
<1>0. /\ t \in Task /\ t.slot \in Slot /\ t.sym = s /\ t.cycle = FALSE /\ t.over \in SUBSET Symbol
  BY ServeType DEF StartManage, TimeInv
<1>1. t.slot = task[p].slot /\ task[p].stage = "tick"
  BY TaskOf DEF TimeInv, StartManage, Serve, Task
<1>2. t.slot <= now
  BY <1>1 DEF TimeInv, Timed
<1>3. Rely
  BY RelySame DEF StartManage
<1>4. PICK data \in IF s \in t.over THEN Snapshots(t.slot) ELSE {NoSlot} :
        LET u == [t EXCEPT !.data = data, !.over = IF data = NoSlot THEN @ \ {s} ELSE @] IN
        task' = [task EXCEPT ![p] = IF s \in u.due THEN At(u, "cancel")
                                    ELSE IF s \in u.over THEN At(u, "duration") ELSE Served(u)]
  BY DEF StartManage
<1>5. data # NoSlot => data <= t.slot
  BY <1>0, <1>4, SnapshotOld
<1>6. data \in Slot \cup {NoSlot}
  BY <1>0, <1>4, SnapshotType
<1> DEFINE over == IF data = NoSlot THEN t.over \ {s} ELSE t.over
           u == [t EXCEPT !.data = data, !.over = over]
<1>7. task' = [task EXCEPT ![p] = IF s \in u.due THEN At(u, "cancel")
                                  ELSE IF s \in u.over THEN At(u, "duration") ELSE Served(u)]
  BY <1>0, <1>4 DEF Task
<1>8. over \in SUBSET Symbol
  BY <1>0
<1> HIDE DEF t, over
<1>9. u \in Task /\ u.slot = t.slot /\ u.cycle = FALSE /\ u.data = data
  BY <1>0, <1>6, <1>8 DEF Task
<1> HIDE DEF u
<1>10. ASSUME NEW stage \in {"cancel", "duration"}, task' = [task EXCEPT ![p] = At(u, stage)]
       PROVE  TimeInv'
  <2> DEFINE w == At(u, stage)
  <2>0. stage \in Stages
    BY DEF Stages
  <2>1. w.stage = stage /\ w.slot = t.slot /\ w.cycle = FALSE /\ w.data = data
    BY <1>9, <2>0, AtAll
  <2>2. task' = [task EXCEPT ![p] = w]
    BY <1>10
  <2> HIDE DEF w
  <2> QED
    BY <1>2, <1>3, <1>5, <2>1, <2>2, PassTime
<1>11. ASSUME task' = [task EXCEPT ![p] = Served(u)] PROVE TimeInv'
  BY <1>1, <1>3, <1>9, <1>11, ServedTime
<1> QED
  BY <1>7, <1>10, <1>11

LEMMA StartCycleTime ==
  ASSUME TimeInv, CycleInv', NEW p \in Proc, NEW s \in Symbol, StartCycle(p, s)
  PROVE  TimeInv'
<1> DEFINE t == [task[p] EXCEPT !.todo = @ \ {s}, !.sym = s]
           u == [At(t, "data") EXCEPT !.cycle = TRUE]
<1>0. t \in Task /\ t.slot \in Slot /\ t.sym = s /\ now \in Nat
  <2>1. t \in Task /\ t.slot \in Slot /\ t.sym = s
    BY ServeType DEF StartCycle, TimeInv
  <2>2. now \in Nat
    BY SetsAssumption DEF TimeInv, CycleInv, TypeOK, Slot
  <2> QED
    BY <2>1, <2>2
<1>1. t.slot = task[p].slot /\ task[p].stage = "tick"
  BY TaskOf DEF TimeInv, StartCycle, Serve, Task
<1>2. t.slot <= now
  BY <1>1 DEF TimeInv, Timed
<1>3. CASE lock[s] = NoSlot /\ runs[s][t.slot] = "NONE"
  <2>1. /\ runs' = [runs EXCEPT ![s][t.slot] = "RUNNING"] /\ lock' = [lock EXCEPT ![s] = t.slot]
        /\ task' = [task EXCEPT ![p] = u] /\ UNCHANGED <<paper, now>>
    BY <1>3 DEF StartCycle
  <2> HIDE DEF t
  <2>2. Rely
    <3> SUFFICES ASSUME NEW x \in Symbol, NEW r \in Slot, runs[x][r] # "NONE"
                 PROVE  /\ runs'[x][r] # "NONE"
                        /\ runs'[x][r] = "RUNNING" /\ lock'[x] = r => runs[x][r] = "RUNNING" /\ lock[x] = r
      BY <1>0, <2>1 DEF Rely
    <3>1. runs'[x][r] = (IF x = s /\ r = t.slot THEN "RUNNING" ELSE runs[x][r])
      BY <1>0, <2>1 DEF TimeInv, CycleInv, TypeOK
    <3>2. lock'[x] = (IF x = s THEN t.slot ELSE lock[x])
      BY <1>0, <2>1 DEF TimeInv, CycleInv, TypeOK
    <3> QED
      BY <1>3, <3>1, <3>2
  <2>3. u.stage = "data" /\ u.slot = t.slot /\ u.sym = s /\ u \in Task
    <3> DEFINE v == At(t, "data")
    <3>1. v \in Task /\ v.stage = "data" /\ v.slot = t.slot /\ v.sym = s
      BY <1>0, AtType DEF Stages
    <3> HIDE DEF v
    <3>2. LET w == [v EXCEPT !.cycle = TRUE] IN w \in Task /\ w.stage = v.stage /\ w.slot = v.slot /\ w.sym = v.sym
      BY <3>1 DEF Task
    <3> QED
      BY <3>1, <3>2 DEF v
  <2>4. runs'[s][t.slot] = "RUNNING"
    BY <1>0, <2>1 DEF TimeInv, CycleInv, TypeOK
  <2>5. PICK w : w = u
    OBVIOUS
  <2> HIDE DEF u
  <2>6. w.stage = "data" /\ w.slot = t.slot /\ w.sym = s /\ w \in Task /\ task' = [task EXCEPT ![p] = w]
    BY <2>1, <2>3, <2>5
  <2>7. ~Claimed(w) /\ ~PastCancel(w)
    BY <2>6 DEF Claimed, PastCancel, AfterData
  <2>8. Quiet(task[p], w) /\ OrderRule(w)' /\ BarRule(w)'
    BY <2>6, <2>7 DEF Quiet, OrderRule, BarRule
  <2>9. Timed(w)'
    <3>1. w.slot <= now'
      BY <1>2, <2>1, <2>6
    <3> QED
      BY <2>4, <2>6, <2>7, <3>1 DEF Timed
  <2> QED
    BY <2>2, <2>6, <2>8, <2>9, LocalTime
<1>4. CASE ~(lock[s] = NoSlot /\ runs[s][t.slot] = "NONE")
  <2>1. task' = [task EXCEPT ![p] = Served(t)] /\ UNCHANGED <<paper, runs, lock, now>>
    BY <1>4 DEF StartCycle
  <2> QED
    BY <1>1, <2>1, RelySame, ServedTime
<1> QED
  BY <1>3, <1>4

\* A step to a later stage, other than into a catch-up.
LEMMA Forward ==
  ASSUME TimeInv, CycleInv', NEW p \in Proc, NEW u, task' = [task EXCEPT ![p] = u],
         UNCHANGED <<paper, runs, lock, now>>,
         task[p].stage \notin {"down", "idle", "tick", "data", "finish", "fail"},
         u.stage \notin {"down", "idle", "tick", "data", "catch_up", "bar"},
         u.slot = task[p].slot, u.sym = task[p].sym, u.cycle = task[p].cycle, u.data = task[p].data,
         u.blocked = task[p].blocked,
         u.stage = "fill" => ~u.blocked,
         u.stage \in AfterData => \/ task[p].stage \in AfterData
                                  \/ task[p].stage \in {"catch_up", "bar"} /\ task[p].then = "size"
  PROVE  TimeInv'
<1>1. PastCancel(u) => PastCancel(task[p])
  BY DEF PastCancel
<1> QED
  BY <1>1, Onward

LEMMA AtTime ==
  ASSUME TimeInv, CycleInv', NEW p \in Proc, NEW stage \in Stages,
         task' = [task EXCEPT ![p] = At(task[p], stage)],
         UNCHANGED <<paper, runs, lock, now>>,
         task[p].stage \notin {"down", "idle", "tick", "data", "finish", "fail"},
         stage \notin {"down", "idle", "tick", "data", "catch_up", "bar", "fill"},
         stage \in AfterData => \/ task[p].stage \in AfterData
                                \/ task[p].stage \in {"catch_up", "bar"} /\ task[p].then = "size"
  PROVE  TimeInv'
<1> DEFINE u == At(task[p], stage)
<1>1. /\ u.stage = stage /\ u.slot = task[p].slot /\ u.sym = task[p].sym /\ u.cycle = task[p].cycle
      /\ u.data = task[p].data /\ u.blocked = task[p].blocked
  BY TaskOf, AtAll, ZenonT(60) DEF TimeInv
<1>2. task' = [task EXCEPT ![p] = u]
  OBVIOUS
<1> HIDE DEF u
<1> QED
  BY <1>1, <1>2, Forward

LEMMA DataTime ==
  ASSUME TimeInv, CycleInv', NEW p \in Proc, Data(p)
  PROVE  TimeInv'
<1> DEFINE t == task[p]
<1>0. t \in Task /\ LocalsOK(t) /\ t.stage = "data" /\ Timed(t) /\ t.slot \in Nat
  <2>1. t \in Task /\ LocalsOK(t) /\ t.stage = "data" /\ Timed(t)
    BY TaskOf DEF Data, TimeInv
  <2> QED
    BY <2>1, SetsAssumption DEF LocalsOK, Slot
<1>1. Rely /\ UNCHANGED <<paper, runs, lock, now>>
  BY RelySame DEF Data
<1>2. t.slot <= now /\ (t.cycle => runs[t.sym][t.slot] # "NONE")
  BY <1>0 DEF Timed
<1>3. ASSUME NEW stage \in {"finish", "fail"}, task' = [task EXCEPT ![p] = At(t, stage)]
      PROVE  TimeInv'
  <2>1. PICK w : w = At(t, stage)
    OBVIOUS
  <2>2. stage \in Stages
    BY DEF Stages
  <2>3. w.stage = stage /\ w.slot = t.slot /\ w.sym = t.sym /\ w.cycle = t.cycle
    BY <1>0, <2>1, <2>2, AtAll
  <2>4. w \in Task
    BY <1>0, <2>1, <2>2, AtType
  <2>5. ~Claimed(w) /\ ~PastCancel(w)
    BY <2>3 DEF Claimed, PastCancel, AfterData
  <2>6. Quiet(task[p], w) /\ OrderRule(w)' /\ BarRule(w)'
    BY <2>3, <2>5 DEF Quiet, OrderRule, BarRule
  <2>7. Timed(w)'
    BY <1>1, <1>2, <2>3, <2>5 DEF Timed
  <2> QED
    BY <1>1, <1>3, <2>1, <2>4, <2>6, <2>7, LocalTime
<1>4. ASSUME now = t.slot, task' = [task EXCEPT ![p] = [At(t, "duration") EXCEPT !.data = t.slot]]
      PROVE  TimeInv'
  <2> DEFINE v == At(t, "duration")
  <2>0. "duration" \in Stages
    BY DEF Stages
  <2>1. v \in Task /\ v.stage = "duration" /\ v.slot = t.slot /\ v.sym = t.sym /\ v.cycle = t.cycle
    BY <1>0, <2>0, AtType
  <2>2. PICK w : w = [v EXCEPT !.data = t.slot]
    OBVIOUS
  <2> HIDE DEF v, t
  <2>3. w.stage = v.stage /\ w.slot = v.slot /\ w.sym = v.sym /\ w.cycle = v.cycle /\ w.data = t.slot
    BY <2>1, <2>2 DEF Task
  <2>4. w \in Task
    <3>1. t.slot \in Slot
      BY <1>0 DEF LocalsOK
    <3> QED
      BY <2>1, <2>2, <3>1 DEF Task
  <2>5. ~PastCancel(w) /\ w.stage = "duration"
    BY <2>1, <2>3 DEF PastCancel, AfterData
  <2>6. Quiet(task[p], w)
    BY <1>4, <2>1, <2>3, <2>5 DEF Quiet
  <2>7. OrderRule(w)' /\ BarRule(w)'
    BY <2>5 DEF OrderRule, BarRule
  <2>8. Timed(w)'
    BY <1>0, <1>1, <1>2, <2>1, <2>3, <2>5 DEF Timed, Claimed
  <2>9. task' = [task EXCEPT ![p] = w]
    BY <1>4, <2>2 DEF v
  <2> QED
    BY <1>1, <2>4, <2>6, <2>7, <2>8, <2>9, LocalTime
<1> QED
  BY <1>3, <1>4 DEF Data

LEMMA SizeTime ==
  ASSUME TimeInv, CycleInv', NEW p \in Proc, Size(p)
  PROVE  TimeInv'
<1> DEFINE t == task[p]
           v == At(t, "gate")
           u == [v EXCEPT !.sized = paper.equity]
<1>0. t \in Task /\ t.stage = "size"
  BY TaskOf DEF Size, TimeInv
<1>1. task' = [task EXCEPT ![p] = u] /\ UNCHANGED <<paper, runs, lock, now>>
  BY DEF Size
<1>2. "gate" \in Stages
  BY DEF Stages
<1>3. /\ v \in Task /\ v.stage = "gate" /\ v.slot = t.slot /\ v.sym = t.sym /\ v.cycle = t.cycle
      /\ v.data = t.data /\ v.blocked = t.blocked
  BY <1>0, <1>2, AtAll, AtType
<1> HIDE DEF v
<1>4. /\ u.stage = "gate" /\ u.slot = t.slot /\ u.sym = t.sym /\ u.cycle = t.cycle
      /\ u.data = t.data /\ u.blocked = t.blocked
  BY <1>3 DEF Task
<1> HIDE DEF u
<1> QED
  BY <1>0, <1>1, <1>4, Forward DEF AfterData

LEMMA GateTime ==
  ASSUME TimeInv, CycleInv', NEW p \in Proc, Gate(p)
  PROVE  TimeInv'
<1> DEFINE t == task[p]
<1>0. t \in Task /\ t.stage = "gate" /\ UNCHANGED <<paper, runs, lock, now>>
  BY TaskOf DEF Gate, TimeInv
<1>1. ASSUME NEW stage \in {"finish", "fail"}, task' = [task EXCEPT ![p] = At(t, stage)]
      PROVE  TimeInv'
  <2>1. stage \in Stages
    BY DEF Stages
  <2> QED
    BY <1>0, <1>1, <2>1, AtTime DEF AfterData
<1>2. ASSUME NEW stage \in {"fill", "choose"}, NEW entry, stage = "fill" => ~t.blocked,
             task' = [task EXCEPT ![p] = [At(t, stage) EXCEPT !.entry = entry]]
      PROVE  TimeInv'
  <2> DEFINE v == At(t, stage)
             u == [v EXCEPT !.entry = entry]
  <2>1. stage \in Stages
    BY DEF Stages
  <2>2. /\ v \in Task /\ v.stage = stage /\ v.slot = t.slot /\ v.sym = t.sym /\ v.cycle = t.cycle
        /\ v.data = t.data /\ v.blocked = t.blocked
    BY <1>0, <2>1, AtAll, AtType
  <2>3. task' = [task EXCEPT ![p] = u]
    BY <1>2
  <2> HIDE DEF v
  <2>4. /\ u.stage = stage /\ u.slot = t.slot /\ u.sym = t.sym /\ u.cycle = t.cycle
        /\ u.data = t.data /\ u.blocked = t.blocked
    BY <2>2 DEF Task
  <2> HIDE DEF u
  <2> QED
    BY <1>0, <1>2, <2>3, <2>4, Forward DEF AfterData
<1>3. CASE \E healthy, entry \in BOOLEAN :
             /\ entry => healthy /\ ~t.blocked /\ ~t.acted /\ now \notin Weekend
             /\ task' = [task EXCEPT ![p] =
                  [At(t, IF healthy /\ ~t.blocked THEN "fill" ELSE "choose") EXCEPT !.entry = entry]]
  <2>1. PICK healthy \in BOOLEAN, entry \in BOOLEAN :
             task' = [task EXCEPT ![p] =
                  [At(t, IF healthy /\ ~t.blocked THEN "fill" ELSE "choose") EXCEPT !.entry = entry]]
    BY <1>3
  <2>2. CASE healthy /\ ~t.blocked
    BY <1>2, <2>1, <2>2
  <2>3. CASE ~(healthy /\ ~t.blocked)
    BY <1>2, <2>1, <2>3
  <2> QED
    BY <2>2, <2>3
<1> QED
  BY <1>1, <1>3 DEF Gate

LEMMA ChooseTime ==
  ASSUME TimeInv, CycleInv', NEW p \in Proc, Choose(p)
  PROVE  TimeInv'
<1>1. task[p].stage = "choose" /\ UNCHANGED <<paper, runs, lock, now>>
  BY DEF Choose
<1>2. ASSUME NEW stage \in {"submit", "finish", "fail"}, task' = [task EXCEPT ![p] = At(task[p], stage)]
      PROVE  TimeInv'
  <2>1. stage \in Stages
    BY DEF Stages
  <2> QED
    BY <1>1, <1>2, <2>1, AtTime DEF AfterData
<1> QED
  BY <1>2 DEF Choose

LEMMA FinishTime ==
  ASSUME TimeInv, CycleInv', NEW p \in Proc, Finish(p)
  PROVE  TimeInv'
<1> DEFINE t == task[p]
<1>0. /\ t.stage \in {"finish", "fail"} /\ task' = [task EXCEPT ![p] = Served(t)]
      /\ UNCHANGED <<paper, now>> /\ t.slot \in Slot /\ t.sym \in Symbol
  BY TaskOf DEF Finish, LocalsOK, TimeInv
<1>1. Rely
  <2>1. CASE Owns(p)
    <3>1. PICK status \in {"COMPLETED", "FAILED"} :
            runs' = [runs EXCEPT ![t.sym][t.slot] = status] /\ lock' = [lock EXCEPT ![t.sym] = NoSlot]
      BY <2>1 DEF Finish
    <3> HIDE DEF t
    <3> SUFFICES ASSUME NEW x \in Symbol, NEW r \in Slot, runs[x][r] # "NONE"
                 PROVE  /\ runs'[x][r] # "NONE"
                        /\ runs'[x][r] = "RUNNING" /\ lock'[x] = r => runs[x][r] = "RUNNING" /\ lock[x] = r
      <4>1. now \in Nat
        BY SetsAssumption DEF TimeInv, CycleInv, TypeOK, Slot
      <4> QED
        BY <1>0, <4>1 DEF Rely
    <3>2. runs'[x][r] = (IF x = t.sym /\ r = t.slot THEN status ELSE runs[x][r])
      BY <1>0, <3>1 DEF TimeInv, CycleInv, TypeOK
    <3>3. lock'[x] = (IF x = t.sym THEN NoSlot ELSE lock[x])
      BY <1>0, <3>1 DEF TimeInv, CycleInv, TypeOK
    <3>4. r # NoSlot
      BY NullAssumption DEF Slot
    <3> QED
      BY <3>1, <3>2, <3>3, <3>4
  <2>2. CASE ~Owns(p)
    BY <1>0, <2>2, RelySame DEF Finish
  <2> QED
    BY <2>1, <2>2
<1> QED
  BY <1>0, <1>1, ServedTime

LEMMA StartTime ==
  ASSUME TimeInv, CycleInv', NEW p \in Proc, Start(p) \/ Crash(p)
  PROVE  TimeInv'
<1>0. now \in Nat
  BY SetsAssumption DEF TimeInv, CycleInv, TypeOK, Slot
<1>1. CASE Start(p)
  <2>1. PICK dead \in SUBSET Running :
          /\ runs' = [s \in Symbol |-> [t \in Slot |-> IF <<s, t>> \in dead THEN "FAILED" ELSE runs[s][t]]]
          /\ lock' = [s \in Symbol |-> IF <<s, lock[s]>> \in dead THEN NoSlot ELSE lock[s]]
    BY <1>1 DEF Start
  <2>2. task' = [task EXCEPT ![p] = Resting] /\ UNCHANGED <<paper, now>>
    BY <1>1 DEF Start
  <2>3. Rely
    <3> SUFFICES ASSUME NEW x \in Symbol, NEW r \in Slot, runs[x][r] # "NONE"
                 PROVE  /\ runs'[x][r] # "NONE"
                        /\ runs'[x][r] = "RUNNING" /\ lock'[x] = r => runs[x][r] = "RUNNING" /\ lock[x] = r
      BY <1>0, <2>2 DEF Rely
    <3>1. /\ lock'[x] = (IF <<x, lock[x]>> \in dead THEN NoSlot ELSE lock[x])
          /\ runs'[x][r] = (IF <<x, r>> \in dead THEN "FAILED" ELSE runs[x][r])
      BY <2>1
    <3>2. r # NoSlot
      BY NullAssumption DEF Slot
    <3> QED
      BY <3>1, <3>2
  <2>4. Resting.stage = "idle" /\ ~Resting.cycle
    BY DEF Resting
  <2> QED
    BY <2>2, <2>3, <2>4, PassTime
<1>2. CASE Crash(p)
  <2>1. Rely /\ task' = [task EXCEPT ![p] = Down]
    BY <1>2, RelySame DEF Crash
  <2>2. Down.stage = "down" /\ ~Down.cycle
    BY DEF Down, Resting
  <2> QED
    BY <2>1, <2>2, PassTime
<1> QED
  BY <1>1, <1>2

LEMMA ClockTime ==
  ASSUME TimeInv, CycleInv', Clock \/ UNCHANGED vars
  PROVE  TimeInv'
<1>1. now \in Nat /\ now' \in Nat /\ now <= now' /\ UNCHANGED <<paper, runs, lock, task>>
  <2>1. now \in Nat
    BY SetsAssumption DEF TimeInv, CycleInv, TypeOK, Slot
  <2> QED
    BY <2>1 DEF Clock, vars
<1>2. Exposure'
  BY <1>1 DEF TimeInv, Exposure, PendingIn
<1>3. ASSUME NEW p \in Proc
      PROVE  Timed(task[p])' /\ OrderRule(task[p])' /\ BarRule(task[p])'
  <2>1. Timed(task[p]) /\ OrderRule(task[p]) /\ BarRule(task[p]) /\ LocalsOK(task[p])
    BY TaskOf DEF TimeInv
  <2>2. task[p].stage \notin {"down", "idle"} => task[p].slot \in Nat
    BY <2>1, SetsAssumption DEF LocalsOK, Slot
  <2>3. Timed(task[p])'
    BY <1>1, <2>1, <2>2 DEF Timed, Claimed
  <2>4. OrderRule(task[p])' /\ BarRule(task[p])'
    BY <1>1, <2>1 DEF OrderRule, BarRule, PastCancel, Holds, PendingIn
  <2> QED
    BY <2>3, <2>4
<1>4. ASSUME NEW p \in Proc, NEW q \in Proc PROVE FillRule(task[p], task[q])'
  BY <1>1 DEF TimeInv, FillRule, Claimed, Holds, PendingIn
<1> QED
  BY <1>2, <1>3, <1>4 DEF TimeInv

\* The end of a catch-up.
LEMMA ThenTime ==
  ASSUME TimeInv, CycleInv', NEW p \in Proc, task[p].stage \in {"catch_up", "bar"},
         task' = [task EXCEPT ![p] = At(task[p], task[p].then)], UNCHANGED <<paper, runs, lock, now>>
  PROVE  TimeInv'
<1>1. task[p] \in Task /\ LocalsOK(task[p])
  BY TaskOf DEF TimeInv
<1>2. task[p].then \in {"size", "close", "pause_close"} /\ task[p].then \in Stages
  BY <1>1 DEF LocalsOK, Task
<1> QED
  BY <1>2, AtTime DEF AfterData

LEMMA CatchUpTime ==
  ASSUME TimeInv, CycleInv', NEW p \in Proc, CatchUp(p)
  PROVE  TimeInv'
<1> DEFINE t == task[p]
           position == paper.position[t.sym]
<1>0. t \in Task /\ LocalsOK(t) /\ t.stage = "catch_up" /\ Timed(t)
  BY TaskOf DEF CatchUp, TimeInv
<1>1. UNCHANGED <<paper, runs, lock, now>>
  BY DEF CatchUp
<1>2. ASSUME task' = [task EXCEPT ![p] = At(t, t.then)] PROVE TimeInv'
  BY <1>0, <1>1, <1>2, ThenTime
<1>3. ASSUME position # Flat, task' = [task EXCEPT ![p] = [t EXCEPT !.stage = "bar", !.bar = position.mark + 1]]
      PROVE  TimeInv'
  <2> DEFINE u == [t EXCEPT !.stage = "bar", !.bar = position.mark + 1]
  <2>1. position.mark \in Nat
    BY <1>0, <1>3, SetsAssumption
       DEF LocalsOK, TimeInv, CycleInv, TypeOK, Paper, Ledger!Position, Ledger!Slot
  <2>2. t.upto <= t.data
    BY <1>0 DEF Timed
  <2>3. task' = [task EXCEPT ![p] = u]
    BY <1>3
  <2>4. /\ u.stage = "bar" /\ u.slot = t.slot /\ u.sym = t.sym /\ u.cycle = t.cycle /\ u.data = t.data
        /\ u.upto = t.upto /\ u.blocked = t.blocked /\ u.then = t.then /\ u.bar = position.mark + 1
    <3> HIDE DEF t, position
    <3> QED
      BY <1>0 DEF Task
  <2> HIDE DEF u
  <2>5. paper.position[u.sym] # Flat /\ paper.position[u.sym].mark + 1 >= u.bar
    BY <1>3, <2>1, <2>4
  <2>6. PastCancel(u) => PastCancel(t)
    BY <1>0, <2>4 DEF PastCancel, AfterData
  <2>7. u.upto <= u.data
    BY <2>2, <2>4
  <2> QED
    BY <1>0, <1>1, <2>3, <2>4, <2>5, <2>6, <2>7, Onward
<1> QED
  BY <1>2, <1>3 DEF CatchUp

\* A catch-up that starts or starts again, for a goal in the past of the tick.
LEMMA GoalTime ==
  ASSUME TimeInv, CycleInv', NEW p \in Proc, NEW u, task' = [task EXCEPT ![p] = u],
         UNCHANGED <<paper, runs, lock, now>>,
         task[p].stage \notin {"down", "idle", "tick", "data", "finish", "fail"},
         task[p].data \in Slot, NEW goal \in Nat, NEW stage \in Stages, NEW blocked,
         u.stage = "catch_up", u.then = stage, u.upto = Min(goal, task[p].data), u.blocked = blocked,
         u.slot = task[p].slot, u.sym = task[p].sym, u.cycle = task[p].cycle, u.data = task[p].data,
         stage = "size" => blocked \/ DueIn(paper, task[p].sym, task[p].slot) = {}
  PROVE  TimeInv'
<1>1. u.upto <= u.data
  <2>1. task[p].data \in Nat
    BY SetsAssumption DEF Slot
  <2> QED
    BY <2>1, MinOf
<1>2. PastCancel(u) => DueIn(paper, u.sym, u.slot) = {}
  BY DEF PastCancel, AfterData
<1> QED
  BY <1>1, <1>2, Onward

LEMMA DurationTime ==
  ASSUME TimeInv, CycleInv', NEW p \in Proc, Duration(p)
  PROVE  TimeInv'
<1> DEFINE t == task[p]
           position == paper.position[t.sym]
<1>0. t \in Task /\ LocalsOK(t) /\ t.stage = "duration" /\ t.data \in Slot /\ t.sym \in Symbol
  BY TaskOf DEF Duration, TimeInv, LocalsOK, Pricing
<1>1. UNCHANGED <<paper, runs, lock, now>>
  BY DEF Duration
<1>2. ASSUME position # Flat,
             task' = [task EXCEPT ![p] = [CatchUpTo(t, PositionBoundary(position.opened), "close")
                                          EXCEPT !.pos = position.run]]
      PROVE  TimeInv'
  <2>1. position.opened \in Slot
    BY <1>0, <1>2 DEF TimeInv, CycleInv, TypeOK, Paper, Ledger!Position, Ledger!Slot, Slot
  <2> DEFINE goal == PositionBoundary(position.opened)
             v == CatchUpTo(t, goal, "close")
             u == [v EXCEPT !.pos = position.run]
  <2>2. goal \in Nat
    BY <2>1, PositionBoundaryType
  <2>3. task' = [task EXCEPT ![p] = u]
    BY <1>2
  <2> HIDE DEF position, goal
  <2>4. "close" \in Stages
    BY DEF Stages
  <2>5. v \in Task
    BY <1>0, <2>2, <2>4, CatchUpToType
  <2>6. /\ v.stage = "catch_up" /\ v.slot = t.slot /\ v.sym = t.sym /\ v.cycle = t.cycle
        /\ v.data = t.data /\ v.upto = Min(goal, t.data) /\ v.then = "close" /\ v.blocked = t.blocked
    BY <1>0, <2>2, <2>4, CatchAll, ZenonT(60)
  <2> HIDE DEF v
  <2>7. /\ u.stage = "catch_up" /\ u.slot = t.slot /\ u.sym = t.sym /\ u.cycle = t.cycle
        /\ u.data = t.data /\ u.upto = Min(goal, t.data) /\ u.then = "close" /\ u.blocked = t.blocked
    BY <2>5, <2>6 DEF Task
  <2> HIDE DEF u
  <2> QED
    BY <1>0, <1>1, <2>2, <2>3, <2>4, <2>7, GoalTime
<1>3. ASSUME task' = [task EXCEPT ![p] = At(t, "cancel")] PROVE TimeInv'
  <2>1. "cancel" \in Stages
    BY DEF Stages
  <2> QED
    BY <1>0, <1>1, <1>3, <2>1, AtTime DEF AfterData
<1>4. ASSUME task' = [task EXCEPT ![p] = Served(t)] PROVE TimeInv'
  BY <1>0, <1>1, <1>4, RelySame, ServedTime
<1> QED
  BY <1>2, <1>3, <1>4 DEF Duration, OverdueIn

\* A write that leaves the account alone: nothing to save, or given up.
LEMMA AfterWriteTime ==
  ASSUME TimeInv, CycleInv', NEW p \in Proc, NEW h, task[p].stage \in Writes \ {"bar"},
         task' = [task EXCEPT ![p] = AfterWrite(task[p], h)], UNCHANGED <<paper, runs, lock, now>>,
         task[p].stage = "cancel" /\ task[p].cycle => DueIn(paper, task[p].sym, task[p].slot) = {}
  PROVE  TimeInv'
<1> DEFINE t == task[p]
<1>0. t \in Task /\ LocalsOK(t) /\ t.slot \in Nat
  <2>1. t \in Task /\ LocalsOK(t)
    BY TaskOf DEF TimeInv
  <2> QED
    BY <2>1, SetsAssumption DEF LocalsOK, Writes, Slot
<1>1. ASSUME task' = [task EXCEPT ![p] = Served(t)] PROVE TimeInv'
  BY <1>1, RelySame, ServedTime DEF Writes
<1>2. ASSUME NEW stage \in {"size", "pause_close"}, t.data \in Slot,
             task' = [task EXCEPT ![p] = CatchUpTo(t, t.slot, stage)],
             stage = "size" => DueIn(paper, t.sym, t.slot) = {}
      PROVE  TimeInv'
  <2> DEFINE u == CatchUpTo(t, t.slot, stage)
  <2>1. stage \in Stages
    BY DEF Stages
  <2>2. /\ u.stage = "catch_up" /\ u.slot = t.slot /\ u.sym = t.sym /\ u.cycle = t.cycle
        /\ u.data = t.data /\ u.upto = Min(t.slot, t.data) /\ u.then = stage /\ u.blocked = t.blocked
    BY <1>0, <2>1, CatchOwnSlot
  <2>3. task' = [task EXCEPT ![p] = u]
    BY <1>2
  <2>4. /\ task[p].stage \notin {"down", "idle", "tick", "data", "finish", "fail"}
        /\ task[p].data \in Slot /\ task[p].slot \in Nat
        /\ stage = "size" => task[p].blocked \/ DueIn(paper, task[p].sym, task[p].slot) = {}
    BY <1>0, <1>2 DEF Writes
  <2>5. /\ u.stage = "catch_up" /\ u.then = stage /\ u.upto = Min(task[p].slot, task[p].data)
        /\ u.blocked = task[p].blocked /\ u.slot = task[p].slot /\ u.sym = task[p].sym
        /\ u.cycle = task[p].cycle /\ u.data = task[p].data
    BY <2>2
  <2> HIDE DEF t, u
  <2> QED
    BY <2>1, <2>3, <2>4, <2>5, GoalTime
<1>3. ASSUME NEW stage \in {"duration", "choose", "finish"}, task' = [task EXCEPT ![p] = At(t, stage)],
             stage = "choose" => t.stage = "fill"
      PROVE  TimeInv'
  <2>1. stage \in Stages
    BY DEF Stages
  <2> QED
    BY <1>3, <2>1, AtTime DEF AfterData, Writes
<1>4. CASE t.stage \in {"close", "fill", "submit"}
  BY <1>3, <1>4 DEF AfterWrite
<1>5. CASE t.stage = "cancel"
  <2>1. t.cycle => t.data \in Slot
    BY <1>0, <1>5 DEF LocalsOK
  <2> QED
    BY <1>1, <1>2, <1>3, <1>5, <2>1 DEF AfterWrite
<1>6. CASE t.stage = "pause_cancel"
  <2>1. t.pos # NoSlot => t.data \in Slot
    BY <1>0, <1>6 DEF LocalsOK
  <2> QED
    BY <1>1, <1>2, <1>6, <2>1 DEF AfterWrite
<1>7. CASE t.stage = "pause_close"
  BY <1>1, <1>7 DEF AfterWrite
<1> QED
  BY <1>4, <1>5, <1>6, <1>7 DEF Writes

LEMMA LoadTime ==
  ASSUME TimeInv, CycleInv', NEW p \in Proc, Load(p)
  PROVE  TimeInv'
<1> DEFINE t == task[p]
<1>0. t \in Task /\ LocalsOK(t) /\ Timed(t) /\ t.stage \in Writes /\ UNCHANGED <<paper, runs, lock, now>>
  BY TaskOf DEF Load, TimeInv
<1>1. CASE Results(t, paper) = {}
  <2>1. CASE t.stage = "bar"
    <3>1. task' = [task EXCEPT ![p] = At(t, t.then)]
      BY <1>1, <2>1 DEF Load, WithoutWrite
    <3> QED
      BY <1>0, <2>1, <3>1, ThenTime
  <2>2. CASE t.stage # "bar"
    <3>1. task' = [task EXCEPT ![p] = AfterWrite(t, paper)]
      BY <1>1, <2>2 DEF Load, WithoutWrite
    <3>2. t.stage = "cancel" => DueIn(paper, t.sym, t.slot) = {}
      BY <1>1 DEF Results, CancelResults
    <3> QED
      BY <1>0, <2>2, <3>1, <3>2, AfterWriteTime
  <2> QED
    BY <2>1, <2>2
<1>2. CASE Results(t, paper) # {}
  <2> DEFINE u == [t EXCEPT !.held = paper]
  <2>1. task' = [task EXCEPT ![p] = u]
    BY <1>2 DEF Load
  <2>2. /\ u.stage = t.stage /\ u.slot = t.slot /\ u.sym = t.sym /\ u.cycle = t.cycle /\ u.data = t.data
        /\ u.upto = t.upto /\ u.blocked = t.blocked /\ u.then = t.then /\ u.bar = t.bar
    <3> HIDE DEF t
    <3> QED
      BY <1>0 DEF Task
  <2> HIDE DEF u
  <2>3. (t.stage = "bar" => t.upto <= t.data) /\ (t.stage = "fill" => ~t.blocked)
    BY <1>0 DEF Timed
  <2>4. PastCancel(u) => PastCancel(t)
    BY <2>2 DEF PastCancel
  <2>5. t.stage \notin {"down", "idle", "tick", "data", "finish", "fail", "catch_up"}
    BY <1>0 DEF Writes
  <2> QED
    BY <1>0, <2>1, <2>2, <2>3, <2>4, <2>5, Onward
<1> QED
  BY <1>1, <1>2

LEMMA StaleTime ==
  ASSUME TimeInv, CycleInv', NEW p \in Proc, Stale(p)
  PROVE  TimeInv'
<1> DEFINE t == task[p]
<1>0. t \in Task /\ LocalsOK(t) /\ Timed(t) /\ t.stage \in Writes /\ UNCHANGED <<paper, runs, lock, now>>
  BY TaskOf DEF Stale, TimeInv
<1>1. t.stage \notin {"down", "idle", "tick", "data", "finish", "fail", "catch_up"} /\ t.slot \in Nat
  BY <1>0, SetsAssumption DEF Writes, LocalsOK, Slot
<1>2. CASE ~t.stale
  <2> DEFINE stage == IF t.stage = "bar" THEN "catch_up" ELSE t.stage
             u == [t EXCEPT !.held = NoPaper, !.stale = TRUE, !.stage = stage]
  <2>1. task' = [task EXCEPT ![p] = u]
    BY <1>2 DEF Stale
  <2> HIDE DEF stage
  <2>2. /\ u.stage = stage /\ u.slot = t.slot /\ u.sym = t.sym /\ u.cycle = t.cycle /\ u.data = t.data
        /\ u.upto = t.upto /\ u.blocked = t.blocked /\ u.then = t.then /\ u.bar = t.bar
    <3> HIDE DEF t
    <3> QED
      BY <1>0 DEF Task
  <2> HIDE DEF u
  <2>3. (t.stage = "bar" => t.upto <= t.data) /\ (t.stage = "fill" => ~t.blocked)
    BY <1>0 DEF Timed
  <2>4. PastCancel(u) => PastCancel(t)
    BY <1>1, <2>2 DEF PastCancel, stage, AfterData
  <2>5. u.stage \notin {"down", "idle", "tick", "data", "bar"} /\ (u.stage = "catch_up" <=> t.stage = "bar")
        /\ (u.stage = "fill" <=> t.stage = "fill")
    BY <1>1, <2>2 DEF stage
  <2> QED
    BY <1>0, <1>1, <2>1, <2>2, <2>3, <2>4, <2>5, Onward
<1>3. CASE t.stale
  <2>0. task' = [task EXCEPT ![p] = AfterStale(t)]
    BY <1>3 DEF Stale
  <2>1. CASE t.stage = "bar" /\ t.then = "size"
    <3> DEFINE v == At(t, "size")
               u == [v EXCEPT !.blocked = TRUE]
    <3>1. task' = [task EXCEPT ![p] = u]
      BY <2>0, <2>1 DEF AfterStale
    <3>2. "size" \in Stages
      BY DEF Stages
    <3>3. /\ v \in Task /\ v.stage = "size" /\ v.slot = t.slot /\ v.sym = t.sym /\ v.cycle = t.cycle
          /\ v.data = t.data
      BY <1>0, <3>2, AtAll, AtType
    <3> HIDE DEF v
    <3>4. /\ u.stage = "size" /\ u.slot = t.slot /\ u.sym = t.sym /\ u.cycle = t.cycle
          /\ u.data = t.data /\ u.blocked = TRUE
      BY <3>3 DEF Task
    <3> HIDE DEF u
    <3>5. ~PastCancel(u)
      BY <3>4 DEF PastCancel
    <3> QED
      BY <1>0, <1>1, <3>1, <3>4, <3>5, Onward
  <2>2. CASE t.stage = "fill" \/ t.stage = "submit"
    <3>1. PICK stage \in {"fail", "finish"} : task' = [task EXCEPT ![p] = At(t, stage)]
      BY <2>0, <2>2 DEF AfterStale
    <3>2. stage \in Stages
      BY DEF Stages
    <3> QED
      BY <1>0, <1>1, <3>1, <3>2, AtTime DEF AfterData
  <2>3. CASE t.stage = "cancel" /\ ~t.cycle
    <3>1. task' = [task EXCEPT ![p] = AfterWrite(t, NoPaper)]
      BY <2>0, <2>3 DEF AfterStale
    <3> QED
      BY <1>0, <2>3, <3>1, AfterWriteTime
  <2>4. CASE t.cycle /\ ~(t.stage = "bar" /\ t.then = "size") /\ t.stage \notin {"fill", "submit"}
    <3> DEFINE v == CatchUpTo(t, t.slot, "size")
               u == [v EXCEPT !.blocked = TRUE]
    <3>1. task' = [task EXCEPT ![p] = u]
      BY <2>0, <2>4 DEF AfterStale, Blocked
    <3>2. "size" \in Stages
      BY DEF Stages
    <3>3. t.data \in Slot
      BY <1>0, <2>4 DEF LocalsOK, Writes
    <3>4. v \in Task
      BY <1>0, <1>1, <3>2, <3>3, CatchUpToType
    <3>5. /\ v.stage = "catch_up" /\ v.slot = t.slot /\ v.sym = t.sym /\ v.cycle = t.cycle
          /\ v.data = t.data /\ v.upto = Min(t.slot, t.data) /\ v.then = "size"
      BY <1>0, <1>1, <3>2, CatchAll, ZenonT(60)
    <3> HIDE DEF v
    <3>6. /\ u.stage = "catch_up" /\ u.slot = t.slot /\ u.sym = t.sym /\ u.cycle = t.cycle
          /\ u.data = t.data /\ u.upto = Min(t.slot, t.data) /\ u.then = "size" /\ u.blocked = TRUE
      BY <3>4, <3>5 DEF Task
    <3> HIDE DEF u
    <3> QED
      BY <1>0, <1>1, <3>1, <3>2, <3>3, <3>6, GoalTime
  <2>5. CASE ~t.cycle /\ ~(t.stage = "bar" /\ t.then = "size") /\ t.stage \notin {"fill", "submit", "cancel"}
    <3>1. task' = [task EXCEPT ![p] = Served(t)]
      BY <2>0, <2>5 DEF AfterStale
    <3> QED
      BY <1>0, <1>1, <3>1, RelySame, ServedTime
  <2> QED
    BY <2>1, <2>2, <2>3, <2>4, <2>5
<1> QED
  BY <1>2, <1>3

LEMMA NotOwnerTime ==
  ASSUME TimeInv, CycleInv', NEW p \in Proc, NotOwner(p)
  PROVE  TimeInv'
<1>1. /\ task[p].stage \notin {"down", "idle", "tick", "data", "finish", "fail"} /\ "fail" \in Stages
      /\ task' = [task EXCEPT ![p] = At(task[p], "fail")] /\ UNCHANGED <<paper, runs, lock, now>>
  BY DEF NotOwner, Writes, Stages
<1> QED
  BY <1>1, AtTime DEF AfterData

-----------------------------------------------------------------------------
\* What a save does to the orders and the positions.

\* No order is pending that was not, and a position is the old one or none.
Settles(x) ==
    PendingIn(paper', x) \subseteq PendingIn(paper, x) /\ paper'.position[x] \in {paper.position[x], Flat}

LEMMA SettlesKeeps ==
  ASSUME Exposure, \A x \in Symbol : Settles(x)
  PROVE  Exposure'
<1> SUFFICES ASSUME NEW x \in Symbol
             PROVE  /\ \A t, u \in PendingIn(paper', x) : t = u
                    /\ paper'.position[x] # Flat => PendingIn(paper', x) = {}
  BY DEF Exposure
<1>1. Settles(x)
  OBVIOUS
<1>2. /\ \A t, u \in PendingIn(paper, x) : t = u
      /\ paper.position[x] # Flat => PendingIn(paper, x) = {}
  BY DEF Exposure
<1> QED
  BY <1>1, <1>2 DEF Settles

LEMMA BookedEffect ==
  ASSUME paper \in Paper, NEW s \in Symbol, paper' \in Booked(paper, s)
  PROVE  (\A x \in Symbol : Settles(x)) /\ paper'.position[s] = Flat /\ paper'.order = paper.order
<1>1. PICK e \in Equity :
        paper' = [paper EXCEPT !.position[s] = Flat, !.trades[s][paper.position[s].run] = @ + 1, !.equity = e]
  BY DEF Booked
<1>2. paper'.order = paper.order /\ paper'.position = [paper.position EXCEPT ![s] = Flat]
  BY <1>1 DEF Paper
<1>3. paper.position \in [Symbol -> Ledger!Position \cup {Flat}]
  BY DEF Paper
<1> QED
  BY <1>2, <1>3 DEF Settles, PendingIn

LEMMA BarEffect ==
  ASSUME paper \in Paper, NEW s \in Symbol, NEW b, paper' \in BarResults(paper, s, b)
  PROVE  /\ paper.position[s] # Flat /\ ~(b <= paper.position[s].mark) /\ paper'.order = paper.order
         /\ \A x \in Symbol : x # s => Settles(x)
         /\ PendingIn(paper', s) = PendingIn(paper, s)
         /\ \/ paper'.position[s] = Flat
            \/ paper'.position[s] = [paper.position[s] EXCEPT !.mark = b]
<1>1. paper.position[s] # Flat /\ ~(b <= paper.position[s].mark)
  BY DEF BarResults
<1>2. CASE paper' \in Booked(paper, s)
  <2>1. (\A x \in Symbol : Settles(x)) /\ paper'.position[s] = Flat /\ paper'.order = paper.order
    BY <1>2, BookedEffect
  <2> QED
    BY <1>1, <2>1 DEF PendingIn
<1>3. CASE \E e \in Equity : paper' = [paper EXCEPT !.position[s].mark = b, !.equity = e]
  <2>1. PICK e \in Equity : paper' = [paper EXCEPT !.position[s].mark = b, !.equity = e]
    BY <1>3
  <2>2. /\ paper'.order = paper.order
        /\ paper'.position = [paper.position EXCEPT ![s] = [paper.position[s] EXCEPT !.mark = b]]
    BY <2>1 DEF Paper
  <2>3. paper.position \in [Symbol -> Ledger!Position \cup {Flat}]
    BY DEF Paper
  <2>4. /\ paper'.position[s] = [paper.position[s] EXCEPT !.mark = b]
        /\ \A x \in Symbol : x # s => paper'.position[x] = paper.position[x]
    BY <2>2, <2>3
  <2> QED
    BY <1>1, <2>2, <2>4 DEF Settles, PendingIn
<1> QED
  BY <1>1, <1>2, <1>3 DEF BarResults

LEMMA CancelEffect ==
  ASSUME paper \in Paper, NEW s \in Symbol, NEW due, paper' \in CancelResults(paper, s, due)
  PROVE  (\A x \in Symbol : Settles(x)) /\ PendingIn(paper', s) \cap due = {}
<1>1. paper' = [paper EXCEPT !.order[s] = [t \in Slot |-> IF t \in due THEN "CANCELLED" ELSE @[t]]]
  BY DEF CancelResults
<1>2. /\ paper'.position = paper.position
      /\ paper'.order = [paper.order EXCEPT ![s] =
                           [t \in Slot |-> IF t \in due THEN "CANCELLED" ELSE paper.order[s][t]]]
  BY <1>1 DEF Paper
<1>3. paper.order \in [Symbol -> [Slot -> Ledger!OrderStatus]]
  BY DEF Paper
<1>4. \A x \in Symbol, t \in Slot :
        paper'.order[x][t] = (IF x = s /\ t \in due THEN "CANCELLED" ELSE paper.order[x][t])
  BY <1>2, <1>3
<1> QED
  BY <1>2, <1>4 DEF Settles, PendingIn

LEMMA FillEffect ==
  ASSUME paper \in Paper, NEW s \in Symbol, NEW b, paper' \in FillResults(paper, s, b)
  PROVE  \E t \in PendingIn(paper, s) :
           /\ b > t /\ t \notin PendingIn(paper', s)
           /\ \A x \in Symbol : x # s => Settles(x)
           /\ \A x \in Symbol : PendingIn(paper', x) \subseteq PendingIn(paper, x)
           /\ \/ \A x \in Symbol, r \in Slot : paper'.order[x][r] = "FILLED" => paper.order[x][r] = "FILLED"
              \/ /\ paper'.position[s] = [run |-> t, opened |-> b, mark |-> b]
                 /\ \A x \in Symbol, r \in Slot :
                      paper'.order[x][r] = "FILLED" => paper.order[x][r] = "FILLED" \/ (x = s /\ r = t)
           /\ paper'.position[s] \in {paper.position[s], [run |-> t, opened |-> b, mark |-> b]}
<1>1. PICK t \in PendingIn(paper, s) :
        /\ b > t
        /\ \/ paper' = [paper EXCEPT !.order[s][t] = "REJECTED"]
           \/ paper' = [paper EXCEPT !.order[s][t] = "FILLED",
                                     !.position[s] = [run |-> t, opened |-> b, mark |-> b]]
  BY DEF FillResults
<1>2. t \in Slot /\ paper.order[s][t] = "PENDING"
  BY DEF PendingIn
<1>3. /\ paper.order \in [Symbol -> [Slot -> Ledger!OrderStatus]]
      /\ paper.position \in [Symbol -> Ledger!Position \cup {Flat}]
  BY DEF Paper
<1>4. CASE paper' = [paper EXCEPT !.order[s][t] = "REJECTED"]
  <2>1. paper'.position = paper.position /\ paper'.order = [paper.order EXCEPT ![s][t] = "REJECTED"]
    BY <1>4 DEF Paper
  <2>2. \A x \in Symbol, r \in Slot :
          paper'.order[x][r] = (IF x = s /\ r = t THEN "REJECTED" ELSE paper.order[x][r])
    BY <1>2, <1>3, <2>1
  <2> QED
    BY <1>1, <1>2, <2>1, <2>2 DEF Settles, PendingIn
<1>5. CASE paper' = [paper EXCEPT !.order[s][t] = "FILLED",
                                  !.position[s] = [run |-> t, opened |-> b, mark |-> b]]
  <2>1. /\ paper'.order = [paper.order EXCEPT ![s][t] = "FILLED"]
        /\ paper'.position = [paper.position EXCEPT ![s] = [run |-> t, opened |-> b, mark |-> b]]
    BY <1>5 DEF Paper
  <2>2. \A x \in Symbol, r \in Slot :
          paper'.order[x][r] = (IF x = s /\ r = t THEN "FILLED" ELSE paper.order[x][r])
    BY <1>2, <1>3, <2>1
  <2>3. /\ paper'.position[s] = [run |-> t, opened |-> b, mark |-> b]
        /\ \A x \in Symbol : x # s => paper'.position[x] = paper.position[x]
    BY <1>3, <2>1
  <2> QED
    BY <1>1, <1>2, <2>2, <2>3 DEF Settles, PendingIn
<1> QED
  BY <1>1, <1>4, <1>5

LEMMA SubmitEffect ==
  ASSUME paper \in Paper, NEW s \in Symbol, NEW t \in Slot, NEW sized,
         paper' \in SubmitResults(paper, s, t, sized)
  PROVE  /\ \A x \in Symbol : x # s => Settles(x)
         /\ paper.position[s] = Flat /\ paper'.position[s] = Flat
         /\ PendingIn(paper, s) = {} /\ PendingIn(paper', s) = {t}
         /\ \A x \in Symbol, r \in Slot : paper'.order[x][r] = "FILLED" => paper.order[x][r] = "FILLED"
<1>1. /\ PendingIn(paper, s) = {} /\ paper.position[s] = Flat
      /\ paper' = [paper EXCEPT !.order[s][t] = "PENDING"]
  BY DEF SubmitResults
<1>2. paper'.position = paper.position /\ paper'.order = [paper.order EXCEPT ![s][t] = "PENDING"]
  BY <1>1 DEF Paper
<1>3. paper.order \in [Symbol -> [Slot -> Ledger!OrderStatus]]
  BY DEF Paper
<1>4. \A x \in Symbol, r \in Slot :
        paper'.order[x][r] = (IF x = s /\ r = t THEN "PENDING" ELSE paper.order[x][r])
  BY <1>2, <1>3
<1> QED
  BY <1>1, <1>2, <1>4 DEF Settles, PendingIn

-----------------------------------------------------------------------------
\* A save: what the other runtimes may rely on.

LEMMA SaveOthers ==
  ASSUME TimeInv, CycleInv', NEW p \in Proc, NEW u, task' = [task EXCEPT ![p] = u],
         UNCHANGED <<runs, lock, now>>, Exposure',
         Timed(u)', OrderRule(u)', BarRule(u)',
         u.stage = "bar" => PendingIn(paper', u.sym) = {},
         Claimed(u) => Claimed(task[p]) /\ u.slot = task[p].slot /\ u.sym = task[p].sym,
         \A x \in Symbol : \A o \in PendingIn(paper', x) :
           o \in PendingIn(paper, x) \/ (lock[x] = o /\ OrderBoundary(o) > o /\ o \in Nat),
         \A x \in Symbol : \/ paper'.position[x] \in {paper.position[x], Flat}
                           \/ \A q \in Proc : task[q].stage = "bar" /\ task[q].sym = x =>
                                                paper'.position[x].mark + 1 >= task[q].bar
  PROVE  TimeInv'
<1>1. /\ task[p] \in Task /\ task \in [Proc -> Task]
      /\ task'[p] = u /\ \A q \in Proc : q # p => task'[q] = task[q]
  BY DEF TimeInv, CycleInv, TypeOK
<1>2. ASSUME NEW q \in Proc
      PROVE  /\ LocalsOK(task[q]) /\ Timed(task[q]) /\ OrderRule(task[q]) /\ BarRule(task[q])
             /\ task[q].cycle \/ task[q].stage = "bar" => task[q].sym \in Symbol /\ task[q].slot \in Slot
  <2>1. task[q] \in Task /\ LocalsOK(task[q])
    BY TaskOf DEF TimeInv
  <2> QED
    BY <2>1 DEF LocalsOK, TimeInv
<1>3. ASSUME NEW q \in Proc, q # p
      PROVE  Timed(task[q])' /\ OrderRule(task[q])' /\ BarRule(task[q])'
  <2>1. task'[q] = task[q]
    BY <1>1, <1>3
  <2>2. Timed(task[q])'
    BY <1>2, <2>1 DEF Timed, Claimed
  <2>3. BarRule(task[q])'
    BY <1>2, <2>1 DEF BarRule
  <2>4. OrderRule(task[q])'
    <3> SUFFICES ASSUME PastCancel(task[q]), Holds(task[q]), NEW o \in PendingIn(paper', task[q].sym)
                 PROVE  OrderBoundary(o) > task[q].slot
      BY <2>1 DEF OrderRule, PastCancel, Holds
    <3>1. task[q].sym \in Symbol
      BY <1>2 DEF PastCancel
    <3>2. CASE o \in PendingIn(paper, task[q].sym)
      BY <1>2, <3>2 DEF OrderRule
    <3>3. CASE lock[task[q].sym] = o /\ OrderBoundary(o) > o
      BY <3>3 DEF Holds
    <3> QED
      BY <3>1, <3>2, <3>3
  <2> QED
    BY <2>2, <2>3, <2>4
<1>4. ASSUME NEW q \in Proc
      PROVE  Timed(task[q])' /\ OrderRule(task[q])' /\ BarRule(task[q])'
  <2>1. CASE q = p
    BY <1>1, <2>1 DEF Timed, OrderRule, BarRule, Claimed, PastCancel, Holds
  <2> QED
    BY <1>3, <2>1
<1>5. ASSUME NEW q \in Proc, NEW c \in Proc
      PROVE  FillRule(task[q], task[c])'
  <2> SUFFICES ASSUME task'[q].stage = "bar", Claimed(task'[c]), Holds(task[c])',
                      task'[c].sym = task'[q].sym,
                      NEW o \in PendingIn(paper', task'[q].sym), o < task'[c].slot
               PROVE  task'[q].bar <= task'[c].slot + 1
    BY DEF FillRule, Claimed
  <2>1. q # p /\ task'[q] = task[q]
    BY <1>1
  <2>2. Claimed(task[c]) /\ task'[c].slot = task[c].slot /\ task'[c].sym = task[c].sym
    BY <1>1
  <2>3. Holds(task[c]) /\ task[q].sym \in Symbol /\ task[c].slot \in Nat
    <3>1. Holds(task[c]) /\ task[q].sym \in Symbol /\ task[c].slot \in Slot
      BY <1>2, <2>1, <2>2 DEF Holds, Claimed
    <3> QED
      BY <3>1, SetsAssumption DEF Slot
  <2>4. CASE o \in PendingIn(paper, task[q].sym)
    <3>1. FillRule(task[q], task[c])
      BY DEF TimeInv
    <3> QED
      BY <2>1, <2>2, <2>3, <2>4, <3>1 DEF FillRule
  <2>5. CASE lock[task[q].sym] = o /\ o \in Nat
    <3>1. o = task[c].slot
      BY <2>1, <2>2, <2>3, <2>5 DEF Holds
    <3> QED
      BY <2>2, <2>3, <3>1
  <2> QED
    BY <2>1, <2>3, <2>4, <2>5
<1> QED
  BY <1>4, <1>5 DEF TimeInv

\* The task after a save that goes on: as Onward, over the account that was written.
LEMMA SaveOn ==
  ASSUME TimeInv, CycleInv', NEW p \in Proc, NEW u, task' = [task EXCEPT ![p] = u],
         UNCHANGED <<runs, lock, now>>, Exposure',
         task[p].stage \notin {"down", "idle", "tick", "data", "finish", "fail"},
         u.stage \notin {"down", "idle", "tick", "data", "fill"},
         u.slot = task[p].slot, u.sym = task[p].sym, u.cycle = task[p].cycle, u.data = task[p].data,
         u.stage \in {"catch_up", "bar"} => u.upto <= u.data,
         OrderRule(u)', BarRule(u)',
         u.stage = "bar" => PendingIn(paper', u.sym) = {},
         \A x \in Symbol : \A o \in PendingIn(paper', x) :
           o \in PendingIn(paper, x) \/ (lock[x] = o /\ OrderBoundary(o) > o /\ o \in Nat),
         \A x \in Symbol : \/ paper'.position[x] \in {paper.position[x], Flat}
                           \/ \A q \in Proc : task[q].stage = "bar" /\ task[q].sym = x =>
                                                paper'.position[x].mark + 1 >= task[q].bar
  PROVE  TimeInv'
<1>1. Timed(task[p])
  BY DEF TimeInv
<1>2. Timed(u)'
  BY <1>1 DEF Timed, Claimed
<1>3. Claimed(u) => Claimed(task[p])
  BY DEF Claimed
<1> QED
  BY <1>2, <1>3, SaveOthers

\* A save that ends the operation of the symbol.
LEMMA SaveServed ==
  ASSUME TimeInv, CycleInv', NEW p \in Proc, NEW u, task' = [task EXCEPT ![p] = u],
         UNCHANGED <<runs, lock, now>>,
         task[p].stage \notin {"down", "idle"}, u.stage = "tick", u.slot = task[p].slot, u.cycle = FALSE,
         \A x \in Symbol : Settles(x)
  PROVE  TimeInv'
<1>1. Timed(task[p]) /\ Exposure
  BY DEF TimeInv
<1>2. Timed(u)' /\ OrderRule(u)' /\ BarRule(u)' /\ ~Claimed(u)
  BY <1>1 DEF Timed, OrderRule, BarRule, Claimed, PastCancel
<1>3. Exposure'
  BY <1>1, SettlesKeeps
<1>4. \A x \in Symbol : /\ \A o \in PendingIn(paper', x) : o \in PendingIn(paper, x)
                        /\ paper'.position[x] \in {paper.position[x], Flat}
  BY DEF Settles
<1> QED
  BY <1>2, <1>3, <1>4, SaveOthers

\* What a save has at hand: the write of its stage and the fields of the new task.
LEMMA SaveFacts ==
  ASSUME TimeInv, NEW p \in Proc, Save(p)
  PROVE  /\ task[p] \in Task /\ LocalsOK(task[p]) /\ task[p].stage \in Writes
         /\ task[p].slot \in Slot /\ task[p].slot \in Nat /\ task[p].sym \in Symbol
         /\ Timed(task[p]) /\ OrderRule(task[p]) /\ BarRule(task[p]) /\ Exposure
         /\ paper \in Paper /\ paper' \in Results(task[p], paper)
         /\ task[p].cycle => Holds(task[p])
         /\ UNCHANGED <<runs, lock, now>>
         /\ \E u : /\ task' = [task EXCEPT ![p] = u]
                   /\ LET w == AfterWrite(task[p], paper') IN
                      /\ w \in Task
                      /\ u.stage = w.stage /\ u.slot = w.slot /\ u.sym = w.sym /\ u.cycle = w.cycle
                      /\ u.data = w.data /\ u.upto = w.upto /\ u.bar = w.bar /\ u.then = w.then
                      /\ u.blocked = w.blocked /\ u.held = w.held /\ u.stale = w.stale
<1> DEFINE t == task[p]
           w == AfterWrite(t, paper')
           acted == w.acted \/ t.stage = "close"
<1>1. t \in Task /\ LocalsOK(t) /\ t.stage \in Writes
  BY TaskOf DEF TimeInv, Save
<1>2. t.slot \in Slot /\ t.slot \in Nat /\ t.sym \in Symbol
  <2>1. t.slot \in Slot /\ t.sym \in Symbol
    BY <1>1 DEF LocalsOK, Writes
  <2> QED
    BY <2>1, SetsAssumption DEF Slot
<1>3. paper \in Paper /\ paper' \in Results(t, paper) /\ (t.cycle => Holds(t)) /\ UNCHANGED <<runs, lock, now>>
  BY DEF TimeInv, CycleInv, TypeOK, Save, SavePaper, Owns, Holds
<1>4. w \in Task
  BY <1>1, AfterWriteOK
<1>5. task' = [task EXCEPT ![p] = [w EXCEPT !.acted = acted]]
  BY DEF Save
<1>6. PICK u : u = [w EXCEPT !.acted = acted]
  OBVIOUS
<1> HIDE DEF w, acted
<1>7. /\ u.stage = w.stage /\ u.slot = w.slot /\ u.sym = w.sym /\ u.cycle = w.cycle
      /\ u.data = w.data /\ u.upto = w.upto /\ u.bar = w.bar /\ u.then = w.then
      /\ u.blocked = w.blocked /\ u.held = w.held /\ u.stale = w.stale
  BY <1>4, <1>6 DEF Task
<1>8. task' = [task EXCEPT ![p] = u]
  BY <1>5, <1>6
<1>9. Timed(t) /\ OrderRule(t) /\ BarRule(t) /\ Exposure
  BY DEF TimeInv
<1> QED
  BY <1>1, <1>2, <1>3, <1>4, <1>7, <1>8, <1>9 DEF w

\* The owner that is past its cancel stays there.
LEMMA SaveOrders ==
  ASSUME NEW p \in Proc, OrderRule(task[p]), NEW u, UNCHANGED <<runs, lock>>,
         PastCancel(u) => PastCancel(task[p]), u.slot = task[p].slot, u.sym = task[p].sym,
         PendingIn(paper', u.sym) \subseteq PendingIn(paper, u.sym)
  PROVE  OrderRule(u)'
BY DEF OrderRule, Holds

LEMMA SaveBarTime ==
  ASSUME TimeInv, CycleInv', NEW p \in Proc, Save(p), task[p].stage = "bar"
  PROVE  TimeInv'
<1> DEFINE t == task[p]
           s == t.sym
<1>0. /\ t \in Task /\ LocalsOK(t) /\ t.slot \in Nat /\ s \in Symbol
      /\ Timed(t) /\ OrderRule(t) /\ BarRule(t) /\ Exposure
      /\ paper \in Paper /\ paper' \in Results(t, paper) /\ UNCHANGED <<runs, lock, now>>
  BY SaveFacts
<1>1. PICK u : /\ task' = [task EXCEPT ![p] = u]
               /\ LET w == AfterWrite(t, paper') IN
                  /\ w \in Task
                  /\ u.stage = w.stage /\ u.slot = w.slot /\ u.sym = w.sym /\ u.cycle = w.cycle
                  /\ u.data = w.data /\ u.upto = w.upto /\ u.bar = w.bar /\ u.then = w.then
                  /\ u.blocked = w.blocked /\ u.held = w.held /\ u.stale = w.stale
  BY SaveFacts
<1>2. paper' \in BarResults(paper, s, t.bar)
  BY <1>0 DEF Results
<1>3. /\ paper.position[s] # Flat /\ ~(t.bar <= paper.position[s].mark) /\ paper'.order = paper.order
      /\ \A x \in Symbol : x # s => Settles(x)
      /\ PendingIn(paper', s) = PendingIn(paper, s)
      /\ paper'.position[s] = Flat \/ paper'.position[s] = [paper.position[s] EXCEPT !.mark = t.bar]
  BY <1>0, <1>2, BarEffect
<1>4. t.bar \in Nat /\ paper.position[s].mark \in Nat /\ paper.position[s] \in Ledger!Position
  <2>1. paper.position[s] \in Ledger!Position
    BY <1>0, <1>3 DEF Paper
  <2> QED
    BY <1>0, <2>1, SetsAssumption DEF Task, Ledger!Position, Ledger!Slot
<1>5. PendingIn(paper, s) = {} /\ PendingIn(paper', s) = {}
  BY <1>0, <1>3 DEF Exposure
<1>6. Exposure'
  <2> SUFFICES ASSUME NEW x \in Symbol
               PROVE  /\ \A a, b \in PendingIn(paper', x) : a = b
                      /\ paper'.position[x] # Flat => PendingIn(paper', x) = {}
    BY DEF Exposure
  <2>1. CASE x = s
    BY <1>5, <2>1
  <2>2. CASE x # s
    BY <1>0, <1>3, <2>2 DEF Exposure, Settles
  <2> QED
    BY <2>1, <2>2
<1>7. \A x \in Symbol : \A o \in PendingIn(paper', x) : o \in PendingIn(paper, x)
  BY <1>3, <1>5 DEF Settles
<1>8. paper'.position[s] # Flat => paper'.position[s].mark = t.bar
  BY <1>3, <1>4 DEF Ledger!Position
<1>9. \A x \in Symbol : \/ paper'.position[x] \in {paper.position[x], Flat}
                        \/ \A q \in Proc : task[q].stage = "bar" /\ task[q].sym = x =>
                                             paper'.position[x].mark + 1 >= task[q].bar
  <2> SUFFICES ASSUME paper'.position[s] # Flat, NEW q \in Proc, task[q].stage = "bar", task[q].sym = s
               PROVE  paper'.position[s].mark + 1 >= task[q].bar
    BY <1>3 DEF Settles
  <2>1. BarRule(task[q]) /\ task[q] \in Task
    BY TaskOf DEF TimeInv
  <2>2. paper.position[s].mark + 1 >= task[q].bar /\ task[q].bar \in Nat
    BY <1>3, <2>1 DEF BarRule, Task
  <2> QED
    BY <1>3, <1>4, <1>8, <2>2
<1>10. t.upto <= t.data
  BY <1>0 DEF Timed
<1>11. CASE paper'.position[s] = Flat \/ t.bar = t.upto
  <2>1. AfterWrite(t, paper') = At(t, t.then)
    BY <1>11 DEF AfterWrite
  <2>2. t.then \in {"size", "close", "pause_close"} /\ t.then \in Stages
    BY <1>0 DEF LocalsOK, Task
  <2>3. /\ u.stage = t.then /\ u.slot = t.slot /\ u.sym = s /\ u.cycle = t.cycle /\ u.data = t.data
        /\ u.blocked = t.blocked
    <3> DEFINE v == At(t, t.then)
    <3>1. /\ v.stage = t.then /\ v.slot = t.slot /\ v.sym = s /\ v.cycle = t.cycle /\ v.data = t.data
          /\ v.blocked = t.blocked
      BY <1>0, <2>2, AtAll
    <3> QED
      BY <1>1, <2>1, <3>1
  <2>4. PastCancel(u) => PastCancel(t)
    BY <2>2, <2>3 DEF PastCancel, AfterData
  <2>5. OrderRule(u)'
    BY <1>0, <1>5, <2>3, <2>4, SaveOrders
  <2>6. BarRule(u)'
    BY <2>2, <2>3 DEF BarRule
  <2> QED
    BY <1>0, <1>1, <1>6, <1>7, <1>9, <2>2, <2>3, <2>5, <2>6, SaveOn
<1>12. CASE ~(paper'.position[s] = Flat \/ t.bar = t.upto)
  <2> DEFINE v == At(t, "bar")
  <2>1. AfterWrite(t, paper') = [v EXCEPT !.bar = @ + 1, !.stale = t.stale]
    BY <1>12 DEF AfterWrite
  <2>2. "bar" \in Stages
    BY DEF Stages
  <2>3. /\ v \in Task /\ v.stage = "bar" /\ v.slot = t.slot /\ v.sym = s /\ v.cycle = t.cycle /\ v.data = t.data
        /\ v.blocked = t.blocked /\ v.upto = t.upto /\ v.bar = t.bar /\ v.then = t.then
    BY <1>0, <2>2, AtAll, AtType
  <2> HIDE DEF v
  <2>4. /\ u.stage = "bar" /\ u.slot = t.slot /\ u.sym = s /\ u.cycle = t.cycle /\ u.data = t.data
        /\ u.blocked = t.blocked /\ u.upto = t.upto /\ u.bar = t.bar + 1 /\ u.then = t.then
    BY <1>1, <2>1, <2>3 DEF Task
  <2>5. PastCancel(u) => PastCancel(t)
    BY <2>4 DEF PastCancel, AfterData
  <2>6. OrderRule(u)'
    BY <1>0, <1>5, <2>4, <2>5, SaveOrders
  <2>7. BarRule(u)'
    BY <1>4, <1>8, <2>4 DEF BarRule
  <2> QED
    BY <1>0, <1>1, <1>5, <1>6, <1>7, <1>9, <1>10, <2>4, <2>6, <2>7, SaveOn
<1> QED
  BY <1>11, <1>12

LEMMA SaveCloseTime ==
  ASSUME TimeInv, CycleInv', NEW p \in Proc, Save(p), task[p].stage \in {"close", "pause_close"}
  PROVE  TimeInv'
<1> DEFINE t == task[p]
           s == t.sym
<1>0. /\ t \in Task /\ LocalsOK(t) /\ s \in Symbol /\ OrderRule(t) /\ Exposure
      /\ paper \in Paper /\ paper' \in Results(t, paper) /\ UNCHANGED <<runs, lock, now>>
  BY SaveFacts
<1>1. PICK u : /\ task' = [task EXCEPT ![p] = u]
               /\ LET w == AfterWrite(t, paper') IN
                  /\ w \in Task
                  /\ u.stage = w.stage /\ u.slot = w.slot /\ u.sym = w.sym /\ u.cycle = w.cycle
                  /\ u.data = w.data /\ u.upto = w.upto /\ u.bar = w.bar /\ u.then = w.then
                  /\ u.blocked = w.blocked /\ u.held = w.held /\ u.stale = w.stale
  BY SaveFacts
<1>2. paper' \in Booked(paper, s)
  BY <1>0 DEF Results, CloseResults, PauseCloseResults
<1>3. \A x \in Symbol : Settles(x)
  BY <1>0, <1>2, BookedEffect
<1>4. /\ Exposure'
      /\ \A x \in Symbol : /\ \A o \in PendingIn(paper', x) : o \in PendingIn(paper, x)
                           /\ paper'.position[x] \in {paper.position[x], Flat}
  BY <1>0, <1>3, SettlesKeeps DEF Settles
<1>5. CASE t.stage = "close"
  <2> DEFINE v == At(t, "duration")
  <2>1. AfterWrite(t, paper') = v
    BY <1>5 DEF AfterWrite
  <2>2. "duration" \in Stages
    BY DEF Stages
  <2>3. v.stage = "duration" /\ v.slot = t.slot /\ v.sym = s /\ v.cycle = t.cycle /\ v.data = t.data
    BY <1>0, <2>2, AtAll
  <2>4. u.stage = "duration" /\ u.slot = t.slot /\ u.sym = s /\ u.cycle = t.cycle /\ u.data = t.data
    BY <1>1, <2>1, <2>3
  <2>5. OrderRule(u)' /\ BarRule(u)'
    BY <2>4 DEF OrderRule, BarRule, PastCancel, AfterData
  <2> QED
    BY <1>0, <1>1, <1>4, <1>5, <2>4, <2>5, SaveOn
<1>6. CASE t.stage = "pause_close"
  <2>1. AfterWrite(t, paper') = Served(t)
    BY <1>6 DEF AfterWrite
  <2>2. Served(t).stage = "tick" /\ Served(t).slot = t.slot /\ Served(t).cycle = FALSE
    BY ServedAll
  <2>3. u.stage = "tick" /\ u.slot = t.slot /\ u.cycle = FALSE
    BY <1>1, <2>1, <2>2
  <2> QED
    BY <1>0, <1>1, <1>3, <1>6, <2>3, SaveServed
<1> QED
  BY <1>5, <1>6

LEMMA SaveCancelTime ==
  ASSUME TimeInv, CycleInv', NEW p \in Proc, Save(p), task[p].stage \in {"cancel", "pause_cancel"}
  PROVE  TimeInv'
<1> DEFINE t == task[p]
           s == t.sym
           due == IF t.stage = "cancel" THEN DueIn(paper, s, t.slot) ELSE PendingIn(paper, s)
<1>0. /\ t \in Task /\ LocalsOK(t) /\ s \in Symbol /\ t.slot \in Nat /\ OrderRule(t) /\ Exposure
      /\ paper \in Paper /\ paper' \in Results(t, paper) /\ UNCHANGED <<runs, lock, now>>
  BY SaveFacts
<1>1. PICK u : /\ task' = [task EXCEPT ![p] = u]
               /\ LET w == AfterWrite(t, paper') IN
                  /\ w \in Task
                  /\ u.stage = w.stage /\ u.slot = w.slot /\ u.sym = w.sym /\ u.cycle = w.cycle
                  /\ u.data = w.data /\ u.upto = w.upto /\ u.bar = w.bar /\ u.then = w.then
                  /\ u.blocked = w.blocked /\ u.held = w.held /\ u.stale = w.stale
  BY SaveFacts
<1>2. paper' \in CancelResults(paper, s, due)
  BY <1>0 DEF Results
<1>3. (\A x \in Symbol : Settles(x)) /\ PendingIn(paper', s) \cap due = {}
  <2> HIDE DEF due
  <2> QED
    BY <1>0, <1>2, CancelEffect
<1>4. /\ Exposure'
      /\ \A x \in Symbol : /\ \A o \in PendingIn(paper', x) : o \in PendingIn(paper, x)
                           /\ paper'.position[x] \in {paper.position[x], Flat}
  BY <1>0, <1>3, SettlesKeeps DEF Settles
<1>5. ASSUME AfterWrite(t, paper') = Served(t) PROVE TimeInv'
  <2>1. Served(t).stage = "tick" /\ Served(t).slot = t.slot /\ Served(t).cycle = FALSE
    BY ServedAll
  <2>2. u.stage = "tick" /\ u.slot = t.slot /\ u.cycle = FALSE
    BY <1>1, <1>5, <2>1
  <2> QED
    BY <1>0, <1>1, <1>3, <2>2, SaveServed
<1>6. ASSUME AfterWrite(t, paper') = At(t, "duration") PROVE TimeInv'
  <2> DEFINE v == At(t, "duration")
  <2>1. "duration" \in Stages
    BY DEF Stages
  <2>2. v.stage = "duration" /\ v.slot = t.slot /\ v.sym = s /\ v.cycle = t.cycle /\ v.data = t.data
    BY <1>0, <2>1, AtAll
  <2>3. u.stage = "duration" /\ u.slot = t.slot /\ u.sym = s /\ u.cycle = t.cycle /\ u.data = t.data
    BY <1>1, <1>6, <2>2
  <2>4. OrderRule(u)' /\ BarRule(u)'
    BY <2>3 DEF OrderRule, BarRule, PastCancel, AfterData
  <2> QED
    BY <1>0, <1>1, <1>4, <2>3, <2>4, SaveOn
<1>7. ASSUME NEW stage \in {"size", "pause_close"}, AfterWrite(t, paper') = CatchUpTo(t, t.slot, stage),
             t.data \in Slot, stage = "size" => t.stage = "cancel"
      PROVE  TimeInv'
  <2> DEFINE v == CatchUpTo(t, t.slot, stage)
  <2>1. stage \in Stages
    BY DEF Stages
  <2>2. /\ v.stage = "catch_up" /\ v.slot = t.slot /\ v.sym = t.sym /\ v.cycle = t.cycle
        /\ v.data = t.data /\ v.upto = Min(t.slot, t.data) /\ v.then = stage
    <3> HIDE DEF t
    <3> QED
      BY <1>0, <2>1, CatchAll
  <2>3. /\ u.stage = "catch_up" /\ u.slot = t.slot /\ u.sym = t.sym /\ u.cycle = t.cycle
        /\ u.data = t.data /\ u.upto = Min(t.slot, t.data) /\ u.then = stage
    BY <1>1, <1>7, <2>2
  <2>4. u.upto <= u.data
    <3>1. t.data \in Nat
      BY <1>7, SetsAssumption DEF Slot
    <3> QED
      BY <1>0, <2>3, <3>1, MinOf
  <2>5. BarRule(u)'
    BY <2>3 DEF BarRule
  <2>6. OrderRule(u)'
    <3> SUFFICES ASSUME PastCancel(u), NEW o \in PendingIn(paper', u.sym)
                 PROVE  OrderBoundary(o) > u.slot
      BY DEF OrderRule
    <3>1. t.stage = "cancel"
      BY <1>7, <2>3 DEF PastCancel, AfterData
    <3>2. o \in PendingIn(paper, s) /\ o \notin DueIn(paper, s, t.slot)
      BY <1>0, <1>3, <1>4, <2>3, <3>1
    <3>3. ~(OrderBoundary(o) <= t.slot) /\ o \in Slot
      BY <3>2 DEF DueIn, PendingIn
    <3>4. OrderBoundary(o) \in Nat
      BY <3>3, FlattenFromType DEF OrderBoundary
    <3> QED
      BY <1>0, <2>3, <3>3, <3>4
  <2> QED
    BY <1>0, <1>1, <1>4, <2>3, <2>4, <2>5, <2>6, SaveOn
<1>8. CASE t.stage = "cancel"
  <2>1. t.cycle => t.data \in Slot
    BY <1>0, <1>8 DEF LocalsOK
  <2> QED
    BY <1>5, <1>6, <1>7, <1>8, <2>1 DEF AfterWrite
<1>9. CASE t.stage = "pause_cancel"
  <2>1. t.pos # NoSlot => t.data \in Slot
    BY <1>0, <1>9 DEF LocalsOK
  <2> QED
    BY <1>5, <1>7, <1>9, <2>1 DEF AfterWrite
<1> QED
  BY <1>8, <1>9

\* A fill prices the order on the bar of the slot, before the order is due.
LEMMA FillFacts ==
  ASSUME TimeInv, NEW p \in Proc, Save(p), task[p].stage = "fill"
  PROVE  /\ task[p].data = task[p].slot /\ task[p].cycle /\ ~task[p].blocked
         /\ Claimed(task[p]) /\ PastCancel(task[p]) /\ Holds(task[p])
         /\ paper' \in FillResults(paper, task[p].sym, task[p].slot)
         /\ \A o \in PendingIn(paper, task[p].sym) : OrderBoundary(o) > task[p].slot
<1> DEFINE t == task[p]
<1>0. /\ LocalsOK(t) /\ Timed(t) /\ OrderRule(t) /\ paper' \in Results(t, paper)
      /\ (t.cycle => Holds(t))
  BY SaveFacts
<1>1. t.cycle /\ ~t.blocked
  BY <1>0 DEF LocalsOK, AfterData, Timed
<1>2. Claimed(t) /\ PastCancel(t) /\ Holds(t)
  BY <1>0, <1>1 DEF Claimed, PastCancel, AfterData
<1>3. t.data = t.slot
  BY <1>0, <1>2 DEF Timed
<1>4. paper' \in FillResults(paper, t.sym, t.slot)
  BY <1>0, <1>3 DEF Results
<1> QED
  BY <1>0, <1>1, <1>2, <1>3, <1>4 DEF OrderRule

LEMMA SaveFillTime ==
  ASSUME TimeInv, CycleInv', NEW p \in Proc, Save(p), task[p].stage = "fill"
  PROVE  TimeInv'
<1> DEFINE t == task[p]
           s == t.sym
<1>0. /\ t \in Task /\ s \in Symbol /\ t.slot \in Nat /\ OrderRule(t) /\ Exposure
      /\ paper \in Paper /\ UNCHANGED <<runs, lock, now>>
  BY SaveFacts
<1>1. PICK u : /\ task' = [task EXCEPT ![p] = u]
               /\ LET w == AfterWrite(t, paper') IN
                  /\ w \in Task
                  /\ u.stage = w.stage /\ u.slot = w.slot /\ u.sym = w.sym /\ u.cycle = w.cycle
                  /\ u.data = w.data /\ u.upto = w.upto /\ u.bar = w.bar /\ u.then = w.then
                  /\ u.blocked = w.blocked /\ u.held = w.held /\ u.stale = w.stale
  BY SaveFacts
<1>2. /\ t.data = t.slot /\ t.cycle /\ Claimed(t) /\ PastCancel(t) /\ Holds(t)
      /\ paper' \in FillResults(paper, s, t.slot)
  BY FillFacts
<1>3. PICK o \in PendingIn(paper, s) :
        /\ t.slot > o /\ o \notin PendingIn(paper', s)
        /\ \A x \in Symbol : x # s => Settles(x)
        /\ \A x \in Symbol : PendingIn(paper', x) \subseteq PendingIn(paper, x)
        /\ paper'.position[s] \in {paper.position[s], [run |-> o, opened |-> t.slot, mark |-> t.slot]}
  BY <1>0, <1>2, FillEffect, SMTT(40)
<1>4. PendingIn(paper', s) = {}
  BY <1>0, <1>3 DEF Exposure
<1>5. Exposure'
  <2> SUFFICES ASSUME NEW x \in Symbol
               PROVE  /\ \A a, b \in PendingIn(paper', x) : a = b
                      /\ paper'.position[x] # Flat => PendingIn(paper', x) = {}
    BY DEF Exposure
  <2>1. CASE x = s
    BY <1>4, <2>1
  <2>2. CASE x # s
    BY <1>0, <1>3, <2>2 DEF Exposure, Settles
  <2> QED
    BY <2>1, <2>2
<1>6. \A x \in Symbol : \/ paper'.position[x] \in {paper.position[x], Flat}
                        \/ \A q \in Proc : task[q].stage = "bar" /\ task[q].sym = x =>
                                             paper'.position[x].mark + 1 >= task[q].bar
  <2> SUFFICES ASSUME paper'.position[s] = [run |-> o, opened |-> t.slot, mark |-> t.slot],
                      NEW q \in Proc, task[q].stage = "bar", task[q].sym = s
               PROVE  paper'.position[s].mark + 1 >= task[q].bar
    BY <1>3 DEF Settles
  <2>1. FillRule(task[q], t) /\ task[q] \in Task
    BY TaskOf DEF TimeInv
  <2>2. o < t.slot
    <3>1. o \in Nat
      BY SetsAssumption DEF PendingIn, Slot
    <3> QED
      BY <1>0, <1>3, <3>1
  <2>3. task[q].bar <= t.slot + 1 /\ task[q].bar \in Nat
    BY <1>2, <2>1, <2>2 DEF FillRule, Task
  <2>4. paper'.position[s].mark = t.slot
    OBVIOUS
  <2> QED
    BY <1>0, <2>3, <2>4
<1>7. u.stage = "choose" /\ u.slot = t.slot /\ u.sym = s /\ u.cycle = t.cycle /\ u.data = t.data
  <2> DEFINE v == At(t, "choose")
  <2>1. AfterWrite(t, paper') = v
    BY DEF AfterWrite
  <2>2. "choose" \in Stages
    BY DEF Stages
  <2>3. v.stage = "choose" /\ v.slot = t.slot /\ v.sym = s /\ v.cycle = t.cycle /\ v.data = t.data
    BY <1>0, <2>2, AtAll
  <2> QED
    BY <1>1, <2>1, <2>3
<1>8. OrderRule(u)'
  BY <1>4, <1>7 DEF OrderRule
<1>9. BarRule(u)'
  BY <1>7 DEF BarRule
<1>10. \A x \in Symbol : \A a \in PendingIn(paper', x) : a \in PendingIn(paper, x)
  BY <1>3
<1> QED
  BY <1>0, <1>1, <1>5, <1>6, <1>7, <1>8, <1>9, <1>10, SaveOn

LEMMA SaveSubmitTime ==
  ASSUME TimeInv, CycleInv', NEW p \in Proc, Save(p), task[p].stage = "submit"
  PROVE  TimeInv'
<1> DEFINE t == task[p]
           s == t.sym
<1>0. /\ t \in Task /\ LocalsOK(t) /\ s \in Symbol /\ t.slot \in Slot /\ t.slot \in Nat /\ OrderRule(t) /\ Exposure
      /\ paper \in Paper /\ paper' \in Results(t, paper) /\ (t.cycle => Holds(t))
      /\ UNCHANGED <<runs, lock, now>>
  BY SaveFacts
<1>1. PICK u : /\ task' = [task EXCEPT ![p] = u]
               /\ LET w == AfterWrite(t, paper') IN
                  /\ w \in Task
                  /\ u.stage = w.stage /\ u.slot = w.slot /\ u.sym = w.sym /\ u.cycle = w.cycle
                  /\ u.data = w.data /\ u.upto = w.upto /\ u.bar = w.bar /\ u.then = w.then
                  /\ u.blocked = w.blocked /\ u.held = w.held /\ u.stale = w.stale
  BY SaveFacts
<1>2. t.cycle /\ t.slot \notin Weekend
  BY <1>0 DEF LocalsOK, AfterData
<1>3. lock[s] = t.slot /\ OrderBoundary(t.slot) > t.slot
  BY <1>0, <1>2, FlattenFromAbove DEF Holds, OrderBoundary
<1>4. paper' \in SubmitResults(paper, s, t.slot, t.sized)
  BY <1>0 DEF Results
<1>5. /\ \A x \in Symbol : x # s => Settles(x)
      /\ paper.position[s] = Flat /\ paper'.position[s] = Flat /\ PendingIn(paper', s) = {t.slot}
  BY <1>0, <1>4, SubmitEffect
<1>6. Exposure'
  <2> SUFFICES ASSUME NEW x \in Symbol
               PROVE  /\ \A a, b \in PendingIn(paper', x) : a = b
                      /\ paper'.position[x] # Flat => PendingIn(paper', x) = {}
    BY DEF Exposure
  <2>1. CASE x = s
    BY <1>5, <2>1
  <2>2. CASE x # s
    BY <1>0, <1>5, <2>2 DEF Exposure, Settles
  <2> QED
    BY <2>1, <2>2
<1>7. u.stage = "finish" /\ u.slot = t.slot /\ u.sym = s /\ u.cycle = t.cycle /\ u.data = t.data
  <2> DEFINE v == At(t, "finish")
  <2>1. AfterWrite(t, paper') = v
    BY DEF AfterWrite
  <2>2. "finish" \in Stages
    BY DEF Stages
  <2>3. v.stage = "finish" /\ v.slot = t.slot /\ v.sym = s /\ v.cycle = t.cycle /\ v.data = t.data
    BY <1>0, <2>2, AtAll
  <2> QED
    BY <1>1, <2>1, <2>3
<1>8. OrderRule(u)' /\ BarRule(u)'
  BY <1>7 DEF OrderRule, BarRule, PastCancel, AfterData
<1>9. \A x \in Symbol : /\ \A o \in PendingIn(paper', x) :
                             o \in PendingIn(paper, x) \/ (lock[x] = o /\ OrderBoundary(o) > o /\ o \in Nat)
                        /\ paper'.position[x] \in {paper.position[x], Flat}
  BY <1>0, <1>3, <1>5 DEF Settles
<1> QED
  BY <1>0, <1>1, <1>6, <1>7, <1>8, <1>9, SaveOn

-----------------------------------------------------------------------------
\* The invariant and what it gives for any number of runtimes.

LEMMA TimeInit == Init => TimeInv
<1> SUFFICES ASSUME Init PROVE TimeInv
  OBVIOUS
<1>1. CycleInv
  BY InitInv
<1>2. PICK first \in [Symbol -> {"NONE", "PENDING", "FILLED"}], e \in Equity :
        paper = [order |-> [s \in Symbol |-> [t \in Slot |-> IF t = 0 THEN first[s] ELSE "NONE"]],
                 position |-> [s \in Symbol |-> IF first[s] = "FILLED"
                                                THEN [run |-> 0, opened |-> 0, mark |-> 0] ELSE Flat],
                 trades |-> [s \in Symbol |-> [t \in Slot |-> 0]],
                 equity |-> e]
  BY DEF Init
<1>3. Exposure
  <2> SUFFICES ASSUME NEW s \in Symbol
               PROVE  /\ \A t, u \in PendingIn(paper, s) : t = u
                      /\ paper.position[s] # Flat => PendingIn(paper, s) = {}
    BY DEF Exposure
  <2>1. \A t \in PendingIn(paper, s) : t = 0 /\ first[s] = "PENDING"
    BY <1>2 DEF PendingIn
  <2>2. first[s] = "PENDING" => paper.position[s] = Flat
    BY <1>2
  <2> QED
    BY <2>1, <2>2
<1>4. \A p \in Proc : task[p].stage = "down" /\ ~task[p].cycle
  BY DEF Init, Down, Resting
<1>5. ASSUME NEW p \in Proc PROVE Timed(task[p]) /\ OrderRule(task[p]) /\ BarRule(task[p])
  BY <1>4 DEF Timed, OrderRule, BarRule, Claimed, PastCancel
<1>6. ASSUME NEW p \in Proc, NEW q \in Proc PROVE FillRule(task[p], task[q])
  BY <1>4 DEF FillRule
<1> QED
  BY <1>1, <1>3, <1>5, <1>6 DEF TimeInv

LEMMA TimeNext == TimeInv /\ [Next]_vars => TimeInv'
<1> SUFFICES ASSUME TimeInv, [Next]_vars PROVE TimeInv'
  OBVIOUS
<1>0. CycleInv'
  BY NextInv DEF TimeInv
<1>1. ASSUME NEW p \in Proc, Save(p) PROVE TimeInv'
  <2>1. task[p].stage \in Writes
    BY <1>1 DEF Save
  <2> QED
    BY <1>0, <1>1, <2>1, SaveBarTime, SaveCloseTime, SaveCancelTime, SaveFillTime, SaveSubmitTime DEF Writes
<1>2. ASSUME NEW p \in Proc, Step(p) PROVE TimeInv'
  <2>1. ASSUME NEW s \in Symbol, StartPaused(p, s) \/ StartManage(p, s) \/ StartCycle(p, s) PROVE TimeInv'
    BY <1>0, <2>1, PausedTime, ManageTime, StartCycleTime
  <2>2. CASE StartTick(p) \/ EndTick(p) \/ Data(p) \/ Duration(p) \/ CatchUp(p)
    BY <1>0, <2>2, TickTime, DataTime, DurationTime, CatchUpTime
  <2>3. CASE Size(p) \/ Gate(p) \/ Choose(p) \/ Finish(p)
    BY <1>0, <2>3, SizeTime, GateTime, ChooseTime, FinishTime
  <2>4. CASE Load(p) \/ Stale(p) \/ NotOwner(p)
    BY <1>0, <2>4, LoadTime, StaleTime, NotOwnerTime
  <2> QED
    BY <1>1, <1>2, <2>1, <2>2, <2>3, <2>4 DEF Step
<1>3. ASSUME NEW p \in Proc, Start(p) \/ Crash(p) PROVE TimeInv'
  BY <1>0, <1>3, StartTime
<1>4. CASE Clock \/ UNCHANGED vars
  BY <1>0, <1>4, ClockTime
<1> QED
  BY <1>2, <1>3, <1>4 DEF Next

\* Along every behaviour of any number of runtimes the locals agree with the clock and
\* the owner of a symbol that is past its cancel sees no due order: the inductive
\* invariant behind the next two theorems.
THEOREM TimeInvariant == Spec => []TimeInv
<1>1. Init => TimeInv
  BY TimeInit
<1>2. TimeInv /\ [Next]_vars => TimeInv'
  BY TimeNext
<1> QED
  BY <1>1, <1>2, PTL DEF Spec

\* No order fills on a bar at or after the boundary that cancels it, however stale the
\* cancel of one runtime was and whatever another one wrote meanwhile
\* (_cancel_due_orders before any fill, service.py).
THEOREM FilledInTimeHolds == Spec => FilledInTime
<1> DEFINE InTime == \A s \in Symbol, t \in Slot :
         paper.order[s][t] = "PENDING" /\ paper'.order[s][t] = "FILLED"
           => paper'.position[s].opened < OrderBoundary(t)
<1>1. TimeInv /\ [Next]_vars => [InTime]_vars
  <2> SUFFICES ASSUME TimeInv, [Next]_vars,
                      NEW s \in Symbol, NEW t \in Slot,
                      paper.order[s][t] = "PENDING", paper'.order[s][t] = "FILLED"
               PROVE  paper'.position[s].opened < OrderBoundary(t)
    OBVIOUS
  <2>1. PICK p \in Proc : Save(p)
    BY OnlySave
  <2>2. /\ task[p].stage \in Writes /\ task[p].sym \in Symbol /\ task[p].slot \in Slot /\ task[p].slot \in Nat
        /\ paper \in Paper /\ paper' \in Results(task[p], paper)
    BY <2>1, SaveFacts
  <2>3. task[p].stage = "fill"
    <3>1. task[p].stage # "bar"
      BY <2>2, BarEffect DEF Results
    <3>2. task[p].stage \notin {"close", "pause_close"}
      <4>1. task[p].stage \in {"close", "pause_close"} => paper' \in Booked(paper, task[p].sym)
        BY <2>2 DEF Results, CloseResults, PauseCloseResults
      <4> QED
        BY <2>2, <4>1, BookedEffect
    <3>3. task[p].stage \notin {"cancel", "pause_cancel"}
      <4> SUFFICES ASSUME task[p].stage \in {"cancel", "pause_cancel"} PROVE FALSE
        OBVIOUS
      <4>1. PICK due : paper' \in CancelResults(paper, task[p].sym, due)
        BY <2>2 DEF Results
      <4>2. paper' = [paper EXCEPT !.order[task[p].sym] =
                        [r \in Slot |-> IF r \in due THEN "CANCELLED" ELSE @[r]]]
        BY <4>1 DEF CancelResults
      <4>3. paper'.order = [paper.order EXCEPT ![task[p].sym] =
                        [r \in Slot |-> IF r \in due THEN "CANCELLED" ELSE paper.order[task[p].sym][r]]]
        BY <2>2, <4>2 DEF Paper
      <4>4. paper.order \in [Symbol -> [Slot -> Ledger!OrderStatus]]
        BY <2>2 DEF Paper
      <4> QED
        BY <2>2, <4>3, <4>4
    <3>4. task[p].stage # "submit"
      <4> SUFFICES ASSUME task[p].stage = "submit" PROVE FALSE
        OBVIOUS
      <4>1. paper' \in SubmitResults(paper, task[p].sym, task[p].slot, task[p].sized)
        BY <2>2 DEF Results
      <4> QED
        BY <2>2, <4>1, SubmitEffect
    <3> QED
      BY <2>2, <3>1, <3>2, <3>3, <3>4 DEF Writes
  <2>4. /\ paper' \in FillResults(paper, task[p].sym, task[p].slot)
        /\ \A o \in PendingIn(paper, task[p].sym) : OrderBoundary(o) > task[p].slot
    BY <2>1, <2>3, FillFacts
  <2>5. PICK o \in PendingIn(paper, task[p].sym) :
          \/ \A x \in Symbol, r \in Slot : paper'.order[x][r] = "FILLED" => paper.order[x][r] = "FILLED"
          \/ /\ paper'.position[task[p].sym] = [run |-> o, opened |-> task[p].slot, mark |-> task[p].slot]
             /\ \A x \in Symbol, r \in Slot :
                  paper'.order[x][r] = "FILLED" => paper.order[x][r] = "FILLED" \/ (x = task[p].sym /\ r = o)
    BY <2>2, <2>4, FillEffect
  <2>6. /\ paper'.position[task[p].sym] = [run |-> o, opened |-> task[p].slot, mark |-> task[p].slot]
        /\ s = task[p].sym /\ t = o
    BY <2>5
  <2>7. OrderBoundary(t) > task[p].slot /\ paper'.position[s].opened = task[p].slot /\ OrderBoundary(t) \in Nat
    BY <2>4, <2>6, FlattenFromType DEF OrderBoundary
  <2> QED
    BY <2>2, <2>7
<1> QED
  BY <1>1, TimeInvariant, PTL DEF Spec, FilledInTime

\* A position sees every bar once and in order, whoever applies them and however a
\* pass, a cycle and a fill of other runtimes interleave (position_catch_up.py).
THEOREM BarsInSequenceHolds == Spec => BarsInSequence
<1> DEFINE InSequence == \A s \in Symbol :
         paper.position[s] # Flat /\ paper'.position[s] # Flat /\ paper.position[s] # paper'.position[s]
           => paper'.position[s] = [paper.position[s] EXCEPT !.mark = @ + 1]
<1>1. TimeInv /\ [Next]_vars => [InSequence]_vars
  <2> SUFFICES ASSUME TimeInv, [Next]_vars,
                      NEW s \in Symbol, paper.position[s] # Flat, paper'.position[s] # Flat,
                      paper.position[s] # paper'.position[s]
               PROVE  paper'.position[s] = [paper.position[s] EXCEPT !.mark = @ + 1]
    OBVIOUS
  <2>1. PICK p \in Proc : Save(p)
    BY OnlySave
  <2>2. /\ task[p].stage \in Writes /\ task[p].sym \in Symbol /\ task[p].slot \in Slot /\ task[p] \in Task
        /\ paper \in Paper /\ paper' \in Results(task[p], paper) /\ BarRule(task[p]) /\ Exposure
    BY <2>1, SaveFacts
  <2>3. CASE task[p].stage = "bar"
    <3>1. paper' \in BarResults(paper, task[p].sym, task[p].bar)
      BY <2>2, <2>3 DEF Results
    <3>2. /\ ~(task[p].bar <= paper.position[task[p].sym].mark)
          /\ \A x \in Symbol : x # task[p].sym => Settles(x)
          /\ \/ paper'.position[task[p].sym] = Flat
             \/ paper'.position[task[p].sym] = [paper.position[task[p].sym] EXCEPT !.mark = task[p].bar]
      BY <2>2, <3>1, BarEffect
    <3>3. s = task[p].sym
      BY <3>2 DEF Settles
    <3>4. paper.position[s].mark \in Nat /\ task[p].bar \in Nat
      <4>1. paper.position[s] \in Ledger!Position
        BY <2>2 DEF Paper
      <4> QED
        BY <2>2, <4>1, SetsAssumption DEF Task, Ledger!Position, Ledger!Slot
    <3>5. paper.position[s].mark + 1 >= task[p].bar
      BY <2>2, <2>3, <3>3 DEF BarRule
    <3>6. task[p].bar = paper.position[s].mark + 1
      BY <3>2, <3>3, <3>4, <3>5
    <3> QED
      BY <3>2, <3>3, <3>6
  <2>4. CASE task[p].stage = "fill"
    <3>1. paper' \in FillResults(paper, task[p].sym, task[p].slot)
      BY <2>1, <2>4, FillFacts
    <3>2. \E o \in PendingIn(paper, task[p].sym) : \A x \in Symbol : x # task[p].sym => Settles(x)
      BY <2>2, <3>1, FillEffect
    <3>3. s = task[p].sym
      BY <3>2 DEF Settles
    <3> QED
      BY <2>2, <3>2, <3>3 DEF Exposure
  <2>5. CASE task[p].stage \notin {"bar", "fill"}
    <3>1. CASE task[p].stage \in {"close", "pause_close"}
      <4>1. paper' \in Booked(paper, task[p].sym)
        BY <2>2, <3>1 DEF Results, CloseResults, PauseCloseResults
      <4>2. \A x \in Symbol : Settles(x)
        BY <2>2, <4>1, BookedEffect
      <4> QED
        BY <4>2 DEF Settles
    <3>2. CASE task[p].stage \in {"cancel", "pause_cancel"}
      <4>1. PICK due : paper' \in CancelResults(paper, task[p].sym, due)
        BY <2>2, <3>2 DEF Results
      <4>2. \A x \in Symbol : Settles(x)
        BY <2>2, <4>1, CancelEffect
      <4> QED
        BY <4>2 DEF Settles
    <3>3. CASE task[p].stage = "submit"
      <4>1. paper' \in SubmitResults(paper, task[p].sym, task[p].slot, task[p].sized)
        BY <2>2, <3>3 DEF Results
      <4>2. /\ \A x \in Symbol : x # task[p].sym => Settles(x)
            /\ paper'.position[task[p].sym] = Flat
        BY <2>2, <4>1, SubmitEffect
      <4> QED
        BY <4>2 DEF Settles
    <3> QED
      BY <2>2, <2>5, <3>1, <3>2, <3>3 DEF Writes
  <2> QED
    BY <2>3, <2>4, <2>5
<1> QED
  BY <1>1, TimeInvariant, PTL DEF Spec, BarsInSequence

-----------------------------------------------------------------------------
\* One runtime.

LEMMA AloneStep ==
  ASSUME AloneInv, TimeInv', NEW p \in Proc, \A q \in Proc : q = p, NEW u,
         task' = [task EXCEPT ![p] = u], BoundaryFirst', AloneOK(u)'
  PROVE  AloneInv'
<1>1. task'[p] = u
  BY DEF AloneInv, TimeInv, CycleInv, TypeOK
<1>2. AloneOK(task[p])'
  BY <1>1 DEF AloneOK, InPause
<1> QED
  BY <1>2 DEF AloneInv

\* A stage that asks nothing of the account.
LEMMA AloneRest ==
  ASSUME AloneInv, TimeInv', NEW p \in Proc, \A q \in Proc : q = p, NEW u,
         task' = [task EXCEPT ![p] = u], UNCHANGED paper,
         u.held \in {NoPaper, paper}, ~u.stale,
         u.stage \notin {"catch_up", "bar", "close", "cancel", "pause_cancel", "pause_close"}
  PROVE  AloneInv'
<1>1. BoundaryFirst'
  BY DEF AloneInv, BoundaryFirst
<1>2. AloneOK(u)'
  BY DEF AloneOK, InPause
<1> QED
  BY <1>1, <1>2, AloneStep

LEMMA AloneAt ==
  ASSUME AloneInv, TimeInv', NEW p \in Proc, \A q \in Proc : q = p, NEW t \in Task, NEW stage \in Stages,
         task' = [task EXCEPT ![p] = At(t, stage)], UNCHANGED paper,
         stage \notin {"catch_up", "bar", "close", "cancel", "pause_cancel", "pause_close"}
  PROVE  AloneInv'
<1> DEFINE u == At(t, stage)
<1>1. u.stage = stage /\ u.held = NoPaper /\ u.stale = FALSE
  BY AtAll
<1>2. task' = [task EXCEPT ![p] = u]
  OBVIOUS
<1> HIDE DEF u
<1> QED
  BY <1>1, <1>2, AloneRest

LEMMA AloneServed ==
  ASSUME AloneInv, TimeInv', NEW p \in Proc, \A q \in Proc : q = p, NEW t,
         task' = [task EXCEPT ![p] = Served(t)], UNCHANGED paper
  PROVE  AloneInv'
<1>1. Served(t).stage = "tick" /\ Served(t).held = NoPaper /\ Served(t).stale = FALSE
  BY ServedAll
<1> HIDE DEF Served
<1> QED
  BY <1>1, AloneRest

LEMMA TickAlone ==
  ASSUME AloneInv, TimeInv', NEW p \in Proc, \A q \in Proc : q = p, StartTick(p) \/ EndTick(p)
  PROVE  AloneInv'
<1> DEFINE t == task[p]
<1>0. t \in Task /\ AloneOK(t)
  BY TaskOf DEF AloneInv, TimeInv
<1>1. CASE StartTick(p)
  <2>1. PICK todo, due, over :
          task' = [task EXCEPT ![p] = [task[p] EXCEPT !.stage = "tick", !.slot = now, !.todo = todo,
                                                      !.due = due, !.over = over]]
    BY <1>1 DEF StartTick
  <2> DEFINE u == [t EXCEPT !.stage = "tick", !.slot = now, !.todo = todo, !.due = due, !.over = over]
  <2>2. u.stage = "tick" /\ u.held = t.held /\ u.stale = t.stale
    <3> HIDE DEF t
    <3> QED
      BY <1>0 DEF Task
  <2>3. task' = [task EXCEPT ![p] = u] /\ UNCHANGED paper
    BY <1>1, <2>1 DEF StartTick
  <2>4. t.held \in {NoPaper, paper} /\ ~t.stale
    BY <1>0 DEF AloneOK
  <2> HIDE DEF u
  <2> QED
    BY <2>2, <2>3, <2>4, AloneRest
<1>2. CASE EndTick(p)
  <2>1. Resting.stage = "idle" /\ Resting.held = NoPaper /\ ~Resting.stale
    BY DEF Resting
  <2> QED
    BY <1>2, <2>1, AloneRest DEF EndTick
<1> QED
  BY <1>1, <1>2

LEMMA PausedAlone ==
  ASSUME AloneInv, TimeInv', NEW p \in Proc, \A q \in Proc : q = p, NEW s \in Symbol, StartPaused(p, s)
  PROVE  AloneInv'
<1> DEFINE t == [task[p] EXCEPT !.todo = @ \ {s}, !.sym = s]
           open == paper.position[s] # Flat
<1>0. t \in Task /\ t.slot \in Slot /\ t.sym = s /\ t.cycle = FALSE
  BY ServeType DEF StartPaused, AloneInv, TimeInv
<1>1. s \in Paused /\ UNCHANGED paper
  BY DEF StartPaused
<1>2. PICK data \in IF open THEN Snapshots(t.slot) ELSE {NoSlot} :
        task' = [task EXCEPT ![p] =
          IF PendingIn(paper, s) # {}
          THEN [At(t, "pause_cancel") EXCEPT !.data = data,
                  !.pos = IF open /\ data # NoSlot THEN paper.position[s].run ELSE NoSlot]
          ELSE IF open /\ data # NoSlot
          THEN CatchUpTo([t EXCEPT !.data = data], t.slot, "pause_close")
          ELSE Served(t)]
  BY DEF StartPaused, t
<1>3. BoundaryFirst'
  BY <1>1 DEF AloneInv, BoundaryFirst
<1> HIDE DEF t
<1>4. t.slot \in Nat
  BY <1>0, SetsAssumption DEF Slot
<1>5. CASE PendingIn(paper, s) # {}
  <2> DEFINE run == IF open /\ data # NoSlot THEN paper.position[s].run ELSE NoSlot
             v == At(t, "pause_cancel")
  <2>1. PICK u : u = [v EXCEPT !.data = data, !.pos = run]
    OBVIOUS
  <2>2. task' = [task EXCEPT ![p] = u]
    BY <1>2, <1>5, <2>1
  <2>3. "pause_cancel" \in Stages
    BY DEF Stages
  <2>4. v.stage = "pause_cancel" /\ v.sym = s /\ v.cycle = FALSE /\ v.held = NoPaper /\ v.stale = FALSE /\ v \in Task
    BY <1>0, <2>3, AtAll, AtType
  <2> HIDE DEF v, run
  <2>5. u.stage = "pause_cancel" /\ u.sym = s /\ u.cycle = FALSE /\ u.held = NoPaper /\ u.stale = FALSE
    BY <2>1, <2>4 DEF Task
  <2>6. AloneOK(u)'
    BY <1>1, <2>5 DEF AloneOK, InPause
  <2> QED
    BY <1>3, <2>2, <2>6, AloneStep
<1>6. CASE PendingIn(paper, s) = {} /\ open /\ data # NoSlot
  <2> DEFINE v == [t EXCEPT !.data = data]
  <2>1. PICK u : u = CatchUpTo(v, t.slot, "pause_close")
    OBVIOUS
  <2>2. task' = [task EXCEPT ![p] = u]
    BY <1>2, <1>6, <2>1
  <2>3. data \in Slot
    BY <1>0, <1>2, <1>6, SnapshotOld
  <2>4. v \in Task /\ v.sym = s /\ v.cycle = FALSE
    BY <1>0, <2>3 DEF Task
  <2> HIDE DEF v
  <2>5. "pause_close" \in Stages
    BY DEF Stages
  <2>6. /\ u.stage = "catch_up" /\ u.sym = s /\ u.cycle = FALSE /\ u.then = "pause_close" /\ u.held = NoPaper
        /\ u.stale = FALSE
    BY <1>4, <2>1, <2>4, <2>5, CatchAll
  <2>7. AloneOK(u)'
    BY <1>1, <2>6 DEF AloneOK, InPause
  <2> QED
    BY <1>3, <2>2, <2>7, AloneStep
<1>7. CASE PendingIn(paper, s) = {} /\ ~(open /\ data # NoSlot)
  <2>1. task' = [task EXCEPT ![p] = Served(t)]
    BY <1>2, <1>7
  <2> QED
    BY <1>1, <2>1, AloneServed
<1> QED
  BY <1>5, <1>6, <1>7

LEMMA ManageAlone ==
  ASSUME AloneInv, TimeInv', NEW p \in Proc, \A q \in Proc : q = p, NEW s \in Symbol, StartManage(p, s)
  PROVE  AloneInv'
<1> DEFINE t == [task[p] EXCEPT !.todo = @ \ {s}, !.sym = s]
<1>0. t \in Task /\ t.slot \in Slot /\ t.sym = s /\ t.cycle = FALSE /\ t.over \in SUBSET Symbol
  BY ServeType DEF StartManage, AloneInv, TimeInv
<1>1. UNCHANGED paper /\ BoundaryFirst'
  BY DEF StartManage, AloneInv, BoundaryFirst
<1>2. PICK data \in IF s \in t.over THEN Snapshots(t.slot) ELSE {NoSlot} :
        LET u == [t EXCEPT !.data = data, !.over = IF data = NoSlot THEN @ \ {s} ELSE @] IN
        task' = [task EXCEPT ![p] = IF s \in u.due THEN At(u, "cancel")
                                    ELSE IF s \in u.over THEN At(u, "duration") ELSE Served(u)]
  BY DEF StartManage
<1>3. data \in Slot \cup {NoSlot}
  BY <1>0, <1>2, SnapshotType
<1> DEFINE over == IF data = NoSlot THEN t.over \ {s} ELSE t.over
           u == [t EXCEPT !.data = data, !.over = over]
<1>4. task' = [task EXCEPT ![p] = IF s \in u.due THEN At(u, "cancel")
                                  ELSE IF s \in u.over THEN At(u, "duration") ELSE Served(u)]
  BY <1>0, <1>2 DEF Task
<1>5. over \in SUBSET Symbol
  BY <1>0
<1> HIDE DEF t, over
<1>6. u \in Task /\ u.sym = s /\ u.cycle = FALSE
  BY <1>0, <1>3, <1>5 DEF Task
<1> HIDE DEF u
<1>7. ASSUME task' = [task EXCEPT ![p] = At(u, "cancel")] PROVE AloneInv'
  <2>1. PICK w : w = At(u, "cancel")
    OBVIOUS
  <2>2. "cancel" \in Stages
    BY DEF Stages
  <2>3. w.stage = "cancel" /\ w.cycle = FALSE /\ w.held = NoPaper /\ w.stale = FALSE
    BY <1>6, <2>1, <2>2, AtAll
  <2>4. AloneOK(w)'
    BY <2>3 DEF AloneOK, InPause
  <2> QED
    BY <1>1, <1>7, <2>1, <2>4, AloneStep
<1>8. ASSUME task' = [task EXCEPT ![p] = At(u, "duration")] PROVE AloneInv'
  <2>1. "duration" \in Stages
    BY DEF Stages
  <2> QED
    BY <1>1, <1>6, <1>8, <2>1, AloneAt
<1>9. ASSUME task' = [task EXCEPT ![p] = Served(u)] PROVE AloneInv'
  BY <1>1, <1>9, AloneServed
<1> QED
  BY <1>4, <1>7, <1>8, <1>9

LEMMA CycleAlone ==
  ASSUME AloneInv, TimeInv', NEW p \in Proc, \A q \in Proc : q = p,
         (\E s \in Symbol : StartCycle(p, s)) \/ Data(p) \/ Size(p) \/ Gate(p) \/ Choose(p) \/ Finish(p) \/ NotOwner(p)
  PROVE  AloneInv'
<1> DEFINE t == task[p]
<1>0. t \in Task
  BY TaskOf DEF AloneInv, TimeInv
<1>1. ASSUME NEW stage \in {"duration", "gate", "fill", "choose", "submit", "finish", "fail", "data"},
             NEW w \in Task, task' = [task EXCEPT ![p] = At(w, stage)], UNCHANGED paper
      PROVE  AloneInv'
  <2>1. stage \in Stages
    BY DEF Stages
  <2> QED
    BY <1>1, <2>1, AloneAt
<1>2. ASSUME NEW stage \in {"duration", "gate", "fill", "choose", "data"}, NEW w \in Task, NEW u,
             u \in {[At(w, stage) EXCEPT !.cycle = TRUE], [At(w, stage) EXCEPT !.data = w.slot],
                    [At(w, stage) EXCEPT !.sized = paper.equity], [At(w, stage) EXCEPT !.entry = TRUE],
                    [At(w, stage) EXCEPT !.entry = FALSE]},
             task' = [task EXCEPT ![p] = u], UNCHANGED paper
      PROVE  AloneInv'
  <2>1. stage \in Stages
    BY DEF Stages
  <2> DEFINE v == At(w, stage)
  <2>2. v \in Task /\ v.stage = stage /\ v.held = NoPaper /\ v.stale = FALSE
    BY <1>2, <2>1, AtAll, AtType
  <2> HIDE DEF v
  <2>3. u.stage = stage /\ u.held = NoPaper /\ u.stale = FALSE
    BY <1>2, <2>2 DEF Task, v
  <2> QED
    BY <1>2, <2>3, AloneRest
<1>3. ASSUME NEW s \in Symbol, StartCycle(p, s) PROVE AloneInv'
  <2> DEFINE w == [task[p] EXCEPT !.todo = @ \ {s}, !.sym = s]
  <2>1. w \in Task
    BY <1>3, ServeType DEF StartCycle, AloneInv, TimeInv
  <2>2. \/ task' = [task EXCEPT ![p] = [At(w, "data") EXCEPT !.cycle = TRUE]]
        \/ task' = [task EXCEPT ![p] = Served(w)]
    BY <1>3 DEF StartCycle
  <2>3. UNCHANGED paper
    BY <1>3 DEF StartCycle
  <2> HIDE DEF w
  <2> QED
    BY <1>2, <2>1, <2>2, <2>3, AloneServed
<1>4. CASE Data(p)
  BY <1>0, <1>1, <1>2, <1>4 DEF Data
<1>5. CASE Size(p)
  BY <1>0, <1>2, <1>5 DEF Size
<1>6. CASE Gate(p)
  <2>1. CASE \E healthy, entry \in BOOLEAN :
             /\ entry => healthy /\ ~t.blocked /\ ~t.acted /\ now \notin Weekend
             /\ task' = [task EXCEPT ![p] =
                  [At(t, IF healthy /\ ~t.blocked THEN "fill" ELSE "choose") EXCEPT !.entry = entry]]
    <3>1. PICK healthy \in BOOLEAN, entry \in BOOLEAN :
             task' = [task EXCEPT ![p] =
                  [At(t, IF healthy /\ ~t.blocked THEN "fill" ELSE "choose") EXCEPT !.entry = entry]]
      BY <2>1
    <3>2. PICK stage \in {"fill", "choose"} : task' = [task EXCEPT ![p] = [At(t, stage) EXCEPT !.entry = entry]]
      BY <3>1
    <3>3. entry = TRUE \/ entry = FALSE
      OBVIOUS
    <3>4. UNCHANGED paper
      BY <1>6 DEF Gate
    <3> QED
      BY <1>0, <1>2, <3>2, <3>3, <3>4
  <2>2. CASE task' = [task EXCEPT ![p] = At(t, "fail")] \/ task' = [task EXCEPT ![p] = At(t, "finish")]
    BY <1>0, <1>1, <1>6, <2>2 DEF Gate
  <2> QED
    BY <1>6, <2>1, <2>2 DEF Gate
<1>7. CASE Choose(p)
  BY <1>0, <1>1, <1>7 DEF Choose
<1>8. CASE Finish(p)
  BY <1>8, AloneServed DEF Finish
<1>9. CASE NotOwner(p)
  BY <1>0, <1>1, <1>9 DEF NotOwner
<1> QED
  BY <1>3, <1>4, <1>5, <1>6, <1>7, <1>8, <1>9

LEMMA StartAlone ==
  ASSUME AloneInv, TimeInv', NEW p \in Proc, \A q \in Proc : q = p, Start(p) \/ Crash(p)
  PROVE  AloneInv'
<1>1. /\ Resting.stage = "idle" /\ Resting.held = NoPaper /\ ~Resting.stale
      /\ Down.stage = "down" /\ Down.held = NoPaper /\ ~Down.stale
  BY DEF Resting, Down
<1>2. UNCHANGED paper /\ \E u \in {Resting, Down} : task' = [task EXCEPT ![p] = u]
  BY DEF Start, Crash
<1> QED
  BY <1>1, <1>2, AloneRest

LEMMA CatchUpAlone ==
  ASSUME AloneInv, TimeInv', NEW p \in Proc, \A q \in Proc : q = p, CatchUp(p)
  PROVE  AloneInv'
<1> DEFINE t == task[p]
           position == paper.position[t.sym]
<1>0. t \in Task /\ LocalsOK(t) /\ AloneOK(t) /\ t.stage = "catch_up"
  BY TaskOf DEF AloneInv, TimeInv, CatchUp
<1>1. UNCHANGED paper /\ BoundaryFirst'
  BY DEF CatchUp, AloneInv, BoundaryFirst
<1>2. ASSUME position = Flat \/ position.mark >= t.upto, task' = [task EXCEPT ![p] = At(t, t.then)]
      PROVE  AloneInv'
  <2>1. PICK u : u = At(t, t.then)
    OBVIOUS
  <2>2. t.then \in {"size", "close", "pause_close"} /\ t.then \in Stages
    BY <1>0 DEF LocalsOK, Task
  <2>3. u.stage = t.then /\ u.sym = t.sym /\ u.upto = t.upto /\ u.held = NoPaper /\ u.stale = FALSE
    BY <1>0, <2>1, <2>2, AtAll
  <2>4. AloneOK(u)'
    BY <1>0, <1>1, <1>2, <2>2, <2>3 DEF AloneOK, InPause
  <2> QED
    BY <1>1, <1>2, <2>1, <2>4, AloneStep
<1>3. ASSUME position # Flat, task' = [task EXCEPT ![p] = [t EXCEPT !.stage = "bar", !.bar = position.mark + 1]]
      PROVE  AloneInv'
  <2>1. PICK u : u = [t EXCEPT !.stage = "bar", !.bar = position.mark + 1]
    OBVIOUS
  <2>2. /\ u.stage = "bar" /\ u.bar = position.mark + 1 /\ u.sym = t.sym /\ u.upto = t.upto /\ u.then = t.then
        /\ u.held = t.held /\ u.stale = t.stale /\ u.cycle = t.cycle /\ u.slot = t.slot
    <3> HIDE DEF t, position
    <3> QED
      BY <1>0, <2>1 DEF Task
  <2>3. AloneOK(u)'
    BY <1>0, <1>1, <1>3, <2>2 DEF AloneOK, InPause
  <2> QED
    BY <1>1, <1>3, <2>1, <2>3, AloneStep
<1> QED
  BY <1>2, <1>3 DEF CatchUp

\* A cycle that finds nothing overdue, or no price, is before the boundary.
LEMMA DurationAlone ==
  ASSUME AloneInv, TimeInv', NEW p \in Proc, \A q \in Proc : q = p, Duration(p)
  PROVE  AloneInv'
<1> DEFINE t == task[p]
           position == paper.position[t.sym]
<1>0. /\ t \in Task /\ LocalsOK(t) /\ AloneOK(t) /\ Timed(t) /\ t.stage = "duration"
      /\ t.data \in Slot /\ t.sym \in Symbol /\ t.slot \in Slot
  BY TaskOf DEF AloneInv, TimeInv, Duration, LocalsOK, Pricing
<1>1. UNCHANGED paper /\ BoundaryFirst'
  BY DEF Duration, AloneInv, BoundaryFirst
<1>2. position # Flat => /\ position.opened \in Slot /\ PositionBoundary(position.opened) \in Nat
                         /\ PositionBoundary(position.opened) >= position.opened
  <2>1. position # Flat => position.opened \in Slot
    BY <1>0 DEF AloneInv, TimeInv, CycleInv, TypeOK, Paper, Ledger!Position, Ledger!Slot, Slot
  <2> QED
    BY <2>1, PositionBoundaryAbove
<1>3. t.data \in Nat /\ t.slot \in Nat /\ (position # Flat => position.opened \in Nat)
  BY <1>0, <1>2, SetsAssumption DEF Slot
<1>4. ASSUME OverdueIn(paper, t.sym, t.slot),
             task' = [task EXCEPT ![p] = [CatchUpTo(t, PositionBoundary(position.opened), "close")
                                          EXCEPT !.pos = position.run]]
      PROVE  AloneInv'
  <2> DEFINE goal == PositionBoundary(position.opened)
             v == CatchUpTo(t, goal, "close")
  <2>1. PICK u : u = [v EXCEPT !.pos = position.run]
    OBVIOUS
  <2>2. position # Flat
    BY <1>4 DEF OverdueIn
  <2>3. "close" \in Stages
    BY DEF Stages
  <2>4. goal \in Nat
    BY <1>2, <2>2
  <2>5. task' = [task EXCEPT ![p] = u]
    BY <1>4, <2>1
  <2>6. v \in Task
    <3> HIDE DEF goal
    <3> QED
      BY <1>0, <2>3, <2>4, CatchUpToType
  <2>7. /\ v.stage = "catch_up" /\ v.sym = t.sym /\ v.upto = Min(goal, t.data) /\ v.then = "close"
        /\ v.held = NoPaper /\ v.stale = FALSE
    <3> HIDE DEF goal
    <3> QED
      BY <1>0, <2>3, <2>4, CatchAll
  <2> HIDE DEF v
  <2>8. /\ u.stage = "catch_up" /\ u.sym = t.sym /\ u.upto = Min(goal, t.data) /\ u.then = "close"
        /\ u.held = NoPaper /\ u.stale = FALSE
    BY <2>1, <2>6, <2>7 DEF Task
  <2>9. u.upto <= PositionBoundary(paper.position[u.sym].opened)
    <3>1. u.upto <= goal
      <4> HIDE DEF goal
      <4> QED
        BY <1>3, <2>4, <2>8, MinOf
    <3> QED
      BY <2>8, <3>1
  <2>10. AloneOK(u)'
    BY <1>1, <2>8, <2>9 DEF AloneOK, InPause
  <2> QED
    BY <1>1, <2>5, <2>10, AloneStep
<1>5. ASSUME ~(OverdueIn(paper, t.sym, t.slot) /\ Priced(position, t.data)), t.cycle,
             task' = [task EXCEPT ![p] = At(t, "cancel")]
      PROVE  AloneInv'
  <2>1. PICK u : u = At(t, "cancel")
    OBVIOUS
  <2>2. "cancel" \in Stages
    BY DEF Stages
  <2>3. u.stage = "cancel" /\ u.slot = t.slot /\ u.sym = t.sym /\ u.held = NoPaper /\ u.stale = FALSE
    BY <1>0, <2>1, <2>2, AtAll
  <2>4. t.data = t.slot
    BY <1>0, <1>5 DEF Timed, Claimed
  <2>5. position # Flat => PositionBoundary(position.opened) > t.slot
    BY <1>2, <1>3, <1>5, <2>4 DEF OverdueIn, Priced
  <2>6. AloneOK(u)'
    BY <1>1, <2>3, <2>5 DEF AloneOK, InPause
  <2> QED
    BY <1>1, <1>5, <2>1, <2>6, AloneStep
<1>6. ASSUME task' = [task EXCEPT ![p] = Served(t)] PROVE AloneInv'
  BY <1>1, <1>6, AloneServed
<1> QED
  BY <1>4, <1>5, <1>6 DEF Duration

\* Where a write other than a bar leads.
LEMMA AfterWriteAlone ==
  ASSUME NEW p \in Proc, NEW h, NEW u, LET w == AfterWrite(task[p], h) IN
           /\ u.stage = w.stage /\ u.slot = w.slot /\ u.sym = w.sym /\ u.cycle = w.cycle
           /\ u.upto = w.upto /\ u.then = w.then /\ u.held = w.held /\ u.stale = w.stale,
         task[p] \in Task, LocalsOK(task[p]), AloneOK(task[p]), task[p].stage \in Writes \ {"bar"},
         task[p].stage # "fill" => paper'.position[task[p].sym] \in {paper.position[task[p].sym], Flat}
  PROVE  AloneOK(u)'
<1> DEFINE t == task[p]
<1>0. t \in Task /\ LocalsOK(t) /\ AloneOK(t) /\ t.stage \in Writes \ {"bar"} /\ t.slot \in Nat
  BY SetsAssumption DEF LocalsOK, Writes, Slot
<1>1. ASSUME AfterWrite(t, h) = Served(t) PROVE AloneOK(u)'
  <2>1. Served(t).stage = "tick" /\ Served(t).held = NoPaper /\ Served(t).stale = FALSE
    BY ServedAll
  <2>2. u.stage = "tick" /\ u.held = NoPaper /\ u.stale = FALSE
    BY <1>1, <2>1
  <2> QED
    BY <2>2 DEF AloneOK, InPause
<1>2. ASSUME NEW stage \in {"duration", "choose", "finish"}, AfterWrite(t, h) = At(t, stage) PROVE AloneOK(u)'
  <2> DEFINE v == At(t, stage)
  <2>1. stage \in Stages
    BY DEF Stages
  <2>2. v.stage = stage /\ v.held = NoPaper /\ v.stale = FALSE
    BY <1>0, <2>1, AtAll
  <2>3. u.stage = stage /\ u.held = NoPaper /\ u.stale = FALSE
    BY <1>2, <2>2
  <2> QED
    BY <2>3 DEF AloneOK, InPause
<1>3. ASSUME NEW stage \in {"size", "pause_close"}, AfterWrite(t, h) = CatchUpTo(t, t.slot, stage),
             t.stage = IF stage = "size" THEN "cancel" ELSE "pause_cancel"
      PROVE  AloneOK(u)'
  <2> DEFINE v == CatchUpTo(t, t.slot, stage)
  <2>1. stage \in Stages
    BY DEF Stages
  <2>2. /\ v.stage = "catch_up" /\ v.slot = t.slot /\ v.sym = t.sym /\ v.cycle = t.cycle
        /\ v.then = stage /\ v.held = NoPaper /\ v.stale = FALSE
    BY <1>0, <2>1, CatchOwnSlot
  <2>3. /\ u.stage = "catch_up" /\ u.slot = t.slot /\ u.sym = t.sym /\ u.cycle = t.cycle
        /\ u.then = stage /\ u.held = NoPaper /\ u.stale = FALSE
    BY <1>3, <2>2
  <2>4. paper'.position[t.sym] \in {paper.position[t.sym], Flat}
    BY <1>3
  <2> QED
    BY <1>0, <1>3, <2>3, <2>4 DEF AloneOK, InPause
<1>4. CASE t.stage \in {"close", "fill", "submit"}
  BY <1>2, <1>4 DEF AfterWrite
<1>5. CASE t.stage = "cancel"
  BY <1>1, <1>2, <1>3, <1>5 DEF AfterWrite
<1>6. CASE t.stage = "pause_cancel"
  BY <1>1, <1>3, <1>6 DEF AfterWrite
<1>7. CASE t.stage = "pause_close"
  BY <1>1, <1>7 DEF AfterWrite
<1> QED
  BY <1>0, <1>4, <1>5, <1>6, <1>7 DEF Writes

\* The account one runtime loads is the one it compares with: no write of its own is stale.
LEMMA LoadAlone ==
  ASSUME AloneInv, TimeInv', NEW p \in Proc, \A q \in Proc : q = p, Load(p) \/ Stale(p)
  PROVE  AloneInv'
<1> DEFINE t == task[p]
<1>0. t \in Task /\ LocalsOK(t) /\ AloneOK(t) /\ t.stage \in Writes /\ UNCHANGED paper
  BY TaskOf DEF AloneInv, TimeInv, Load, Stale
<1>1. Load(p)
  BY <1>0 DEF AloneOK, Stale
<1>2. BoundaryFirst'
  BY <1>0 DEF AloneInv, BoundaryFirst
<1>3. CASE Results(t, paper) # {}
  <2>1. PICK u : u = [t EXCEPT !.held = paper]
    OBVIOUS
  <2>2. task' = [task EXCEPT ![p] = u]
    BY <1>1, <1>3, <2>1 DEF Load
  <2>3. /\ u.stage = t.stage /\ u.slot = t.slot /\ u.sym = t.sym /\ u.cycle = t.cycle
        /\ u.upto = t.upto /\ u.then = t.then /\ u.bar = t.bar /\ u.held = paper /\ u.stale = t.stale
    <3> HIDE DEF t
    <3> QED
      BY <1>0, <2>1 DEF Task
  <2>4. AloneOK(u)'
    BY <1>0, <2>3 DEF AloneOK, InPause
  <2> QED
    BY <1>2, <2>2, <2>4, AloneStep
<1>4. CASE Results(t, paper) = {}
  <2>1. t.stage # "bar"
    <3> SUFFICES ASSUME t.stage = "bar" PROVE FALSE
      OBVIOUS
    <3>1. paper.position[t.sym] # Flat /\ paper.position[t.sym].mark + 1 = t.bar /\ t.sym \in Symbol
      BY <1>0 DEF AloneOK, LocalsOK
    <3>2. paper.position[t.sym].mark \in Nat /\ paper.equity \in Equity
      <4>1. paper \in Paper
        BY DEF AloneInv, TimeInv, CycleInv, TypeOK
      <4>2. paper.position[t.sym] \in Ledger!Position /\ paper.equity \in Equity
        BY <3>1, <4>1 DEF Paper
      <4> QED
        BY <4>2, SetsAssumption DEF Ledger!Position, Ledger!Slot
    <3>3. ~(t.bar <= paper.position[t.sym].mark)
      BY <3>1, <3>2
    <3>4. [paper EXCEPT !.position[t.sym].mark = t.bar, !.equity = paper.equity] \in BarResults(paper, t.sym, t.bar)
      BY <3>1, <3>2, <3>3 DEF BarResults
    <3> QED
      BY <1>4, <3>4 DEF Results
  <2>2. task' = [task EXCEPT ![p] = AfterWrite(t, paper)]
    BY <1>1, <1>4, <2>1 DEF Load, WithoutWrite
  <2>3. PICK u : u = AfterWrite(t, paper)
    OBVIOUS
  <2>4. AloneOK(u)'
    BY <1>0, <2>1, <2>3, AfterWriteAlone
  <2> QED
    BY <1>2, <2>2, <2>3, <2>4, AloneStep
<1> QED
  BY <1>3, <1>4

LEMMA SaveBarAlone ==
  ASSUME AloneInv, TimeInv', NEW p \in Proc, \A q \in Proc : q = p, Save(p), task[p].stage = "bar"
  PROVE  AloneInv'
<1> DEFINE t == task[p]
           s == t.sym
<1>0. /\ t \in Task /\ LocalsOK(t) /\ t.slot \in Nat /\ s \in Symbol /\ Timed(t) /\ AloneOK(t)
      /\ paper \in Paper /\ paper' \in Results(t, paper)
  BY SaveFacts DEF AloneInv
<1>1. PICK u : /\ task' = [task EXCEPT ![p] = u]
               /\ LET w == AfterWrite(t, paper') IN
                  /\ w \in Task
                  /\ u.stage = w.stage /\ u.slot = w.slot /\ u.sym = w.sym /\ u.cycle = w.cycle
                  /\ u.data = w.data /\ u.upto = w.upto /\ u.bar = w.bar /\ u.then = w.then
                  /\ u.blocked = w.blocked /\ u.held = w.held /\ u.stale = w.stale
  BY SaveFacts DEF AloneInv
<1>2. paper' \in BarResults(paper, s, t.bar)
  BY <1>0 DEF Results
<1>3. /\ paper.position[s] # Flat
      /\ \A x \in Symbol : x # s => Settles(x)
      /\ paper'.position[s] = Flat \/ paper'.position[s] = [paper.position[s] EXCEPT !.mark = t.bar]
  BY <1>0, <1>2, BarEffect
<1>4. paper.position[s] \in Ledger!Position /\ paper.position[s].opened \in Slot
  <2>1. paper.position[s] \in Ledger!Position
    BY <1>0, <1>3 DEF Paper
  <2> QED
    BY <2>1 DEF Ledger!Position, Ledger!Slot, Slot
<1>5. paper'.position[s] # Flat => /\ paper'.position[s].mark = t.bar
                                   /\ paper'.position[s].opened = paper.position[s].opened
  BY <1>3, <1>4 DEF Ledger!Position
<1>6. PositionBoundary(paper.position[s].opened) \in Nat
  BY <1>4, PositionBoundaryAbove
<1>7. /\ t.bar \in Nat /\ t.bar <= t.upto /\ t.upto <= t.slot /\ t.upto \in Nat
  <2>1. t.bar \in Nat /\ t.bar <= t.upto /\ t.upto <= t.slot
    BY BarUpto DEF AloneInv
  <2>2. t.upto \in Nat
    BY <1>0, SetsAssumption DEF Task
  <2> QED
    BY <2>1, <2>2
<1>8. t.then \in {"size", "close", "pause_close"} /\ t.then \in Stages /\ (t.then = "size" => t.cycle)
  BY <1>0 DEF LocalsOK, Task
<1>9. BoundaryFirst'
  <2> SUFFICES ASSUME NEW x \in Symbol \ Paused, paper'.position[x] # Flat
               PROVE  paper'.position[x].mark <= PositionBoundary(paper'.position[x].opened)
    BY DEF BoundaryFirst
  <2>1. CASE x # s
    BY <1>3, <2>1 DEF AloneInv, BoundaryFirst, Settles
  <2>2. CASE x = s
    <3>1. t.then # "pause_close"
      BY <1>0, <2>2 DEF AloneOK, InPause
    <3>2. CASE t.then = "close"
      <4>1. t.upto <= PositionBoundary(paper.position[s].opened)
        BY <1>0, <1>3, <3>2 DEF AloneOK
      <4> QED
        BY <1>5, <1>6, <1>7, <2>2, <4>1
    <3>3. CASE t.then = "size"
      <4>1. PositionBoundary(paper.position[s].opened) > t.slot
        BY <1>0, <1>3, <1>8, <3>3 DEF AloneOK
      <4> QED
        BY <1>0, <1>5, <1>6, <1>7, <2>2, <4>1
    <3> QED
      BY <1>8, <3>1, <3>2, <3>3
  <2> QED
    BY <2>1, <2>2
<1>10. CASE paper'.position[s] = Flat \/ t.bar = t.upto
  <2> DEFINE v == At(t, t.then)
  <2>1. AfterWrite(t, paper') = v
    BY <1>10 DEF AfterWrite
  <2>2. v.stage = t.then /\ v.sym = s /\ v.upto = t.upto /\ v.held = NoPaper /\ v.stale = FALSE
    BY <1>0, <1>8, AtAll
  <2>3. u.stage = t.then /\ u.sym = s /\ u.upto = t.upto /\ u.held = NoPaper /\ u.stale = FALSE
    BY <1>1, <2>1, <2>2
  <2>4. paper'.position[s] # Flat => paper'.position[s].mark >= t.upto
    BY <1>5, <1>7, <1>10
  <2>5. AloneOK(u)'
    BY <1>0, <1>8, <2>3, <2>4 DEF AloneOK, InPause
  <2> QED
    BY <1>1, <1>9, <2>5, AloneStep
<1>11. CASE ~(paper'.position[s] = Flat \/ t.bar = t.upto)
  <2> DEFINE v == At(t, "bar")
  <2>1. AfterWrite(t, paper') = [v EXCEPT !.bar = @ + 1, !.stale = t.stale]
    BY <1>11 DEF AfterWrite
  <2>2. "bar" \in Stages
    BY DEF Stages
  <2>3. /\ v \in Task /\ v.stage = "bar" /\ v.slot = t.slot /\ v.sym = s /\ v.cycle = t.cycle
        /\ v.upto = t.upto /\ v.bar = t.bar /\ v.then = t.then /\ v.held = NoPaper
    BY <1>0, <2>2, AtAll, AtType
  <2> HIDE DEF v
  <2>4. /\ u.stage = "bar" /\ u.slot = t.slot /\ u.sym = s /\ u.cycle = t.cycle
        /\ u.upto = t.upto /\ u.bar = t.bar + 1 /\ u.then = t.then /\ u.held = NoPaper /\ u.stale = t.stale
    BY <1>1, <2>1, <2>3 DEF Task
  <2>5. paper'.position[s] # Flat /\ paper'.position[s].mark + 1 = u.bar
    BY <1>5, <1>11, <2>4
  <2>6. AloneOK(u)'
    BY <1>0, <1>3, <1>5, <2>4, <2>5 DEF AloneOK, InPause
  <2> QED
    BY <1>1, <1>9, <2>6, AloneStep
<1> QED
  BY <1>10, <1>11

LEMMA SaveAlone ==
  ASSUME AloneInv, TimeInv', NEW p \in Proc, \A q \in Proc : q = p, Save(p), task[p].stage # "bar"
  PROVE  AloneInv'
<1> DEFINE t == task[p]
           s == t.sym
<1>0. /\ t \in Task /\ LocalsOK(t) /\ t.slot \in Slot /\ t.slot \in Nat /\ s \in Symbol /\ AloneOK(t)
      /\ t.stage \in Writes \ {"bar"} /\ paper \in Paper /\ paper' \in Results(t, paper) /\ Exposure
  BY SaveFacts DEF AloneInv
<1>1. PICK u : /\ task' = [task EXCEPT ![p] = u]
               /\ LET w == AfterWrite(t, paper') IN
                  /\ w \in Task
                  /\ u.stage = w.stage /\ u.slot = w.slot /\ u.sym = w.sym /\ u.cycle = w.cycle
                  /\ u.data = w.data /\ u.upto = w.upto /\ u.bar = w.bar /\ u.then = w.then
                  /\ u.blocked = w.blocked /\ u.held = w.held /\ u.stale = w.stale
  BY SaveFacts DEF AloneInv
<1>2. \A x \in Symbol : \/ paper'.position[x] \in {paper.position[x], Flat}
                        \/ /\ t.stage = "fill"
                           /\ \E o : paper'.position[x] = [run |-> o, opened |-> t.slot, mark |-> t.slot]
  <2>1. CASE t.stage \in {"close", "pause_close"}
    <3>1. paper' \in Booked(paper, s)
      BY <1>0, <2>1 DEF Results, CloseResults, PauseCloseResults
    <3>2. \A x \in Symbol : Settles(x)
      BY <1>0, <3>1, BookedEffect
    <3> QED
      BY <3>2 DEF Settles
  <2>2. CASE t.stage \in {"cancel", "pause_cancel"}
    <3>1. PICK due : paper' \in CancelResults(paper, s, due)
      BY <1>0, <2>2 DEF Results
    <3>2. \A x \in Symbol : Settles(x)
      BY <1>0, <3>1, CancelEffect
    <3> QED
      BY <3>2 DEF Settles
  <2>3. CASE t.stage = "submit"
    <3>1. paper' \in SubmitResults(paper, s, t.slot, t.sized)
      BY <1>0, <2>3 DEF Results
    <3>2. (\A x \in Symbol : x # s => Settles(x)) /\ paper'.position[s] = Flat
      BY <1>0, <3>1, SubmitEffect
    <3> QED
      BY <3>2 DEF Settles
  <2>4. CASE t.stage = "fill"
    <3>1. paper' \in FillResults(paper, s, t.slot)
      BY <2>4, FillFacts DEF AloneInv
    <3>2. PICK o \in PendingIn(paper, s) :
            /\ \A x \in Symbol : x # s => Settles(x)
            /\ paper'.position[s] \in {paper.position[s], [run |-> o, opened |-> t.slot, mark |-> t.slot]}
      BY <1>0, <3>1, FillEffect
    <3> QED
      BY <2>4, <3>2 DEF Settles
  <2> QED
    BY <1>0, <2>1, <2>2, <2>3, <2>4 DEF Writes
<1>3. BoundaryFirst'
  <2> SUFFICES ASSUME NEW x \in Symbol \ Paused, paper'.position[x] # Flat
               PROVE  paper'.position[x].mark <= PositionBoundary(paper'.position[x].opened)
    BY DEF BoundaryFirst
  <2>1. CASE paper'.position[x] = paper.position[x]
    BY <2>1 DEF AloneInv, BoundaryFirst
  <2>2. CASE \E o : paper'.position[x] = [run |-> o, opened |-> t.slot, mark |-> t.slot]
    <3>1. paper'.position[x].mark = t.slot /\ paper'.position[x].opened = t.slot
      BY <2>2
    <3>2. PositionBoundary(t.slot) \in Nat /\ PositionBoundary(t.slot) >= t.slot
      BY <1>0, PositionBoundaryAbove
    <3> QED
      BY <1>0, <3>1, <3>2
  <2> QED
    BY <1>2, <2>1, <2>2
<1>4. t.stage # "fill" => paper'.position[s] \in {paper.position[s], Flat}
  BY <1>0, <1>2
<1>5. AloneOK(u)'
  BY <1>0, <1>1, <1>4, AfterWriteAlone
<1> QED
  BY <1>1, <1>3, <1>5, AloneStep

LEMMA AloneInit == Init => AloneInv
<1> SUFFICES ASSUME Init PROVE AloneInv
  OBVIOUS
<1>1. TimeInv
  BY TimeInit
<1>2. ASSUME NEW p \in Proc PROVE AloneOK(task[p])
  <2>1. task[p].stage = "down" /\ task[p].held = NoPaper /\ ~task[p].stale
    BY DEF Init, Down, Resting
  <2> QED
    BY <2>1 DEF AloneOK, InPause
<1>3. BoundaryFirst
  <2> SUFFICES ASSUME NEW s \in Symbol \ Paused, paper.position[s] # Flat
               PROVE  paper.position[s].mark <= PositionBoundary(paper.position[s].opened)
    BY DEF BoundaryFirst
  <2>1. paper.position[s] = [run |-> 0, opened |-> 0, mark |-> 0]
    BY DEF Init
  <2>2. paper.position[s].mark = 0 /\ paper.position[s].opened = 0 /\ 0 \in Slot
    BY <2>1, SetsAssumption DEF Slot
  <2>3. PositionBoundary(0) \in Nat
    BY <2>2, PositionBoundaryAbove
  <2> QED
    BY <2>2, <2>3
<1> QED
  BY <1>1, <1>2, <1>3 DEF AloneInv

LEMMA AloneNext ==
  ASSUME \A p, q \in Proc : p = q
  PROVE  AloneInv /\ [Next]_vars => AloneInv'
<1> SUFFICES ASSUME AloneInv, [Next]_vars PROVE AloneInv'
  OBVIOUS
<1>0. TimeInv'
  BY TimeNext DEF AloneInv
<1>1. ASSUME NEW p \in Proc, Step(p) PROVE AloneInv'
  <2>0. \A q \in Proc : q = p
    OBVIOUS
  <2>1. ASSUME NEW s \in Symbol, StartPaused(p, s) \/ StartManage(p, s) PROVE AloneInv'
    BY <1>0, <2>0, <2>1, PausedAlone, ManageAlone
  <2>2. CASE \/ \E s \in Symbol : StartCycle(p, s)
             \/ Data(p) \/ Size(p) \/ Gate(p) \/ Choose(p) \/ Finish(p) \/ NotOwner(p)
    BY <1>0, <2>0, <2>2, CycleAlone
  <2>3. CASE StartTick(p) \/ EndTick(p) \/ Duration(p) \/ CatchUp(p)
    BY <1>0, <2>0, <2>3, TickAlone, DurationAlone, CatchUpAlone
  <2>4. CASE Load(p) \/ Stale(p) \/ Save(p)
    BY <1>0, <2>0, <2>4, LoadAlone, SaveBarAlone, SaveAlone
  <2> QED
    BY <1>1, <2>1, <2>2, <2>3, <2>4 DEF Step
<1>2. ASSUME NEW p \in Proc, Start(p) \/ Crash(p) PROVE AloneInv'
  BY <1>0, <1>2, StartAlone
<1>3. CASE Clock \/ UNCHANGED vars
  <2>1. UNCHANGED <<paper, task>>
    BY <1>3 DEF Clock, vars
  <2> QED
    BY <1>0, <2>1 DEF AloneInv, BoundaryFirst, AloneOK, InPause
<1> QED
  BY <1>1, <1>2, <1>3 DEF Next

\* One runtime, the route of cloud_runner.py under its lock, keeps the account it
\* loaded, and its catch-ups end at the boundary of the position.
THEOREM AloneInvariant ==
  ASSUME \A p, q \in Proc : p = q
  PROVE  Spec => []AloneInv
<1>1. Init => AloneInv
  BY AloneInit
<1>2. AloneInv /\ [Next]_vars => AloneInv'
  BY AloneNext
<1> QED
  BY <1>1, <1>2, PTL DEF Spec

\* With one runtime no bar after its boundary is applied to an open position that is
\* not paused, across crashes, missing data and weekends (docstring of
\* _enforce_trade_duration, service.py).
THEOREM BoundaryFirstHolds ==
  ASSUME \A p, q \in Proc : p = q
  PROVE  Spec => []BoundaryFirst
<1>1. AloneInv => BoundaryFirst
  BY DEF AloneInv
<1> QED
  BY <1>1, AloneInvariant, PTL

\* With one runtime a position is closed by time only when every bar up to its
\* boundary has been applied: an earlier stop or target wins (same docstring).
THEOREM EarlierStopWinsHolds ==
  ASSUME \A p, q \in Proc : p = q
  PROVE  Spec => EarlierStopWins
<1> DEFINE Wins == \A p \in Proc :
         task[p].stage = "close" /\ Save(p) => paper.position[task[p].sym].mark >= task[p].upto
<1>1. AloneInv /\ [Next]_vars => [Wins]_vars
  <2> SUFFICES ASSUME AloneInv, NEW p \in Proc, task[p].stage = "close", Save(p)
               PROVE  paper.position[task[p].sym].mark >= task[p].upto
    OBVIOUS
  <2>1. paper' \in Results(task[p], paper)
    BY SaveFacts DEF AloneInv
  <2>2. paper.position[task[p].sym] # Flat
    BY <2>1 DEF Results, CloseResults
  <2>3. AloneOK(task[p])
    BY DEF AloneInv
  <2> QED
    BY <2>2, <2>3 DEF AloneOK
<1> QED
  BY <1>1, AloneInvariant, PTL DEF Spec, EarlierStopWins
===============================================================================
