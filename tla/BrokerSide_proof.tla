--------------------------- MODULE BrokerSide_proof ---------------------------
(***************************************************************************)
(* Proofs about BrokerSide, for any client ids, trades and bounds: what the *)
(* adapter has sent, latched and answered, what the sink has accepted and  *)
(* the outbox handed over.                                                 *)
(***************************************************************************)
EXTENDS BrokerSide, TLAPS

-----------------------------------------------------------------------------
\* BrokerSends: the types of its state.
Sending == [pc : {"idle", "gate", "guard", "send", "reconcile"},
            kind : {"none", "OPEN", "MODIFY", "MODIFY2"}, id : Ids \cup {"none"},
            tries : Nat, relogged : BOOLEAN]
Answers == {"none", "ACCEPTED", "REJECTED", "RAISED", "UNKNOWN"}
SendTypes ==
    /\ adapter \in {"none", "oanda", "dxtrade", "close_only"}
    /\ reg \in [ok : BOOLEAN, enabled : BOOLEAN, stop : BOOLEAN]
    /\ stopLatch \in [Proc -> BOOLEAN]
    /\ sending \in Sending
    /\ unresolved \subseteq Ids
    /\ held \in [Ids -> {"none", "open", "closed"}]
    /\ flight \subseteq Ids
    /\ created \in [Ids -> Nat]
    /\ answer \in [Ids -> Answers]
    /\ late \in Nat

\* No attempt is late while the trader may open, and at most the one past its guard is.
Heard ==
    /\ ~Stopped => late = 0
    /\ adapter = "oanda" => late <= 1 /\ (late = 1 => sending.pc # "send")
    /\ adapter = "none" => sending = NotSending /\ late = 0

\* The call in progress: what it is for is not there, not on its way, and not latched yet.
Opening == sending.pc # "idle" /\ sending.kind = "OPEN"
CallOK ==
    /\ sending.pc = "idle" => sending = NotSending
    /\ sending.pc # "idle" => sending.id \in Ids /\ sending.kind # "none" /\ adapter \in {"oanda", "dxtrade"}
    /\ sending.pc \in {"gate", "reconcile"} => sending.kind = "OPEN" /\ adapter = "oanda"
    /\ Opening /\ sending.pc # "reconcile" => sending.id \notin flight
    /\ Opening /\ sending.pc \in {"guard", "send"} => held[sending.id] = "none"
    /\ sending.pc # "idle" /\ ~Opening => held[sending.id] # "none"
    /\ Opening /\ adapter = "oanda" =>
         IF sending.pc = "gate" THEN sending.id \notin unresolved ELSE sending.id \in unresolved
    /\ Opening /\ adapter = "dxtrade" => answer[sending.id] = "none"

\* An id whose order may still appear is neither held nor refused, and latched by OANDA;
\* nothing was made of an id that is not held.
IdOK(id) ==
    /\ id \in flight => held[id] = "none" /\ answer[id] = "UNKNOWN" /\ (adapter = "oanda" => id \in unresolved)
    /\ held[id] = "none" => created[id] = 0
    /\ created[id] <= 1
    /\ answer[id] \in {"REJECTED", "RAISED"} => held[id] = "none"
    /\ adapter = "none" => answer[id] = "none" /\ id \notin flight
SendsInv == SendTypes /\ Heard /\ CallOK /\ \A id \in Ids : IdOK(id)

\* The records of a call.
LEMMA SendingIs ==
    ASSUME NEW s \in Sending
    PROVE  /\ NotSending \in Sending
           /\ \A p \in {"guard", "send"} : [s EXCEPT !.pc = p] \in Sending
           /\ \A p \in {"guard", "send"} : [s EXCEPT !.tries = @ + 1, !.pc = p] \in Sending
           /\ [s EXCEPT !.relogged = TRUE] \in Sending
           /\ [s EXCEPT !.kind = "MODIFY2", !.tries = 0, !.relogged = FALSE] \in Sending
<1>1. NotSending \in Sending
  BY DEF NotSending, Sending
<1>2. \A p \in {"guard", "send"} : [s EXCEPT !.pc = p] \in Sending
  BY DEF Sending
<1>3. \A p \in {"guard", "send"} : [s EXCEPT !.tries = @ + 1, !.pc = p] \in Sending
  <2>1. s.tries + 1 \in Nat
    BY DEF Sending
  <2> QED BY <2>1 DEF Sending
<1>4. [s EXCEPT !.relogged = TRUE] \in Sending
  BY DEF Sending
<1>5. [s EXCEPT !.kind = "MODIFY2", !.tries = 0, !.relogged = FALSE] \in Sending
  BY DEF Sending
<1> QED BY <1>1, <1>2, <1>3, <1>4, <1>5

LEMMA OandaSubmitKeeps ==
    ASSUME SendsInv, NEW id \in Ids, OandaSubmit(id)
    PROVE  SendsInv'
<1> USE DEF SendsInv
<1>1. SendTypes'
  <2>1. sending' \in Sending
    BY DEF SendTypes, Sending, CallOK, OandaSubmit, Ends, NotSending
  <2>2. answer' \in [Ids -> Answers]
    BY DEF SendTypes, Answers, CallOK, OandaSubmit, AnswerIs
  <2>3. held' \in [Ids -> {"none", "open", "closed"}] /\ created' \in [Ids -> Nat] /\ flight' \subseteq Ids
    BY DEF SendTypes, Sending, Answers, CallOK, OandaSubmit, Still, Made
  <2>4. late' \in Nat /\ unresolved' \subseteq Ids /\ UNCHANGED <<adapter, reg, stopLatch>>
    BY DEF SendTypes, Sending, Answers, CallOK, OandaSubmit, Leaves, AccountStill, Released
  <2> QED BY <2>1, <2>2, <2>3, <2>4 DEF SendTypes
<1>2. Heard'
  BY DEF SendTypes, Sending, Answers, Heard, CallOK, OandaSubmit, AccountStill, Still, Ends, Leaves, AnswerIs, Released, Made, NotSending, Stopped, IsAllowed
<1>3. CallOK'
  BY DEF SendTypes, Sending, Answers, CallOK, Opening, IdOK, Heard, OandaSubmit, AccountStill, Still, Ends, Leaves, AnswerIs, Released, Made, NotSending
<1>4. \A i \in Ids : IdOK(i)'
  BY DEF SendTypes, Sending, Answers, CallOK, Opening, IdOK, Heard, OandaSubmit, AccountStill, Still, Ends, Leaves, AnswerIs, Released, Made, NotSending
<1> QED BY <1>1, <1>2, <1>3, <1>4

LEMMA DxSubmitKeeps ==
    ASSUME SendsInv, NEW id \in Ids, DxSubmit(id)
    PROVE  SendsInv'
<1> USE DEF SendsInv
<1>1. SendTypes'
  BY DEF SendTypes, Sending, Answers, DxSubmit, AccountStill, Still, Ends, Leaves, AnswerIs, Released, Made, NotSending
<1>2. Heard'
  BY DEF SendTypes, Sending, Answers, Heard, CallOK, DxSubmit, AccountStill, Still, Ends, Leaves, AnswerIs, Released, Made, NotSending, Stopped, IsAllowed
<1>3. CallOK'
  BY DEF SendTypes, Sending, Answers, CallOK, Opening, IdOK, Heard, DxSubmit, AccountStill, Still, Ends, Leaves, AnswerIs, Released, Made, NotSending
<1>4. \A i \in Ids : IdOK(i)'
  BY DEF SendTypes, Sending, Answers, CallOK, Opening, IdOK, Heard, DxSubmit, AccountStill, Still, Ends, Leaves, AnswerIs, Released, Made, NotSending
<1> QED BY <1>1, <1>2, <1>3, <1>4

LEMMA ModifyKeeps ==
    ASSUME SendsInv, NEW id \in Ids, Modify(id)
    PROVE  SendsInv'
<1> USE DEF SendsInv
<1>1. SendTypes'
  BY DEF SendTypes, Sending, Answers, Modify, AccountStill, Still, Ends, Leaves, AnswerIs, Released, Made, NotSending
<1>2. Heard'
  BY DEF SendTypes, Sending, Answers, Heard, CallOK, Modify, AccountStill, Still, Ends, Leaves, AnswerIs, Released, Made, NotSending, Stopped, IsAllowed
<1>3. CallOK'
  BY DEF SendTypes, Sending, Answers, CallOK, Opening, IdOK, Heard, Modify, AccountStill, Still, Ends, Leaves, AnswerIs, Released, Made, NotSending
<1>4. \A i \in Ids : IdOK(i)'
  BY DEF SendTypes, Sending, Answers, CallOK, Opening, IdOK, Heard, Modify, AccountStill, Still, Ends, Leaves, AnswerIs, Released, Made, NotSending
<1> QED BY <1>1, <1>2, <1>3, <1>4

LEMMA DxModifyKeeps ==
    ASSUME SendsInv, NEW id \in Ids, DxModify(id)
    PROVE  SendsInv'
<1> USE DEF SendsInv
<1>1. SendTypes'
  BY DEF SendTypes, Sending, Answers, DxModify, AccountStill, Still, Ends, Leaves, AnswerIs, Released, Made, NotSending
<1>2. Heard'
  BY DEF SendTypes, Sending, Answers, Heard, CallOK, DxModify, AccountStill, Still, Ends, Leaves, AnswerIs, Released, Made, NotSending, Stopped, IsAllowed
<1>3. CallOK'
  BY DEF SendTypes, Sending, Answers, CallOK, Opening, IdOK, Heard, DxModify, AccountStill, Still, Ends, Leaves, AnswerIs, Released, Made, NotSending
<1>4. \A i \in Ids : IdOK(i)'
  BY DEF SendTypes, Sending, Answers, CallOK, Opening, IdOK, Heard, DxModify, AccountStill, Still, Ends, Leaves, AnswerIs, Released, Made, NotSending
<1> QED BY <1>1, <1>2, <1>3, <1>4

LEMMA CloseMarketKeeps ==
    ASSUME SendsInv, NEW id \in Ids, CloseMarket(id)
    PROVE  SendsInv'
<1> USE DEF SendsInv
<1>1. SendTypes'
  BY DEF SendTypes, Sending, Answers, CloseMarket, AccountStill, Still, Ends, Leaves, AnswerIs, Released, Made, NotSending
<1>2. Heard'
  BY DEF SendTypes, Sending, Answers, Heard, CallOK, CloseMarket, AccountStill, Still, Ends, Leaves, AnswerIs, Released, Made, NotSending, Stopped, IsAllowed
<1>3. CallOK'
  BY DEF SendTypes, Sending, Answers, CallOK, Opening, IdOK, Heard, CloseMarket, AccountStill, Still, Ends, Leaves, AnswerIs, Released, Made, NotSending
<1>4. \A i \in Ids : IdOK(i)'
  BY DEF SendTypes, Sending, Answers, CallOK, Opening, IdOK, Heard, CloseMarket, AccountStill, Still, Ends, Leaves, AnswerIs, Released, Made, NotSending
<1> QED BY <1>1, <1>2, <1>3, <1>4

LEMMA LateArrivalKeeps ==
    ASSUME SendsInv, NEW id \in Ids, LateArrival(id)
    PROVE  SendsInv'
<1> USE DEF SendsInv
<1>1. SendTypes'
  BY DEF SendTypes, Sending, Answers, LateArrival, AccountStill, Still, Ends, Leaves, AnswerIs, Released, Made, NotSending
<1>2. Heard'
  BY DEF SendTypes, Sending, Answers, Heard, CallOK, LateArrival, AccountStill, Still, Ends, Leaves, AnswerIs, Released, Made, NotSending, Stopped, IsAllowed
<1>3. CallOK'
  BY DEF SendTypes, Sending, Answers, CallOK, Opening, IdOK, Heard, LateArrival, AccountStill, Still, Ends, Leaves, AnswerIs, Released, Made, NotSending
<1>4. \A i \in Ids : IdOK(i)'
  BY DEF SendTypes, Sending, Answers, CallOK, Opening, IdOK, Heard, LateArrival, AccountStill, Still, Ends, Leaves, AnswerIs, Released, Made, NotSending
<1> QED BY <1>1, <1>2, <1>3, <1>4

LEMMA SubmitGateKeeps ==
    ASSUME SendsInv, SubmitGate
    PROVE  SendsInv'
<1> USE DEF SendsInv
<1>1. SendTypes'
  <2>1. sending' \in Sending
    BY SendingIs DEF SendTypes, SubmitGate, Ends
  <2>2. answer' \in [Ids -> Answers]
    BY DEF SendTypes, Answers, CallOK, SubmitGate, AnswerIs
  <2>3. held' \in [Ids -> {"none", "open", "closed"}] /\ created' \in [Ids -> Nat] /\ flight' \subseteq Ids
    BY DEF SendTypes, Sending, Answers, CallOK, SubmitGate, Still, Made
  <2>4. late' \in Nat /\ unresolved' \subseteq Ids /\ UNCHANGED <<adapter, reg, stopLatch>>
    BY DEF SendTypes, Sending, Answers, CallOK, SubmitGate, Leaves, AccountStill, Released
  <2> QED BY <2>1, <2>2, <2>3, <2>4 DEF SendTypes
<1>2. Heard'
  BY DEF SendTypes, Sending, Answers, Heard, CallOK, SubmitGate, AccountStill, Still, Ends, Leaves, AnswerIs, Released, Made, NotSending, Stopped, IsAllowed
<1>3. CallOK'
  BY DEF SendTypes, Sending, Answers, CallOK, Opening, IdOK, Heard, SubmitGate, AccountStill, Still, Ends, Leaves, AnswerIs, Released, Made, NotSending
<1>4. \A i \in Ids : IdOK(i)'
  BY DEF SendTypes, Sending, Answers, CallOK, Opening, IdOK, Heard, SubmitGate, AccountStill, Still, Ends, Leaves, AnswerIs, Released, Made, NotSending
<1> QED BY <1>1, <1>2, <1>3, <1>4

LEMMA PreSendGuardKeeps ==
    ASSUME SendsInv, PreSendGuard
    PROVE  SendsInv'
<1> USE DEF SendsInv
<1>1. SendTypes'
  <2>1. sending' \in Sending
    BY SendingIs DEF SendTypes, PreSendGuard, Ends
  <2>2. answer' \in [Ids -> Answers]
    BY DEF SendTypes, Answers, CallOK, PreSendGuard, AnswerIs
  <2>3. held' \in [Ids -> {"none", "open", "closed"}] /\ created' \in [Ids -> Nat] /\ flight' \subseteq Ids
    BY DEF SendTypes, Sending, Answers, CallOK, PreSendGuard, Still, Made
  <2>4. late' \in Nat /\ unresolved' \subseteq Ids /\ UNCHANGED <<adapter, reg, stopLatch>>
    BY DEF SendTypes, Sending, Answers, CallOK, PreSendGuard, Leaves, AccountStill, Released
  <2> QED BY <2>1, <2>2, <2>3, <2>4 DEF SendTypes
<1>2. Heard'
  BY DEF SendTypes, Sending, Answers, Heard, CallOK, PreSendGuard, AccountStill, Still, Ends, Leaves, AnswerIs, Released, Made, NotSending, Stopped, IsAllowed
<1>3. CallOK'
  BY DEF SendTypes, Sending, Answers, CallOK, Opening, IdOK, Heard, PreSendGuard, AccountStill, Still, Ends, Leaves, AnswerIs, Released, Made, NotSending
<1>4. \A i \in Ids : IdOK(i)'
  BY DEF SendTypes, Sending, Answers, CallOK, Opening, IdOK, Heard, PreSendGuard, AccountStill, Still, Ends, Leaves, AnswerIs, Released, Made, NotSending
<1> QED BY <1>1, <1>2, <1>3, <1>4

LEMMA TakenByBrokerKeeps ==
    ASSUME SendsInv, TakenByBroker
    PROVE  SendsInv'
<1> USE DEF SendsInv
<1>1. SendTypes'
  <2>1. sending' \in Sending
    BY DEF SendTypes, Sending, CallOK, TakenByBroker, Ends, NotSending
  <2>2. answer' \in [Ids -> Answers]
    BY DEF SendTypes, Answers, CallOK, TakenByBroker, AnswerIs
  <2>3. held' \in [Ids -> {"none", "open", "closed"}] /\ created' \in [Ids -> Nat] /\ flight' \subseteq Ids
    BY DEF SendTypes, Sending, Answers, CallOK, TakenByBroker, Still, Made
  <2>4. late' \in Nat /\ unresolved' \subseteq Ids /\ UNCHANGED <<adapter, reg, stopLatch>>
    BY DEF SendTypes, Sending, Answers, CallOK, TakenByBroker, Leaves, AccountStill, Released
  <2> QED BY <2>1, <2>2, <2>3, <2>4 DEF SendTypes
<1>2. Heard'
  BY DEF SendTypes, Sending, Answers, Heard, CallOK, TakenByBroker, AccountStill, Still, Ends, Leaves, AnswerIs, Released, Made, NotSending, Stopped, IsAllowed
<1>3. CallOK'
  BY DEF SendTypes, Sending, Answers, CallOK, Opening, IdOK, Heard, TakenByBroker, AccountStill, Still, Ends, Leaves, AnswerIs, Released, Made, NotSending
<1>4. \A i \in Ids : IdOK(i)'
  BY DEF SendTypes, Sending, Answers, CallOK, Opening, IdOK, Heard, TakenByBroker, AccountStill, Still, Ends, Leaves, AnswerIs, Released, Made, NotSending
<1> QED BY <1>1, <1>2, <1>3, <1>4

LEMMA RefusedByBrokerKeeps ==
    ASSUME SendsInv, RefusedByBroker
    PROVE  SendsInv'
<1> USE DEF SendsInv
<1>1. SendTypes'
  BY DEF SendTypes, Sending, Answers, RefusedByBroker, AccountStill, Still, Ends, Leaves, AnswerIs, Released, Made, NotSending
<1>2. Heard'
  BY DEF SendTypes, Sending, Answers, Heard, CallOK, RefusedByBroker, AccountStill, Still, Ends, Leaves, AnswerIs, Released, Made, NotSending, Stopped, IsAllowed
<1>3. CallOK'
  BY DEF SendTypes, Sending, Answers, CallOK, Opening, IdOK, Heard, RefusedByBroker, AccountStill, Still, Ends, Leaves, AnswerIs, Released, Made, NotSending
<1>4. \A i \in Ids : IdOK(i)'
  BY DEF SendTypes, Sending, Answers, CallOK, Opening, IdOK, Heard, RefusedByBroker, AccountStill, Still, Ends, Leaves, AnswerIs, Released, Made, NotSending
<1> QED BY <1>1, <1>2, <1>3, <1>4

LEMMA AmbiguousKeeps ==
    ASSUME SendsInv, Ambiguous
    PROVE  SendsInv'
<1> USE DEF SendsInv
<1>1. SendTypes'
  <2>1. sending' \in Sending
    BY DEF SendTypes, Sending, CallOK, Ambiguous, Ends, NotSending
  <2>2. answer' \in [Ids -> Answers]
    BY DEF SendTypes, Answers, CallOK, Ambiguous, AnswerIs
  <2>3. held' \in [Ids -> {"none", "open", "closed"}] /\ created' \in [Ids -> Nat] /\ flight' \subseteq Ids
    BY DEF SendTypes, Sending, Answers, CallOK, Ambiguous, Still, Made
  <2>4. late' \in Nat /\ unresolved' \subseteq Ids /\ UNCHANGED <<adapter, reg, stopLatch>>
    BY DEF SendTypes, Sending, Answers, CallOK, Ambiguous, Leaves, AccountStill, Released
  <2> QED BY <2>1, <2>2, <2>3, <2>4 DEF SendTypes
<1>2. Heard'
  BY DEF SendTypes, Sending, Answers, Heard, CallOK, Ambiguous, AccountStill, Still, Ends, Leaves, AnswerIs, Released, Made, NotSending, Stopped, IsAllowed
<1>3. CallOK'
  BY DEF SendTypes, Sending, Answers, CallOK, Opening, IdOK, Heard, Ambiguous, AccountStill, Still, Ends, Leaves, AnswerIs, Released, Made, NotSending
<1>4. \A i \in Ids : IdOK(i)'
  BY DEF SendTypes, Sending, Answers, CallOK, Opening, IdOK, Heard, Ambiguous, AccountStill, Still, Ends, Leaves, AnswerIs, Released, Made, NotSending
<1> QED BY <1>1, <1>2, <1>3, <1>4

LEMMA RateLimitedKeeps ==
    ASSUME SendsInv, RateLimited
    PROVE  SendsInv'
<1> USE DEF SendsInv
<1>1. SendTypes'
  <2>1. sending' \in Sending
    BY SendingIs DEF SendTypes, RateLimited, Ends
  <2>2. answer' \in [Ids -> Answers]
    BY DEF SendTypes, Answers, CallOK, RateLimited, AnswerIs
  <2>3. held' \in [Ids -> {"none", "open", "closed"}] /\ created' \in [Ids -> Nat] /\ flight' \subseteq Ids
    BY DEF SendTypes, Sending, Answers, CallOK, RateLimited, Still, Made
  <2>4. late' \in Nat /\ unresolved' \subseteq Ids /\ UNCHANGED <<adapter, reg, stopLatch>>
    BY DEF SendTypes, Sending, Answers, CallOK, RateLimited, Leaves, AccountStill, Released
  <2> QED BY <2>1, <2>2, <2>3, <2>4 DEF SendTypes
<1>2. /\ \/ sending' = NotSending
         \/ /\ sending'.pc = IF adapter = "oanda" THEN "guard" ELSE "send"
            /\ sending'.id = sending.id /\ sending'.kind = sending.kind
            /\ UNCHANGED <<unresolved, answer>>
      /\ sending.pc = "send" /\ UNCHANGED <<adapter, reg, stopLatch, held, flight, created>>
      /\ late' = IF Stopped THEN late + 1 ELSE late
  BY DEF SendTypes, Sending, RateLimited, AccountStill, Still, Ends, Leaves
<1>3. CallOK'
  BY <1>2 DEF CallOK, Opening, NotSending
<1>5. Heard'
  BY <1>2, <1>3 DEF SendTypes, Heard, CallOK, NotSending, Stopped, IsAllowed
<1>4. \A i \in Ids : IdOK(i)'
  BY DEF SendTypes, Sending, Answers, CallOK, Opening, IdOK, Heard, RateLimited, AccountStill, Still, Ends, Leaves, AnswerIs, Released, Made, NotSending
<1> QED BY <1>1, <1>3, <1>4, <1>5

LEMMA ReloginKeeps ==
    ASSUME SendsInv, Relogin
    PROVE  SendsInv'
<1> USE DEF SendsInv
<1>1. SendTypes'
  <2>1. sending' \in Sending
    BY SendingIs DEF SendTypes, Relogin, Ends
  <2>2. answer' \in [Ids -> Answers]
    BY DEF SendTypes, Answers, CallOK, Relogin, AnswerIs
  <2>3. held' \in [Ids -> {"none", "open", "closed"}] /\ created' \in [Ids -> Nat] /\ flight' \subseteq Ids
    BY DEF SendTypes, Sending, Answers, CallOK, Relogin, Still, Made
  <2>4. late' \in Nat /\ unresolved' \subseteq Ids /\ UNCHANGED <<adapter, reg, stopLatch>>
    BY DEF SendTypes, Sending, Answers, CallOK, Relogin, Leaves, AccountStill, Released
  <2> QED BY <2>1, <2>2, <2>3, <2>4 DEF SendTypes
<1>2. Heard'
  BY DEF SendTypes, Sending, Answers, Heard, CallOK, Relogin, AccountStill, Still, Ends, Leaves, AnswerIs, Released, Made, NotSending, Stopped, IsAllowed
<1>3. CallOK'
  BY DEF SendTypes, Sending, Answers, CallOK, Opening, IdOK, Heard, Relogin, AccountStill, Still, Ends, Leaves, AnswerIs, Released, Made, NotSending
<1>4. \A i \in Ids : IdOK(i)'
  BY DEF SendTypes, Sending, Answers, CallOK, Opening, IdOK, Heard, Relogin, AccountStill, Still, Ends, Leaves, AnswerIs, Released, Made, NotSending
<1> QED BY <1>1, <1>2, <1>3, <1>4

LEMMA StaleVersionKeeps ==
    ASSUME SendsInv, StaleVersion
    PROVE  SendsInv'
<1> USE DEF SendsInv
<1>1. SendTypes'
  <2>1. sending' \in Sending
    BY SendingIs DEF SendTypes, StaleVersion, Ends
  <2>2. answer' \in [Ids -> Answers]
    BY DEF SendTypes, Answers, CallOK, StaleVersion, AnswerIs
  <2>3. held' \in [Ids -> {"none", "open", "closed"}] /\ created' \in [Ids -> Nat] /\ flight' \subseteq Ids
    BY DEF SendTypes, Sending, Answers, CallOK, StaleVersion, Still, Made
  <2>4. late' \in Nat /\ unresolved' \subseteq Ids /\ UNCHANGED <<adapter, reg, stopLatch>>
    BY DEF SendTypes, Sending, Answers, CallOK, StaleVersion, Leaves, AccountStill, Released
  <2> QED BY <2>1, <2>2, <2>3, <2>4 DEF SendTypes
<1>2. Heard'
  BY DEF SendTypes, Sending, Answers, Heard, CallOK, StaleVersion, AccountStill, Still, Ends, Leaves, AnswerIs, Released, Made, NotSending, Stopped, IsAllowed
<1>3. CallOK'
  <2>1. /\ \/ sending' = NotSending
           \/ /\ sending'.pc = sending.pc /\ sending'.id = sending.id /\ sending'.kind = "MODIFY2"
        /\ sending.pc = "send" /\ sending.kind = "MODIFY"
        /\ UNCHANGED <<adapter, held, flight, unresolved, answer>>
    BY DEF SendTypes, Sending, StaleVersion, AccountStill, Still, Ends
  <2> QED BY <2>1 DEF CallOK, Opening, NotSending
<1>4. \A i \in Ids : IdOK(i)'
  BY DEF SendTypes, Sending, Answers, CallOK, Opening, IdOK, Heard, StaleVersion, AccountStill, Still, Ends, Leaves, AnswerIs, Released, Made, NotSending
<1> QED BY <1>1, <1>2, <1>3, <1>4

LEMMA ReconcileSubmitKeeps ==
    ASSUME SendsInv, ReconcileSubmit
    PROVE  SendsInv'
<1> USE DEF SendsInv
<1>1. SendTypes'
  BY DEF SendTypes, Sending, Answers, ReconcileSubmit, AccountStill, Still, Ends, Leaves, AnswerIs, Released, Made, NotSending
<1>2. Heard'
  BY DEF SendTypes, Sending, Answers, Heard, CallOK, ReconcileSubmit, AccountStill, Still, Ends, Leaves, AnswerIs, Released, Made, NotSending, Stopped, IsAllowed
<1>3. CallOK'
  BY DEF SendTypes, Sending, Answers, CallOK, Opening, IdOK, Heard, ReconcileSubmit, AccountStill, Still, Ends, Leaves, AnswerIs, Released, Made, NotSending
<1>4. \A i \in Ids : IdOK(i)'
  BY DEF SendTypes, Sending, Answers, CallOK, Opening, IdOK, Heard, ReconcileSubmit, AccountStill, Still, Ends, Leaves, AnswerIs, Released, Made, NotSending
<1> QED BY <1>1, <1>2, <1>3, <1>4

LEMMA ConstructKeeps ==
    ASSUME SendsInv, NEW kind \in {"oanda", "dxtrade", "close_only"}, Construct(kind)
    PROVE  SendsInv'
BY DEF SendsInv, SendTypes, Heard, CallOK, Opening, IdOK, Construct, Still, NotSending, Stopped, IsAllowed

\* What an operator does leaves the call alone: late is forgotten exactly when the stop is over.
LEMMA OperatorKeeps ==
    ASSUME SendsInv, reg' \in [ok : BOOLEAN, enabled : BOOLEAN, stop : BOOLEAN],
           stopLatch' \in [Proc -> BOOLEAN],
           UNCHANGED <<adapter, sending, unresolved, held, flight, created, answer>>,
           \/ late' = IF ~Stopped' THEN 0 ELSE late
           \/ late' = late /\ (Stopped => Stopped')
    PROVE  SendsInv'
<1> USE DEF SendsInv
<1>1. SendTypes'
  BY DEF SendTypes
<1>2. Heard'
  BY DEF SendTypes, Heard
<1>3. CallOK' /\ \A i \in Ids : IdOK(i)'
  BY DEF CallOK, Opening, IdOK
<1> QED BY <1>1, <1>2, <1>3

LEMMA OperatorActsKeep ==
    ASSUME SendsInv,
           \/ \E p \in Proc : \/ \E on \in BOOLEAN : SetEnabled(p, on)
                              \/ EmergencyLatch(p) \/ EmergencyWrite(p) \/ ClearStop(p)
           \/ DatabaseTurns
    PROVE  SendsInv'
<1>0. SendTypes /\ "trader" \in Proc
  BY DEF SendsInv, Proc
<1>1. ASSUME NEW p \in Proc, NEW on \in BOOLEAN, SetEnabled(p, on) PROVE SendsInv'
  <2>1. /\ reg' \in [ok : BOOLEAN, enabled : BOOLEAN, stop : BOOLEAN] /\ stopLatch' \in [Proc -> BOOLEAN]
        /\ UNCHANGED <<adapter, sending, unresolved, held, flight, created, answer>>
    BY <1>0, <1>1 DEF SetEnabled, OperatorActs, SendTypes
  <2>2. late' = IF ~Stopped' THEN 0 ELSE late
    BY <1>0, <1>1 DEF SetEnabled, OperatorActs, Stopped, IsAllowed
  <2> QED BY <2>1, <2>2, OperatorKeeps
<1>2. ASSUME NEW p \in Proc, EmergencyLatch(p) PROVE SendsInv'
  <2>1. /\ reg' \in [ok : BOOLEAN, enabled : BOOLEAN, stop : BOOLEAN] /\ stopLatch' \in [Proc -> BOOLEAN]
        /\ UNCHANGED <<adapter, sending, unresolved, held, flight, created, answer>>
    BY <1>0, <1>2 DEF EmergencyLatch, OperatorActs, SendTypes
  <2>2. late' = IF ~Stopped' THEN 0 ELSE late
    BY <1>0, <1>2 DEF EmergencyLatch, OperatorActs, Stopped, IsAllowed
  <2> QED BY <2>1, <2>2, OperatorKeeps
<1>3. ASSUME NEW p \in Proc, EmergencyWrite(p) PROVE SendsInv'
  <2>1. /\ reg' \in [ok : BOOLEAN, enabled : BOOLEAN, stop : BOOLEAN] /\ stopLatch' = stopLatch
        /\ UNCHANGED <<adapter, sending, unresolved, held, flight, created, answer, late>>
        /\ reg' = reg \/ reg'.stop
    BY <1>0, <1>3 DEF EmergencyWrite, SendTypes
  <2>2. Stopped => Stopped'
    BY <2>1 DEF Stopped, IsAllowed
  <2> QED BY <1>0, <2>1, <2>2, OperatorKeeps DEF SendTypes
<1>4. ASSUME NEW p \in Proc, ClearStop(p) PROVE SendsInv'
  <2>1. /\ reg' \in [ok : BOOLEAN, enabled : BOOLEAN, stop : BOOLEAN] /\ stopLatch' \in [Proc -> BOOLEAN]
        /\ UNCHANGED <<adapter, sending, unresolved, held, flight, created, answer>>
    BY <1>0, <1>4 DEF ClearStop, OperatorActs, SendTypes
  <2>2. late' = IF ~Stopped' THEN 0 ELSE late
    BY <1>0, <1>4 DEF ClearStop, OperatorActs, Stopped, IsAllowed
  <2> QED BY <2>1, <2>2, OperatorKeeps
<1>5. CASE DatabaseTurns
  <2>1. /\ reg' \in [ok : BOOLEAN, enabled : BOOLEAN, stop : BOOLEAN] /\ stopLatch' \in [Proc -> BOOLEAN]
        /\ UNCHANGED <<adapter, sending, unresolved, held, flight, created, answer>>
    BY <1>0, <1>5 DEF DatabaseTurns, OperatorActs, SendTypes
  <2>2. late' = IF ~Stopped' THEN 0 ELSE late
    BY <1>0, <1>5 DEF DatabaseTurns, OperatorActs, Stopped, IsAllowed
  <2> QED BY <2>1, <2>2, OperatorKeeps
<1> QED BY <1>1, <1>2, <1>3, <1>4, <1>5

LEMMA SendsInitially == SendsInit => SendsInv
<1> SUFFICES ASSUME SendsInit PROVE SendsInv
  OBVIOUS
<1>1. SendTypes
  BY DEF SendsInit, SendTypes, Sending, Answers, NotSending
<1>2. Heard /\ CallOK
  BY DEF SendsInit, Heard, CallOK, Opening, NotSending
<1>3. \A i \in Ids : IdOK(i)
  BY DEF SendsInit, IdOK
<1> QED BY <1>1, <1>2, <1>3 DEF SendsInv

LEMMA SendsStep == SendsInv /\ [SendsNext]_sendVars => SendsInv'
<1> SUFFICES ASSUME SendsInv, [SendsNext]_sendVars PROVE SendsInv'
  OBVIOUS
<1>1. CASE SendsNext
  BY <1>1, OperatorActsKeep, ConstructKeeps, OandaSubmitKeeps, DxSubmitKeeps, ModifyKeeps, DxModifyKeeps,
     CloseMarketKeeps, LateArrivalKeeps, SubmitGateKeeps, PreSendGuardKeeps, TakenByBrokerKeeps,
     RefusedByBrokerKeeps, AmbiguousKeeps, RateLimitedKeeps, ReloginKeeps, StaleVersionKeeps,
     ReconcileSubmitKeeps DEF SendsNext
<1>2. CASE UNCHANGED sendVars
  BY <1>2 DEF SendsInv, SendTypes, Heard, CallOK, Opening, IdOK, Stopped, IsAllowed, sendVars
<1> QED BY <1>1, <1>2

\* Calls, latched ids, orders that may still appear and answers, in every reachable state: the
\* inductive invariant of the adapters, for any ids, retries and operator actions.
THEOREM SendsInvariant == SendsSpec => []SendsInv
BY SendsInitially, SendsStep, PTL DEF SendsSpec

\* A stop is heard: with OANDA at most the attempt that had passed its guard still leaves, at
\* whichever step of a call the switch, the latch or the database turns (_pre_send_guard).
THEOREM StopIsHeardHolds == SendsSpec => []StopIsHeard
<1>1. SendsInv => StopIsHeard
  BY DEF SendsInv, Heard, StopIsHeard, SendTypes
<1> QED BY <1>1, SendsInvariant, PTL

\* A refusal is true and OANDA never makes two orders of one id, however late what was lost
\* arrives and however often the id is submitted (_submit_plan, unresolved ids).
THEOREM DefiniteIsTrueHolds == SendsSpec => []DefiniteIsTrue
<1>1. SendsInv => DefiniteIsTrue
  BY DEF SendsInv, IdOK, DefiniteIsTrue
<1> QED BY <1>1, SendsInvariant, PTL

-----------------------------------------------------------------------------
\* BrokerAlerts: a key the sink remembers was accepted with an event of that key, at that time.
AnyEvent == [kind : {"CLOSED", "DRIFT", "MANUAL_CLOSE"}, trade : TradeId \cup {NoTrade}]
Remembered ==
    /\ accepted \subseteq [event : AnyEvent, at : Nat]
    /\ clock \in Nat
    /\ \A l \in sink.last : \E a \in accepted : KeyOf(a.event) = l.key /\ a.at = l.at
Dropped ==
    offer.verdict = "duplicate" =>
       \E a \in accepted :
          /\ a.event.kind = offer.event.kind
          /\ offer.event.kind \in RichKinds => a.event = offer.event
          /\ offer.at - a.at < DedupSeconds

\* A row is handed over under its only claim.
HandedOK ==
    /\ outbox \in [TradeId -> [status : {"none", "PENDING", "CLAIMED", "SENT", "UNKNOWN"}, at : Nat]]
    /\ drain \subseteq TradeId /\ handed \in Seq(TradeId)
    /\ \A t \in drain : outbox[t].status = "CLAIMED" /\ \A i \in 1..Len(handed) : handed[i] # t
    /\ \A i \in 1..Len(handed) : outbox[handed[i]].status \in {"CLAIMED", "SENT", "UNKNOWN"}
    /\ \A i, j \in 1..Len(handed) : handed[i] = handed[j] => i = j
AlertsInv == Remembered /\ Dropped /\ HandedOK

\* One more row is handed over, under its claim.
LEMMA OneMore ==
    ASSUME HandedOK, NEW t \in drain,
           handed' \in Seq(TradeId), Len(handed') = Len(handed) + 1, handed'[Len(handed) + 1] = t,
           \A i \in 1..Len(handed) : handed'[i] = handed[i],
           drain' \subseteq drain \ {t},
           outbox' \in {outbox, [outbox EXCEPT ![t].status = "SENT"]}
    PROVE  HandedOK'
<1> USE DEF HandedOK
<1>1. /\ outbox' \in [TradeId -> [status : {"none", "PENDING", "CLAIMED", "SENT", "UNKNOWN"}, at : Nat]]
      /\ \A u \in TradeId : u # t => outbox'[u] = outbox[u]
      /\ outbox'[t].status \in {"CLAIMED", "SENT"}
  <2>1. t \in TradeId /\ outbox[t].status = "CLAIMED"
    OBVIOUS
  <2>2. CASE outbox' = outbox
    BY <2>1, <2>2
  <2>3. CASE outbox' = [outbox EXCEPT ![t].status = "SENT"]
    <3> DEFINE row == [outbox[t] EXCEPT !.status = "SENT"]
    <3>1. row \in [status : {"none", "PENDING", "CLAIMED", "SENT", "UNKNOWN"}, at : Nat] /\ row.status = "SENT"
      BY <2>1
    <3>2. outbox' = [outbox EXCEPT ![t] = row]
      BY <2>3
    <3> HIDE DEF row
    <3> QED BY <2>1, <3>1, <3>2
  <2> QED BY <2>2, <2>3
<1>2. \A i \in 1..Len(handed') : i \in 1..Len(handed) \/ (i = Len(handed) + 1 /\ handed'[i] = t)
  OBVIOUS
<1>3. \A u \in drain' : outbox'[u].status = "CLAIMED" /\ \A i \in 1..Len(handed') : handed'[i] # u
  <2> SUFFICES ASSUME NEW u \in drain'
               PROVE  outbox'[u].status = "CLAIMED" /\ \A i \in 1..Len(handed') : handed'[i] # u
    OBVIOUS
  <2>1. u \in drain /\ u # t /\ u \in TradeId
    OBVIOUS
  <2> QED BY <1>1, <1>2, <2>1
<1>4. \A i \in 1..Len(handed') : outbox'[handed'[i]].status \in {"CLAIMED", "SENT", "UNKNOWN"}
  <2> SUFFICES ASSUME NEW i \in 1..Len(handed')
               PROVE  outbox'[handed'[i]].status \in {"CLAIMED", "SENT", "UNKNOWN"}
    OBVIOUS
  <2>1. CASE i \in 1..Len(handed)
    <3>1. handed'[i] = handed[i] /\ handed[i] \in TradeId /\ handed[i] # t
      BY <2>1
    <3> QED BY <1>1, <2>1, <3>1
  <2> QED BY <1>1, <1>2, <2>1
<1>5. \A i, j \in 1..Len(handed') : handed'[i] = handed'[j] => i = j
  <2> SUFFICES ASSUME NEW i \in 1..Len(handed'), NEW j \in 1..Len(handed'), handed'[i] = handed'[j]
               PROVE  i = j
    OBVIOUS
  <2> QED BY <1>2
<1>6. drain' \subseteq TradeId
  OBVIOUS
<1> QED BY <1>1, <1>3, <1>4, <1>5, <1>6

\* An event is offered: what is remembered stays so, and a duplicate has its reason.
LEMMA OfferKeeps ==
    ASSUME AlertsInv, NEW event \in AnyEvent, sink' = SinkAfter(sink, event), Offered(event),
           clock' = clock, rich' = rich
    PROVE  Remembered' /\ Dropped'
<1> DEFINE v == Verdict(sink, event)
<1> USE DEF AlertsInv
<1>1. /\ offer'.event = event /\ offer'.at = clock /\ offer'.verdict = v
      /\ accepted' = IF v \in {"queued", "full"}
                     THEN {a \in accepted : a.event # event} \cup {[event |-> event, at |-> clock]} ELSE accepted
  BY DEF Offered
<1>2. sink' = CASE v \in {"folded", "duplicate"} -> sink
                [] v = "capped" -> [sink EXCEPT !.sent = Recent(sink)]
                [] OTHER -> [last |-> {l \in sink.last : l.key # KeyOf(event)} \cup {[key |-> KeyOf(event), at |-> clock]},
                             sent |-> Append(Recent(sink), clock),
                             queue |-> IF v = "queued" THEN Append(sink.queue, event) ELSE sink.queue]
  BY DEF SinkAfter
<1>3. v \in {"folded", "duplicate", "capped", "full", "queued"} /\ (v = "duplicate" => Duplicate(sink, KeyOf(event)))
  BY DEF Verdict
<1> HIDE DEF v
<1>4. accepted' \subseteq [event : AnyEvent, at : Nat]
  BY <1>1 DEF Remembered
<1>5. \A l \in sink'.last : \E a \in accepted' : KeyOf(a.event) = l.key /\ a.at = l.at
  <2>1. CASE v \in {"queued", "full"}
    <3>1. /\ sink'.last = {l \in sink.last : l.key # KeyOf(event)} \cup {[key |-> KeyOf(event), at |-> clock]}
          /\ accepted' = {a \in accepted : a.event # event} \cup {[event |-> event, at |-> clock]}
      BY <1>1, <1>2, <2>1
    <3>2. ASSUME NEW l \in sink.last, l.key # KeyOf(event)
          PROVE  \E a \in accepted' : KeyOf(a.event) = l.key /\ a.at = l.at
      <4>1. PICK a \in accepted : KeyOf(a.event) = l.key /\ a.at = l.at
        BY DEF Remembered
      <4> QED BY <3>1, <3>2, <4>1
    <3>3. \E a \in accepted' : KeyOf(a.event) = KeyOf(event) /\ a.at = clock
      <4> DEFINE new == [event |-> event, at |-> clock]
      <4>1. new \in accepted' /\ new.event = event /\ new.at = clock
        BY <3>1
      <4> HIDE DEF new
      <4> QED BY <4>1
    <3> QED BY <3>1, <3>2, <3>3
  <2>2. CASE v \in {"folded", "duplicate", "capped"}
    <3>1. sink'.last = sink.last /\ accepted' = accepted
      BY <1>1, <1>2, <2>2
    <3> QED BY <3>1 DEF Remembered
  <2> QED BY <1>3, <2>1, <2>2
<1>6. Dropped'
  <2> SUFFICES ASSUME v = "duplicate"
               PROVE  \E a \in accepted' : /\ a.event.kind = event.kind
                                           /\ event.kind \in RichKinds => a.event = event
                                           /\ clock - a.at < DedupSeconds
    BY <1>1 DEF Dropped
  <2>1. PICK l \in sink.last : l.key = KeyOf(event) /\ clock - l.at < DedupSeconds
    BY <1>3 DEF Duplicate
  <2>2. PICK a \in accepted : KeyOf(a.event) = KeyOf(event) /\ a.at = l.at
    BY <2>1 DEF Remembered
  <2>3. a \in accepted' /\ a.event \in AnyEvent
    BY <1>1 DEF Remembered
  <2>4. a.event.kind = event.kind /\ (event.kind \in RichKinds => a.event.trade = event.trade)
    BY <2>2 DEF KeyOf
  <2>5. a.event.kind = event.kind /\ a.event.trade = event.trade => a.event = event
    BY <2>3 DEF AnyEvent
  <2> QED BY <2>1, <2>2, <2>3, <2>4, <2>5
<1>7. clock' \in Nat
  BY DEF Remembered
<1> QED BY <1>4, <1>5, <1>6, <1>7 DEF Remembered

LEMMA AlertsStep == AlertsInv /\ [BrokerAlertsNext]_alertVars => AlertsInv'
<1> SUFFICES ASSUME AlertsInv, [BrokerAlertsNext]_alertVars PROVE AlertsInv'
  OBVIOUS
<1> USE DEF AlertsInv
<1>1. CASE RouterEvent
  <2>1. PICK event \in Event : sink' = SinkAfter(sink, event) /\ Offered(event)
    BY <1>1 DEF RouterEvent
  <2>2. event \in AnyEvent
    BY DEF Event, AnyEvent
  <2>3. Remembered' /\ Dropped'
    BY <1>1, <2>1, <2>2, OfferKeeps DEF RouterEvent
  <2> QED BY <1>1, <2>3 DEF RouterEvent, HandedOK
<1>2. CASE DeliverReport
  <2>1. sink'.last = sink.last
    BY <1>2 DEF DeliverReport
  <2> QED BY <1>2, <2>1 DEF DeliverReport, Remembered, Dropped, HandedOK
<1>3. CASE CompleteManual
  <2>1. PICK t \in TradeId : outbox[t].status = "none" /\ outbox' = [outbox EXCEPT ![t].status = "PENDING"]
    BY <1>3 DEF CompleteManual
  <2>2. HandedOK'
    BY <1>3, <2>1 DEF CompleteManual, HandedOK
  <2> QED BY <1>3, <2>2 DEF CompleteManual, Remembered, Dropped
<1>4. CASE ClaimOutbox
  <2>1. /\ drain = {} /\ drain' = {t \in TradeId : outbox[t].status = "PENDING"}
        /\ outbox' = [t \in TradeId |->
                        CASE t \in drain' -> [status |-> "CLAIMED", at |-> clock]
                          [] outbox[t].status = "CLAIMED" /\ outbox[t].at + Grace < clock ->
                               [outbox[t] EXCEPT !.status = "UNKNOWN"]
                          [] OTHER -> outbox[t]]
        /\ UNCHANGED <<clock, rich, sink, accepted, offer, handed>>
    BY <1>4 DEF ClaimOutbox
  <2>2. outbox' \in [TradeId -> [status : {"none", "PENDING", "CLAIMED", "SENT", "UNKNOWN"}, at : Nat]]
    BY <2>1 DEF HandedOK, Remembered
  <2>3. \A t \in drain' : outbox'[t].status = "CLAIMED" /\ \A i \in 1..Len(handed) : handed[i] # t
    BY <2>1 DEF HandedOK
  <2>4. \A i \in 1..Len(handed) : outbox'[handed[i]].status \in {"CLAIMED", "SENT", "UNKNOWN"}
    <3> SUFFICES ASSUME NEW i \in 1..Len(handed)
                 PROVE  outbox'[handed[i]].status \in {"CLAIMED", "SENT", "UNKNOWN"}
      OBVIOUS
    <3>1. handed[i] \in TradeId /\ outbox[handed[i]].status \in {"CLAIMED", "SENT", "UNKNOWN"}
      BY DEF HandedOK
    <3> QED BY <2>1, <3>1 DEF HandedOK
  <2>5. HandedOK'
    BY <2>1, <2>2, <2>3, <2>4 DEF HandedOK
  <2> QED BY <2>1, <2>5 DEF Remembered, Dropped
<1>5. CASE HandOver
  <2>1. PICK t \in drain, written \in BOOLEAN :
          LET event == [kind |-> "MANUAL_CLOSE", trade |-> t]
          IN  /\ sink' = SinkAfter(sink, event)
              /\ Offered(event)
              /\ handed' = Append(handed, t)
              /\ drain' = drain \ {t}
              /\ outbox' = IF written THEN [outbox EXCEPT ![t].status = "SENT"] ELSE outbox
    BY <1>5 DEF HandOver
  <2>2. t \in TradeId /\ [kind |-> "MANUAL_CLOSE", trade |-> t] \in AnyEvent
    BY DEF HandedOK, AnyEvent
  <2>3. Remembered' /\ Dropped'
    BY <1>5, <2>1, <2>2, OfferKeeps DEF HandOver
  <2>4. /\ handed' \in Seq(TradeId) /\ Len(handed') = Len(handed) + 1 /\ handed'[Len(handed) + 1] = t
        /\ \A i \in 1..Len(handed) : handed'[i] = handed[i]
    BY <2>1, <2>2 DEF HandedOK
  <2>5. HandedOK'
    BY <2>1, <2>4, OneMore
  <2> QED BY <2>3, <2>5
<1>6. CASE AlertRestart
  <2>1. Remembered' /\ Dropped'
    BY <1>6 DEF AlertRestart, Remembered, Dropped, EmptySink
  <2>2. drain' = {} /\ outbox' = outbox
    BY <1>6 DEF AlertRestart
  <2>3. ASSUME handed' = handed PROVE HandedOK'
    BY <2>2, <2>3 DEF HandedOK
  <2>4. ASSUME NEW t \in drain, handed' = Append(handed, t) PROVE HandedOK'
    <3>1. t \in TradeId
      BY DEF HandedOK
    <3>2. /\ handed' \in Seq(TradeId) /\ Len(handed') = Len(handed) + 1 /\ handed'[Len(handed) + 1] = t
          /\ \A i \in 1..Len(handed) : handed'[i] = handed[i]
      BY <2>4, <3>1 DEF HandedOK
    <3> QED BY <2>2, <3>1, <3>2, OneMore
  <2> QED BY <1>6, <2>1, <2>3, <2>4 DEF AlertRestart, HandedOK
<1>7. CASE Passes
  BY <1>7 DEF Passes, Remembered, Dropped, HandedOK
<1>8. CASE UNCHANGED alertVars
  BY <1>8 DEF alertVars, Remembered, Dropped, HandedOK
<1> QED BY <1>1, <1>2, <1>3, <1>4, <1>5, <1>6, <1>7, <1>8 DEF BrokerAlertsNext

LEMMA AlertsInitially == BrokerAlertsInit => AlertsInv
BY DEF BrokerAlertsInit, AlertsInv, Remembered, Dropped, HandedOK, EmptySink

\* A report is only dropped for one of the same event, and the row of a manual close is handed
\* over once over all restarts, for any caps, queues and times (_allowed, claim_outbox).
THEOREM ReportedOnceHolds == BrokerAlertsSpec => []ReportedOnce
<1>1. BrokerAlertsSpec => []AlertsInv
  BY AlertsInitially, AlertsStep, PTL DEF BrokerAlertsSpec
<1>2. AlertsInv => ReportedOnce
  BY DEF AlertsInv, Dropped, HandedOK, ReportedOnce
<1> QED BY <1>1, <1>2, PTL

-----------------------------------------------------------------------------
\* Each of the two takes its own steps or none.
LEMMA SidesApart == [SideNext]_sideVars => [SendsNext]_sendVars /\ [BrokerAlertsNext]_alertVars
BY DEF SideNext, sideVars

\* What leaves the process is what it says: stops are heard, refusals are true and reports are
\* neither swallowed nor repeated, for any constants.
THEOREM BrokerToldHolds == SideSpec => []BrokerTold
<1>1. SideSpec => SendsSpec /\ BrokerAlertsSpec
  BY SidesApart, PTL DEF SideSpec, SideInit, SendsSpec, BrokerAlertsSpec
<1>2. StopIsHeard /\ DefiniteIsTrue /\ ReportedOnce => BrokerTold
  BY DEF BrokerTold
<1> QED BY <1>1, <1>2, StopIsHeardHolds, DefiniteIsTrueHolds, ReportedOnceHolds, PTL
=============================================================================
