---------------------------- MODULE OandaAccount ----------------------------
(***************************************************************************)
(* The OANDA practice account as the router sees it through                *)
(* execution/oanda_broker.py: what became of the order of each client id,  *)
(* trades the router did not place, and write requests that left the       *)
(* process but whose answer never came back.  The broker itself is         *)
(* external; the answers a write call can give are translated from         *)
(* OandaBroker (ACCEPTED / REJECTED / UNKNOWN and the definite errors).    *)
(***************************************************************************)
EXTENDS FiniteSets

CONSTANTS
    Cid,           \* client ids aif-<run_id>: one per routed candidate cycle
    Foreign,       \* trades opened on the account by something else
    LimitCid       \* those whose entry is a GTD limit order (EURUSD pullback ON)

ASSUME LimitCidAssumption == LimitCid \subseteq Cid
ASSUME ForeignAssumption == Foreign \cap Cid = {}

VARIABLES
    order,      \* client id -> what the broker holds for it
    moved,      \* client ids whose stop at the broker is at breakeven
    wire,       \* unanswered write requests the broker may still process
    foreign     \* foreign trades open now

accountVars == <<order, moved, wire, foreign>>

OrderState == {"none", "resting", "open", "closed", "gone"}
WriteKind == {"SUBMIT", "CLOSE", "CANCEL", "MODIFY"}
Answer == {"ACCEPTED", "RESTING", "REJECTED", "ABSENT", "FAILED", "UNKNOWN"}

AccountTypeOK ==
    /\ order \in [Cid -> OrderState]
    /\ moved \subseteq Cid
    /\ wire \subseteq WriteKind \X Cid
    /\ foreign \subseteq Foreign

AccountInit ==
    /\ order = [c \in Cid |-> "none"]
    /\ moved = {}
    /\ wire = {}
    /\ foreign = {}

OpenAtBroker == {c \in Cid : order[c] = "open"}
Resting == {c \in Cid : order[c] = "resting"}
\* An order of ours that is, or may yet become, a position.
Exposed == {c \in Cid : order[c] \in {"resting", "open"} \/ <<"SUBMIT", c>> \in wire}

\* GET openTrades, GET pendingOrders, GET trades/@<client id> (any state).
OpenTrades == OpenAtBroker \cup foreign
TradeExists(c) == order[c] \in {"open", "closed"}

SetOrder(c, s) == order' = [order EXCEPT ![c] = s]

-----------------------------------------------------------------------------
\* What the broker does when it processes a request.
Processed(kind, c) ==
    \/ /\ kind = "SUBMIT" /\ order[c] = "none"
       /\ \E s \in {"open", "gone"} \cup (IF c \in LimitCid THEN {"resting"} ELSE {}) :
            SetOrder(c, s)
       /\ UNCHANGED moved
    \/ /\ kind = "CLOSE" /\ order[c] = "open" /\ SetOrder(c, "closed")
       /\ UNCHANGED moved
    \/ /\ kind = "CANCEL" /\ order[c] = "resting" /\ SetOrder(c, "gone")
       /\ UNCHANGED moved
    \/ /\ kind = "MODIFY" /\ order[c] = "open" /\ moved' = moved \cup {c}
       /\ UNCHANGED order

\* A call that came back: the answer tells what was done.
Answered(kind, c, answer) ==
    /\ UNCHANGED <<wire, foreign>>
    /\ \/ /\ answer = "ACCEPTED" /\ Processed(kind, c)
          /\ kind = "SUBMIT" => order'[c] = "open"
       \/ /\ answer = "RESTING" /\ kind = "SUBMIT" /\ Processed(kind, c)
          /\ order'[c] = "resting"
       \/ /\ answer = "REJECTED" /\ kind = "SUBMIT" /\ Processed(kind, c)
          /\ order'[c] = "gone"
       \/ /\ answer = "REJECTED" /\ kind # "SUBMIT" /\ UNCHANGED <<order, moved>>
       \/ /\ answer = "ABSENT" /\ UNCHANGED <<order, moved>>
          /\ \/ kind = "CLOSE" /\ order[c] # "open"
             \/ kind = "CANCEL" /\ order[c] # "resting"
       \/ /\ answer = "FAILED" /\ UNCHANGED <<order, moved>>

\* Timeout, 5xx or an answer without evidence: the request may be processed
\* at once, later or never.
Unanswered(kind, c) ==
    /\ wire' = wire \cup {<<kind, c>>}
    /\ UNCHANGED <<order, moved, foreign>>

\* One write call on the account and the answer the adapter makes of it.
WriteCall(kind, c, answer) ==
    IF answer = "UNKNOWN" THEN Unanswered(kind, c) ELSE Answered(kind, c, answer)

-----------------------------------------------------------------------------
\* The broker's own steps.
Deliver(kind, c) ==
    /\ <<kind, c>> \in wire
    /\ wire' = wire \ {<<kind, c>>}
    /\ Processed(kind, c)
    /\ UNCHANGED foreign

Drop(kind, c) ==
    /\ <<kind, c>> \in wire
    /\ wire' = wire \ {<<kind, c>>}
    /\ UNCHANGED <<order, moved, foreign>>

FillLimit(c) ==
    /\ order[c] = "resting" /\ SetOrder(c, "open")
    /\ UNCHANGED <<moved, wire, foreign>>

ExpireLimit(c) ==
    /\ order[c] = "resting" /\ SetOrder(c, "gone")
    /\ UNCHANGED <<moved, wire, foreign>>

StopOrTarget(c) ==
    /\ order[c] = "open" /\ SetOrder(c, "closed")
    /\ UNCHANGED <<moved, wire, foreign>>

ForeignTrade(f) ==
    /\ foreign' = IF f \in foreign THEN foreign \ {f} ELSE foreign \cup {f}
    /\ UNCHANGED <<order, moved, wire>>

AccountStep ==
    \/ \E kind \in WriteKind, c \in Cid : Deliver(kind, c) \/ Drop(kind, c)
    \/ \E c \in Cid : FillLimit(c) \/ ExpireLimit(c) \/ StopOrTarget(c)
    \/ \E f \in Foreign : ForeignTrade(f)
=============================================================================
