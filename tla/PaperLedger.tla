----------------------------- MODULE PaperLedger -----------------------------
(***************************************************************************)
(* What the paper account promises, whoever writes it: per symbol at most  *)
(* one pending order or open position, an order of a run settled once, a   *)
(* position that only moves forward in time and is booked as a trade once. *)
(* execution/paper_broker.py and trade_manager.py give the transitions;    *)
(* PaperCycle shows that the runtimes sharing the database keep to them.   *)
(***************************************************************************)
EXTENDS Naturals

CONSTANTS
    Symbol,     \* symbols of the paper account
    MaxSlot,    \* bound: last 15-minute slot
    Flat        \* no open position

ASSUME MaxSlotAssumption == MaxSlot \in Nat

Slot == 0..MaxSlot
OrderStatus == {"NONE", "PENDING", "FILLED", "CANCELLED", "REJECTED"}
Position == [run : Slot, opened : Slot, mark : Slot]
ASSUME FlatAssumption == Flat \notin Position

VARIABLES
    order,      \* symbol -> slot of the run -> status of the order of that run
    position,   \* symbol -> open position: its run, fill bar and last bar applied
    trades      \* symbol -> slot of the run -> closed trades booked for it

ledgerVars == <<order, position, trades>>

\* The types of the ledger.
LedgerTypeOK ==
    /\ order \in [Symbol -> [Slot -> OrderStatus]]
    /\ position \in [Symbol -> Position \cup {Flat}]
    /\ trades \in [Symbol -> [Slot -> Nat]]

Pending(s) == {t \in Slot : order[s][t] = "PENDING"}

\* A symbol starts flat, or with the order or the position of an earlier run.
LedgerInit ==
    /\ trades = [s \in Symbol |-> [t \in Slot |-> 0]]
    /\ position \in [Symbol -> {Flat, [run |-> 0, opened |-> 0, mark |-> 0]}]
    /\ \E first \in [Symbol -> {"NONE", "PENDING"}] :
         order = [s \in Symbol |-> [t \in Slot |->
                    IF t > 0 THEN "NONE" ELSE IF position[s] = Flat THEN first[s] ELSE "FILLED"]]

Submit_OpenSymbol(s, t) ==   \* mutant: an open position does not block an order
    /\ Pending(s) = {} /\ order[s][t] = "NONE"
    /\ order' = [order EXCEPT ![s][t] = "PENDING"]
    /\ UNCHANGED <<position, trades>>

Submit(s, t) ==
    /\ Pending(s) = {} /\ position[s] = Flat /\ order[s][t] = "NONE"
    /\ order' = [order EXCEPT ![s][t] = "PENDING"]
    /\ UNCHANGED <<position, trades>>

\* A cancel takes every order that is due, a rejection the one being filled.
Settle(s, due) ==
    /\ due # {} /\ due \subseteq Pending(s)
    /\ \E r \in {"CANCELLED", "REJECTED"} :
         order' = [order EXCEPT ![s] = [t \in Slot |-> IF t \in due THEN r ELSE @[t]]]
    /\ UNCHANGED <<position, trades>>

Fill(s, t, b) ==
    /\ order[s][t] = "PENDING" /\ b > t
    /\ order' = [order EXCEPT ![s][t] = "FILLED"]
    /\ position' = [position EXCEPT ![s] = [run |-> t, opened |-> b, mark |-> b]]
    /\ UNCHANGED trades

Bar(s, b) ==
    /\ position[s] # Flat /\ b > position[s].mark
    /\ position' = [position EXCEPT ![s].mark = b]
    /\ UNCHANGED <<order, trades>>

Close_Kept(s) ==   \* mutant: the closed position stays open
    /\ position[s] # Flat
    /\ trades' = [trades EXCEPT ![s][position[s].run] = IF @ < 2 THEN @ + 1 ELSE @]
    /\ UNCHANGED <<order, position>>

Close(s) ==
    /\ position[s] # Flat
    /\ trades' = [trades EXCEPT ![s][position[s].run] = @ + 1]
    /\ position' = [position EXCEPT ![s] = Flat]
    /\ UNCHANGED order

LedgerNext ==
    \E s \in Symbol :
        \/ \E t \in Slot : Submit(s, t)
        \/ \E due \in SUBSET Slot : Settle(s, due)
        \/ \E t, b \in Slot : Fill(s, t, b)
        \/ \E b \in Slot : Bar(s, b)
        \/ Close(s)

LedgerSpec == LedgerInit /\ [][LedgerNext]_ledgerVars

\* One exposure per symbol: never two pending orders, nor a pending order beside
\* an open position (the gate of _run_cycle before submit_plan).
OneExposure ==
    \A s \in Symbol : /\ \A t, u \in Pending(s) : t = u
                      /\ position[s] # Flat => Pending(s) = {}

\* The result of a run is booked once, and only after its position is gone.
BookedOnce ==
    \A s \in Symbol, t \in Slot :
        /\ trades[s][t] <= 1
        /\ trades[s][t] = 1 \/ (position[s] # Flat /\ position[s].run = t) => order[s][t] = "FILLED"
        /\ trades[s][t] = 1 => position[s] = Flat \/ position[s].run # t

\* The account holds one exposure per symbol and books each result once, whichever runtime
\* writes it (paper_broker.py submit_plan, trade_manager.py _close).
LedgerSound == OneExposure /\ BookedOnce
=============================================================================
