--------------------------- MODULE DailyLossLimit ---------------------------
(***************************************************************************)
(* The daily loss limit and the drawdown halt of the demo router           *)
(* (execution/daily_loss_limit.py and the router's _loss_* methods).       *)
(*                                                                         *)
(* The account's NAV is its trading result plus the transfers; the limits  *)
(* are about the trading result alone. A tick reads one balance, folds the *)
(* transfers since the stored cursor into the flags, rolls the day, judges *)
(* both limits and remembers the NAV. Flags are written one by one: a      *)
(* write may fail and the process may die between two of them.             *)
(***************************************************************************)
EXTENDS Integers, Sequences

CONSTANTS
    Unset,       \* a flag that is not set
    Opening,    \* NAV when the account was opened
    Results,    \* what trading alone makes of it
    Amounts,    \* amounts deposited or withdrawn
    Risks,      \* planned risks of an entry
    Flatten,    \* AI_FLOOR_DAILY_LOSS_FLATTEN
    DayLength,  \* moments of a trading day
    MaxAge,     \* LAST_NAV_MAX_AGE, in moments
    MaxNow, MaxTransfers, MaxLossFaults   \* bounds

ASSUME LossAssumption ==
    /\ Opening \in Int /\ Results \subseteq Int /\ Amounts \subseteq Int /\ Risks \subseteq Int
    /\ Flatten \in BOOLEAN /\ DayLength \in Nat \ {0} /\ MaxAge \in Nat
    /\ Unset \notin Int

VARIABLES
    account,    \* the broker: trading result and the total of the transfers up to each id
    now,
    flags,      \* broker_demo_flags
    latches,      \* _HALT_LATCHES of the process
    tick,       \* the evaluation or the clear under way, and the last decision
    seen,       \* observed: trading results behind last_nav, e0 and dd_start; whether
                \* last_nav and e0 have every transfer that was applied; the halts due
    lossFaults

lossVars == <<account, now, flags, latches, tick, seen, lossFaults>>

LimitPercent == 2
DrawdownPercent == 5
MovedBy(id) == IF id = 0 THEN 0 ELSE account.moved[id]
Nav == account.result + MovedBy(Len(account.moved))
DayKey == now \div DayLength
OrZero(v) == IF v = Unset THEN 0 ELSE v
Idle == [pc |-> "idle", nav |-> 0, result |-> 0, tx |-> 0, risk |-> Unset,
         todo |-> {}, allowed |-> FALSE, flatten |-> FALSE, made |-> FALSE]

LossInit ==
    /\ account = [result |-> Opening, moved |-> <<>>]
    /\ now = 0
    /\ flags = [day |-> Unset, e0 |-> Unset, transfers |-> Unset, halt |-> Unset, ddStart |-> Unset,
                ddHalt |-> Unset, ddTransfers |-> Unset, lastNav |-> Unset, lastAt |-> Unset, tx |-> Unset]
    /\ latches = [daily |-> Unset, dd |-> FALSE]
    /\ tick = Idle
    /\ seen = [last |-> Unset, e0 |-> Unset, dd |-> Unset, whole |-> TRUE, wholeE0 |-> TRUE,
               daily |-> Unset, drawdown |-> FALSE]
    /\ lossFaults = 0

-----------------------------------------------------------------------------
\* The broker. A tick works on the balance it read: what happens at the broker after that
\* is seen by the next one, except a transfer before the transactions are asked for.

Trade == /\ tick.pc = "idle"
         /\ \E r \in Results \ {account.result} : account' = [account EXCEPT !.result = r]
         /\ UNCHANGED <<now, flags, latches, tick, seen, lossFaults>>
Transfer == /\ tick.pc \in {"idle", "transfers"} /\ Len(account.moved) < MaxTransfers
            /\ \E a \in Amounts, sign \in {1, -1} : account' = [account EXCEPT !.moved = Append(@, MovedBy(Len(@)) + sign * a)]
            /\ UNCHANGED <<now, flags, latches, tick, seen, lossFaults>>
TimePasses == /\ now < MaxNow /\ tick.pc = "idle"
              /\ now' = now + 1
              /\ tick' = Idle
              /\ UNCHANGED <<account, flags, latches, seen, lossFaults>>

-----------------------------------------------------------------------------
\* The tick.

DailyHalted == latches.daily = DayKey \/ flags.halt = DayKey
DrawdownHalted == latches.dd \/ flags.ddHalt # Unset
ActiveFlatten == DrawdownHalted \/ (DailyHalted /\ Flatten)
Refused == [Idle EXCEPT !.flatten = ActiveFlatten, !.made = TRUE]

\* get_balance: NAV and lastTransactionID of one summary.
ReadBalance ==
    /\ tick.pc = "idle"
    /\ \E risk \in Risks \cup {Unset} :
         tick' = [Idle EXCEPT !.pc = "transfers", !.nav = Nav, !.result = account.result,
                              !.tx = Len(account.moved), !.risk = risk]
    /\ UNCHANGED <<account, now, flags, latches, seen, lossFaults>>

\* _loss_halted: the balance, the transfers or the state cannot be read.
Unavailable ==
    /\ tick.pc \in {"transfers", "roll"}
    /\ tick' = Refused
    /\ UNCHANGED <<account, now, flags, latches, seen, lossFaults>>

\* Last NAV observed, unless it is too old to be the reference of a new day or a transfer
\* left nothing of it.
Baseline == IF flags.lastNav = Unset \/ flags.lastAt = Unset THEN Unset
            ELSE IF flags.lastNav > 0 /\ now - flags.lastAt <= MaxAge THEN flags.lastNav ELSE Unset

LossTransfers_BaselineOnly ==   \* mutant: a transfer on a day that has its E0 goes to the next one
    /\ tick.pc = "transfers"
    /\ LET net == IF flags.tx = Unset THEN 0 ELSE MovedBy(tick.tx) - MovedBy(flags.tx) IN
       flags' = [flags EXCEPT
           !.tx = tick.tx,
           !.ddTransfers = IF net # 0 /\ flags.ddStart # Unset THEN OrZero(@) + net ELSE @,
           !.lastNav = IF net # 0 /\ Baseline # Unset THEN Baseline + net ELSE @]
    /\ tick' = [tick EXCEPT !.pc = "roll"]
    /\ UNCHANGED <<account, now, latches, seen, lossFaults>>

\* _loss_transfers and apply_transfer: the transfers after the cursor, up to the summary's
\* id, and the cursor, in one transaction. The first id seen is only stored.
LossTransfers ==
    /\ tick.pc = "transfers"
    /\ LET net == IF flags.tx = Unset THEN 0 ELSE MovedBy(tick.tx) - MovedBy(flags.tx)
           today == flags.day = DayKey IN
       /\ flags' = [flags EXCEPT
           !.tx = tick.tx,
           !.ddTransfers = IF net # 0 /\ flags.ddStart # Unset THEN OrZero(@) + net ELSE @,
           !.transfers = IF net # 0 /\ today THEN @ + net ELSE @,
           !.lastNav = IF net # 0 /\ ~today /\ Baseline # Unset THEN Baseline + net ELSE @]
       /\ seen' = [seen EXCEPT !.whole = @ /\ (net = 0 \/ ~today)]
    /\ tick' = [tick EXCEPT !.pc = "roll"]
    /\ UNCHANGED <<account, now, latches, lossFaults>>

\* _non_positive: a NAV of zero or less is a drawdown breach.
NonPositive ==
    /\ tick.pc = "roll" /\ tick.nav <= 0
    /\ latches' = [latches EXCEPT !.dd = @ \/ ~DrawdownHalted]
    /\ seen' = [seen EXCEPT !.drawdown = TRUE]
    /\ tick' = [tick EXCEPT !.pc = "write", !.flatten = TRUE,
                            !.todo = IF DrawdownHalted THEN {} ELSE {"ddHalt"}]
    /\ UNCHANGED <<account, now, flags, lossFaults>>

\* The writes of a new day (_roll), and the drawdown baseline if there is none.
RollWrites == IF flags.day = DayKey THEN {} ELSE {"e0", "transfers", "halt", "day"}
StartWrites == IF flags.ddStart # Unset THEN {}
               ELSE {"ddStart"} \cup (IF flags.ddTransfers = Unset THEN {} ELSE {"ddTransfers"})
Roll ==
    /\ tick.pc = "roll" /\ tick.nav > 0
    /\ tick' = [tick EXCEPT !.pc = "strict", !.todo = RollWrites \cup StartWrites]
    /\ UNCHANGED <<account, now, flags, latches, seen, lossFaults>>

\* The order of the writes of a tick, of its outcome and of the operator's clear; the day is
\* written last of its group. The value a flag is given.
Order ==
    [strict |-> [e0 |-> 1, transfers |-> 2, halt |-> 3, day |-> 4, ddTransfers |-> 5, ddStart |-> 6],
     write |-> [ddHalt |-> 1, halt |-> 2, lastNav |-> 3, lastAt |-> 4],
     clear |-> [ddHalt |-> 1, ddStart |-> 2, ddTransfers |-> 3]]
Due(flag) ==
    /\ tick.pc \in {"strict", "write", "clear"} /\ flag \in tick.todo
    /\ \A other \in tick.todo : Order[tick.pc][flag] <= Order[tick.pc][other]
Value(flag) ==
    CASE flag = "e0" -> IF Baseline = Unset THEN tick.nav ELSE Baseline
      [] flag = "transfers" -> 0
      [] (flag = "halt" /\ tick.pc = "write") \/ flag = "day" -> DayKey
      [] flag \in {"ddHalt", "lastAt"} /\ tick.pc = "write" -> now
      [] flag = "lastNav" \/ (flag = "ddStart" /\ tick.pc = "strict") -> tick.nav
      [] OTHER -> Unset

\* set_flag, and the trading result the new value stands for.
SetFlag(flag) ==
    /\ flags' = [flags EXCEPT ![flag] = Value(flag)]
    /\ latches' = IF flag = "day" /\ latches.daily # DayKey THEN [latches EXCEPT !.daily = Unset] ELSE latches
    /\ seen' = CASE flag = "e0" -> IF Baseline = Unset THEN [seen EXCEPT !.e0 = tick.result, !.wholeE0 = TRUE]
                                   ELSE [seen EXCEPT !.e0 = seen.last, !.wholeE0 = seen.whole]
                 [] flag = "ddStart" -> [seen EXCEPT !.dd = IF tick.pc = "clear" THEN Unset ELSE tick.result]
                 [] flag = "lastNav" -> [seen EXCEPT !.last = tick.result, !.whole = TRUE]
                 [] OTHER -> seen

Write ==
    /\ \E flag \in tick.todo : /\ Due(flag) /\ SetFlag(flag)
                               /\ tick' = [tick EXCEPT !.todo = @ \ {flag}]
    /\ UNCHANGED <<account, now, lossFaults>>

\* A write fails: a halt or the last NAV is best effort, anything else ends the operation.
WriteFails ==
    /\ lossFaults < MaxLossFaults /\ lossFaults' = lossFaults + 1
    /\ \E flag \in tick.todo :
         /\ Due(flag)
         /\ tick' = CASE tick.pc = "strict" -> Refused
                      [] tick.pc = "clear" -> Idle
                      [] OTHER -> [tick EXCEPT !.todo = @ \ (IF flag = "lastNav" THEN {"lastNav", "lastAt"} ELSE {flag})]
    /\ UNCHANGED <<account, now, flags, latches, seen>>

\* daily_loss_status and drawdown_status of the NAV read.
Pnl == tick.nav - flags.e0 - flags.transfers
DailyBreached == 100 * Pnl <= -LimitPercent * flags.e0
WithinBudget == tick.risk # Unset => /\ 0 < tick.risk
                                     /\ 100 * tick.risk <= LimitPercent * flags.e0 + 100 * Pnl
StartEquity == flags.ddStart + OrZero(flags.ddTransfers)
DrawdownValid == StartEquity > 0
DrawdownBreached == DrawdownValid /\ 100 * tick.nav <= (100 - DrawdownPercent) * StartEquity

Judge_FlagOnly ==   \* mutant: the halts are read from the flags only
    LET dd == flags.ddHalt # Unset \/ DrawdownBreached
        daily == flags.halt = DayKey \/ DailyBreached IN
    /\ tick.pc = "strict" /\ tick.todo = {}
    /\ latches' = [daily |-> IF daily THEN DayKey ELSE latches.daily, dd |-> latches.dd \/ dd]
    /\ seen' = [seen EXCEPT !.daily = IF DailyBreached THEN DayKey ELSE @, !.drawdown = @ \/ DrawdownBreached]
    /\ tick' = [tick EXCEPT !.pc = "write", !.flatten = dd \/ (daily /\ Flatten),
                            !.allowed = ~dd /\ ~daily /\ DrawdownValid /\ WithinBudget,
                            !.todo = {"lastNav", "lastAt"}
                                     \cup (IF DrawdownBreached /\ flags.ddHalt = Unset THEN {"ddHalt"} ELSE {})
                                     \cup (IF DailyBreached /\ flags.halt # DayKey THEN {"halt"} ELSE {})]
    /\ UNCHANGED <<account, now, flags, lossFaults>>

\* evaluate: a halt is latched before it is written, and written again when that failed.
Judge ==
    LET dd == DrawdownHalted \/ DrawdownBreached
        daily == DailyHalted \/ DailyBreached IN
    /\ tick.pc = "strict" /\ tick.todo = {}
    /\ latches' = [daily |-> IF DailyBreached /\ ~DailyHalted THEN DayKey ELSE latches.daily,
                 dd |-> latches.dd \/ (DrawdownBreached /\ ~DrawdownHalted)]
    /\ seen' = [seen EXCEPT !.daily = IF DailyBreached THEN DayKey ELSE @, !.drawdown = @ \/ DrawdownBreached]
    /\ tick' = [tick EXCEPT !.pc = "write", !.flatten = dd \/ (daily /\ Flatten),
                            !.allowed = ~dd /\ ~daily /\ DrawdownValid /\ WithinBudget,
                            !.todo = {"lastNav", "lastAt"}
                                     \cup (IF latches'.dd /\ flags.ddHalt = Unset THEN {"ddHalt"} ELSE {})
                                     \cup (IF latches'.daily = DayKey /\ flags.halt # DayKey THEN {"halt"} ELSE {})]
    /\ UNCHANGED <<account, now, flags, lossFaults>>

\* The decision is returned when the writes are done.
LossDecision ==
    /\ tick.pc = "write" /\ tick.todo = {}
    /\ tick' = [Idle EXCEPT !.allowed = tick.allowed, !.flatten = tick.flatten, !.made = TRUE]
    /\ UNCHANGED <<account, now, flags, latches, seen, lossFaults>>

-----------------------------------------------------------------------------
\* The operator, who may clear what is not halted too, and the process.

ClearDrawdown ==
    /\ tick.pc = "idle"
    /\ tick' = [Idle EXCEPT !.pc = "clear", !.todo = {"ddHalt", "ddStart", "ddTransfers"}]
    /\ seen' = [seen EXCEPT !.drawdown = FALSE]
    /\ UNCHANGED <<account, now, flags, latches, lossFaults>>
DrawdownCleared ==
    /\ tick.pc = "clear" /\ tick.todo = {}
    /\ latches' = [latches EXCEPT !.dd = FALSE]
    /\ tick' = Idle
    /\ UNCHANGED <<account, now, flags, seen, lossFaults>>
ClearDaily ==
    /\ tick.pc = "idle"
    /\ flags' = [flags EXCEPT !.halt = Unset]
    /\ latches' = [latches EXCEPT !.daily = Unset]
    /\ seen' = [seen EXCEPT !.daily = Unset]
    /\ tick' = Idle
    /\ UNCHANGED <<account, now, lossFaults>>

\* The latches of the process are gone: a halt whose write had failed is forgotten.
LossRestart ==
    /\ lossFaults < MaxLossFaults /\ lossFaults' = lossFaults + 1
    /\ latches' = [daily |-> Unset, dd |-> FALSE]
    /\ tick' = Idle
    /\ seen' = [seen EXCEPT !.daily = IF flags.halt = @ THEN @ ELSE Unset, !.drawdown = @ /\ flags.ddHalt # Unset]
    /\ UNCHANGED <<account, now, flags>>

-----------------------------------------------------------------------------
LossNext ==
    \/ Trade \/ Transfer \/ TimePasses
    \/ ReadBalance \/ Unavailable \/ LossTransfers \/ NonPositive \/ Roll
    \/ Write \/ WriteFails \/ Judge \/ LossDecision
    \/ ClearDrawdown \/ DrawdownCleared \/ ClearDaily \/ LossRestart
LossSpec == LossInit /\ [][LossNext]_lossVars

-----------------------------------------------------------------------------
\* What the account would have had without trading: the transfers the cursor has passed.
Applied == MovedBy(OrZero(flags.tx))

\* The references of both limits follow the transfers and nothing else: E0 plus the day's
\* transfers, and the drawdown start plus its own, are the NAV of the trading result they
\* were taken at plus every transfer applied, however transfers, restarts and failed writes
\* fall around the day boundary. For E0, provided last_nav was written again after the last
\* transfer of its day.
ReferenceKept ==
    /\ flags.day = DayKey /\ seen.wholeE0 => flags.e0 + flags.transfers = Applied + seen.e0
    /\ flags.ddStart # Unset => flags.ddStart + OrZero(flags.ddTransfers) = Applied + seen.dd

\* "deposits/withdrawals are not P&L": the P&L of the day is that of trading.
TransfersAreNotProfit ==
    flags.day = DayKey => flags.e0 + flags.transfers = Applied + seen.e0

\* A halt that is due holds: until the next day or the operator's clear no entry is allowed,
\* and what is open is flattened at every tick, also when the NAV cannot be read, the flag
\* could not be written or the process was restarted after it was.
HaltHolds ==
    tick.made =>
        /\ seen.daily = DayKey => ~tick.allowed /\ (Flatten => tick.flatten)
        /\ seen.drawdown => ~tick.allowed /\ tick.flatten
=============================================================================
