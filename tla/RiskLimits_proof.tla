--------------------------- MODULE RiskLimits_proof ---------------------------
(***************************************************************************)
(* The limits on the way of an order, for any constants: the inductive     *)
(* invariants of DailyLossLimit (a halt that is due holds through failed   *)
(* writes and restarts, and the references of both limits follow the       *)
(* transfers), of RiskReservation (the portfolio limit holds whatever      *)
(* callers interleave, and a run has one outcome although the save of its  *)
(* order does not read the journal again) and of OppositePolicy (a reversal *)
(* that was interrupted after its close stays flat), and the three         *)
(* promises together.                                                      *)
(***************************************************************************)
EXTENDS RiskLimits, FiniteSetTheorems, SequenceTheorems, TLAPS

-----------------------------------------------------------------------------
\* DailyLossLimit: the types of its state.
IntOrUnset == Int \cup {Unset}
NatOrUnset == Nat \cup {Unset}
Flags == {"day", "e0", "transfers", "halt", "ddStart", "ddHalt", "ddTransfers", "lastNav", "lastAt"}
Writing == {"strict", "write", "clear"}
FlagsType == [day : NatOrUnset, e0 : IntOrUnset, transfers : IntOrUnset, halt : NatOrUnset,
              ddStart : IntOrUnset, ddHalt : NatOrUnset, ddTransfers : IntOrUnset,
              lastNav : IntOrUnset, lastAt : NatOrUnset, tx : NatOrUnset]
TickType == [pc : {"idle", "transfers", "roll"} \cup Writing, nav : Int, result : Int, tx : Nat,
             risk : IntOrUnset, todo : SUBSET Flags,
             allowed : BOOLEAN, flatten : BOOLEAN, made : BOOLEAN]
SeenType == [last : IntOrUnset, e0 : IntOrUnset, dd : IntOrUnset, whole : BOOLEAN, wholeE0 : BOOLEAN,
             daily : NatOrUnset, drawdown : BOOLEAN]

LossTypes ==
    /\ account \in [result : Int, moved : Seq(Int)]
    /\ now \in Nat
    /\ flags \in FlagsType
    /\ latches \in [daily : NatOrUnset, dd : BOOLEAN]
    /\ tick \in TickType
    /\ seen \in SeenType

\* What is left to write at each step of a tick.
Todo ==
    /\ tick.pc = "strict" =>
         /\ tick.todo \subseteq {"e0", "transfers", "halt", "day", "ddTransfers", "ddStart"}
         /\ "e0" \in tick.todo => "transfers" \in tick.todo
         /\ "transfers" \in tick.todo => "halt" \in tick.todo
         /\ "halt" \in tick.todo => "day" \in tick.todo
         /\ "ddTransfers" \in tick.todo => "ddStart" \in tick.todo
         /\ "day" \in tick.todo <=> flags.day # DayKey
         /\ "ddStart" \in tick.todo => flags.ddStart = Unset
    /\ tick.pc = "write" => tick.todo \subseteq {"ddHalt", "halt", "lastNav", "lastAt"}
    /\ tick.pc = "clear" => /\ tick.todo \subseteq {"ddHalt", "ddStart", "ddTransfers"}
                            /\ "ddTransfers" \notin tick.todo => tick.todo = {}
                            /\ "ddStart" \notin tick.todo => flags.ddStart = Unset

\* The cursor of the transfers, and the balance the tick works with.
Cursor ==
    /\ flags.tx # Unset => flags.tx <= Len(account.moved)
    /\ tick.pc \in {"transfers", "roll", "strict", "write"} =>
         tick.tx <= Len(account.moved) /\ tick.nav = tick.result + MovedBy(tick.tx)
    /\ tick.pc \in {"roll", "strict", "write"} => flags.tx = tick.tx
    /\ flags.tx = Unset => flags.day = Unset /\ flags.ddStart = Unset /\ flags.lastNav = Unset

\* The reference of the day from its first write on, and what it is taken from.
DayReference ==
    /\ flags.day # Unset => /\ flags.day <= DayKey
                           /\ flags.e0 # Unset /\ flags.transfers # Unset /\ seen.e0 # Unset
    /\ flags.day = DayKey /\ seen.wholeE0 => flags.e0 + flags.transfers = Applied + seen.e0
    /\ tick.pc = "strict" /\ "day" \in tick.todo /\ "e0" \notin tick.todo =>
         /\ flags.e0 # Unset /\ seen.e0 # Unset
         /\ seen.wholeE0 => flags.e0 = Applied + seen.e0
    /\ tick.pc = "strict" /\ "day" \in tick.todo /\ "transfers" \notin tick.todo => flags.transfers = 0
LastNav ==
    /\ flags.lastNav # Unset => seen.last # Unset
    /\ Baseline # Unset /\ seen.whole => flags.lastNav = Applied + seen.last
    /\ tick.pc = "write" /\ "lastAt" \in tick.todo /\ "lastNav" \notin tick.todo =>
         flags.lastNav # Unset /\ flags.lastNav = Applied + seen.last
DrawdownReference ==
    /\ flags.ddStart # Unset => /\ seen.dd # Unset
                               /\ flags.ddStart + OrZero(flags.ddTransfers) = Applied + seen.dd
    /\ tick.pc = "strict" /\ "ddStart" \in tick.todo /\ "ddTransfers" \notin tick.todo =>
         flags.ddTransfers = Unset

\* A halt that is due is latched or written, and every decision knows it.
HaltsDue ==
    /\ seen.daily # Unset => seen.daily <= DayKey
    /\ seen.daily = DayKey => flags.day = DayKey /\ DailyHalted
    /\ seen.drawdown => DrawdownHalted /\ tick.pc # "clear"
Decisions ==
    /\ tick.pc # "idle" => ~tick.made
    /\ tick.pc \in {"transfers", "roll", "strict"} => ~tick.allowed
    /\ tick.made \/ tick.pc = "write" =>
         /\ seen.daily = DayKey => ~tick.allowed /\ (Flatten => tick.flatten)
         /\ seen.drawdown => ~tick.allowed /\ tick.flatten

LossInv == LossTypes /\ Todo /\ Cursor /\ DayReference /\ LastNav /\ DrawdownReference /\ HaltsDue /\ Decisions

-----------------------------------------------------------------------------
\* The day of a moment, for any length of the day.
LEMMA DayIsNat == ASSUME NEW n \in Nat, NEW l \in Nat \ {0} PROVE n \div l \in Nat
OBVIOUS
LEMMA DayGrows == ASSUME NEW n \in Nat, NEW l \in Nat \ {0} PROVE n \div l <= (n + 1) \div l
OBVIOUS
LEMMA DayKeyNat == ASSUME LossTypes PROVE DayKey \in Nat
BY DayIsNat, LossAssumption DEF LossTypes, DayKey, FlagsType, TickType, SeenType

\* The transfers up to an id, and what a new one leaves of them.
LEMMA MovedInt ==
    ASSUME LossTypes, NEW id \in 0..Len(account.moved) PROVE MovedBy(id) \in Int
BY DEF LossTypes, MovedBy, FlagsType, TickType, SeenType
LEMMA SameMoved ==
    ASSUME account'.moved = account.moved, NEW id \in Nat PROVE MovedBy(id)' = MovedBy(id)
BY DEF MovedBy
LEMMA MovedKept ==
    ASSUME LossTypes, NEW v \in Int, account'.moved = Append(account.moved, v),
           NEW id \in 0..Len(account.moved)
    PROVE  MovedBy(id)' = MovedBy(id)
<1>1. CASE id = 0
  BY <1>1 DEF MovedBy
<1>2. CASE id # 0
  <2>1. id \in 1..Len(account.moved)
    BY <1>2 DEF LossTypes, FlagsType, TickType, SeenType
  <2>2. Append(account.moved, v)[id] = account.moved[id]
    BY <2>1 DEF LossTypes, FlagsType, TickType, SeenType
  <2> QED BY <1>2, <2>2 DEF MovedBy
<1> QED BY <1>1, <1>2

\* Initially.
LEMMA LossInitially == LossInit => LossInv
<1> SUFFICES ASSUME LossInit PROVE LossInv
  OBVIOUS
<1>1. LossTypes
  BY LossAssumption DEF LossInit, LossTypes, Idle, Flags, Writing, IntOrUnset, NatOrUnset, FlagsType, TickType, SeenType
<1>2. Unset \notin Int
  BY LossAssumption
<1>3. Todo /\ Cursor
  BY <1>2 DEF LossInit, Todo, Cursor, Idle
<1>4. DayKey \in Nat
  BY <1>1, DayKeyNat
<1>5. DayReference /\ LastNav /\ DrawdownReference
  BY <1>2, <1>4 DEF LossInit, DayReference, LastNav, DrawdownReference, Idle, Baseline
<1>6. HaltsDue /\ Decisions
  BY <1>2, <1>4 DEF LossInit, HaltsDue, Decisions, Idle
<1> QED BY <1>1, <1>3, <1>5, <1>6 DEF LossInv

\* A step of the account, of the clock or of the tick's own record leaves the flags alone.
LEMMA TradeKeeps == ASSUME LossInv, Trade PROVE LossInv'
<1> USE DEF LossInv
<1>1. LossTypes'
  BY LossAssumption DEF Trade, LossTypes, FlagsType, TickType, SeenType
<1>2. /\ account'.moved = account.moved /\ tick.pc = "idle"
      /\ UNCHANGED <<now, flags, latches, tick, seen>>
  BY DEF Trade, LossTypes, FlagsType, TickType, SeenType
<1>3. \A id \in Nat : MovedBy(id)' = MovedBy(id)
  BY <1>2, SameMoved
<1>4. DayKey' = DayKey /\ Baseline' = Baseline /\ DailyHalted' = DailyHalted /\ DrawdownHalted' = DrawdownHalted
  BY <1>2 DEF DayKey, Baseline, DailyHalted, DrawdownHalted
<1>5. Applied' = Applied
  BY <1>2, <1>3 DEF Applied, OrZero, LossTypes, NatOrUnset, FlagsType, TickType, SeenType
<1>6. Todo' /\ Cursor'
  BY <1>2, <1>4 DEF Todo, Cursor
<1>7. DayReference' /\ LastNav' /\ DrawdownReference'
  BY <1>2, <1>4, <1>5 DEF DayReference, LastNav, DrawdownReference, OrZero
<1>8. HaltsDue' /\ Decisions'
  BY <1>2, <1>4 DEF HaltsDue, Decisions
<1> QED BY <1>1, <1>6, <1>7, <1>8

LEMMA TransferKeeps == ASSUME LossInv, Transfer PROVE LossInv'
<1> USE DEF LossInv
<1>1. PICK v \in Int : account' = [account EXCEPT !.moved = Append(@, v)]
  <2>1. PICK a \in Amounts, sign \in {1, -1} :
          account' = [account EXCEPT !.moved = Append(@, MovedBy(Len(@)) + sign * a)]
    BY DEF Transfer
  <2>2. MovedBy(Len(account.moved)) \in Int
    BY MovedInt DEF LossTypes, FlagsType, TickType, SeenType
  <2>3. MovedBy(Len(account.moved)) + sign * a \in Int
    <3>1. a \in Int
      BY LossAssumption
    <3>2. sign * a \in Int
      BY <3>1
    <3> QED BY <2>2, <3>2
  <2> QED BY <2>1, <2>3
<1>2. /\ account'.moved = Append(account.moved, v) /\ tick.pc \in {"idle", "transfers"}
      /\ UNCHANGED <<now, flags, latches, tick, seen>>
  BY <1>1 DEF Transfer, LossTypes, FlagsType, TickType, SeenType
<1>3. LossTypes'
  <2>1. account' \in [result : Int, moved : Seq(Int)]
    <3>1. account \in [result : Int, moved : Seq(Int)] /\ account.moved \in Seq(Int)
      BY DEF LossTypes, FlagsType, TickType, SeenType
    <3>2. Append(account.moved, v) \in Seq(Int)
      BY <3>1
    <3> QED BY <1>1, <3>1, <3>2
  <2> QED BY <1>2, <2>1 DEF LossTypes, FlagsType, TickType, SeenType
<1>4. \A id \in 0..Len(account.moved) : MovedBy(id)' = MovedBy(id)
  BY <1>2, MovedKept
<1>5. DayKey' = DayKey /\ Baseline' = Baseline /\ DailyHalted' = DailyHalted /\ DrawdownHalted' = DrawdownHalted
  BY <1>2 DEF DayKey, Baseline, DailyHalted, DrawdownHalted
<1>6. Len(account'.moved) = Len(account.moved) + 1 /\ Len(account.moved) \in Nat
  BY <1>2 DEF LossTypes, FlagsType, TickType, SeenType
<1>7. Applied' = Applied
  <2>1. OrZero(flags.tx) \in 0..Len(account.moved)
    BY <1>6 DEF OrZero, LossTypes, NatOrUnset, Cursor, FlagsType, TickType, SeenType
  <2> QED BY <1>2, <1>4, <2>1 DEF Applied, OrZero
<1>8. Todo'
  BY <1>2, <1>5 DEF Todo
<1>9. Cursor'
  <2>1. tick.pc = "transfers" => tick.tx \in 0..Len(account.moved)
    BY <1>6 DEF Cursor, LossTypes, FlagsType, TickType, SeenType
  <2>2. tick.pc = "transfers" => MovedBy(tick.tx)' = MovedBy(tick.tx)
    BY <1>2, <1>4, <2>1
  <2>3. flags.tx # Unset => flags.tx \in Nat /\ flags.tx <= Len(account'.moved)
    BY <1>6 DEF Cursor, LossTypes, NatOrUnset, FlagsType, TickType, SeenType
  <2> QED BY <1>2, <1>6, <2>1, <2>2, <2>3 DEF Cursor, LossTypes, FlagsType, TickType, SeenType
<1>10. DayReference' /\ LastNav' /\ DrawdownReference'
  BY <1>2, <1>5, <1>7 DEF DayReference, LastNav, DrawdownReference, OrZero
<1>11. HaltsDue' /\ Decisions'
  BY <1>2, <1>5 DEF HaltsDue, Decisions
<1> QED BY <1>3, <1>8, <1>9, <1>10, <1>11

\* A step that touches neither the account nor the flags: what it leaves, it keeps.
LEMMA Frame ==
    ASSUME LossInv, UNCHANGED <<account, flags>>
    PROVE  /\ \A id \in Nat : MovedBy(id)' = MovedBy(id)
           /\ Applied' = Applied
           /\ now' = now => DayKey' = DayKey /\ Baseline' = Baseline
<1>1. \A id \in Nat : MovedBy(id)' = MovedBy(id)
  BY SameMoved
<1>2. Applied' = Applied
  BY <1>1 DEF Applied, OrZero, LossTypes, NatOrUnset, LossInv, FlagsType, TickType, SeenType
<1>3. now' = now => DayKey' = DayKey /\ Baseline' = Baseline
  BY DEF DayKey, Baseline
<1> QED BY <1>1, <1>2, <1>3

LEMMA TimeKeeps == ASSUME LossInv, TimePasses PROVE LossInv'
<1> USE DEF LossInv
<1>1. /\ now' = now + 1 /\ tick.pc = "idle" /\ tick' = Idle
      /\ UNCHANGED <<account, flags, latches, seen>>
  BY DEF TimePasses
<1>2. LossTypes' /\ Unset \notin Int
  BY <1>1, LossAssumption DEF LossTypes, Idle, Flags, Writing, IntOrUnset, NatOrUnset, FlagsType, TickType, SeenType
<1>3. DayKey \in Nat /\ DayKey' \in Nat /\ DayKey <= DayKey'
  BY <1>1, DayIsNat, DayGrows, LossAssumption DEF DayKey, LossTypes, FlagsType, TickType, SeenType
<1>4. Applied' = Applied /\ (Baseline' # Unset => Baseline' = Baseline)
  BY <1>1, <1>2, Frame, LossAssumption DEF Baseline, LossTypes, IntOrUnset, NatOrUnset, FlagsType, TickType, SeenType
<1>5. Todo' /\ Cursor'
  BY <1>1, Frame DEF Todo, Cursor, Idle
<1>6. DayReference'
  BY <1>1, <1>2, <1>3, <1>4 DEF DayReference, Idle, LossTypes, NatOrUnset, FlagsType, TickType, SeenType
<1>7. LastNav' /\ DrawdownReference'
  BY <1>1, <1>4 DEF LastNav, DrawdownReference, Idle, OrZero
<1>8. HaltsDue'
  BY <1>1, <1>2, <1>3 DEF HaltsDue, DailyHalted, DrawdownHalted, DayReference, LossTypes, NatOrUnset, Idle, FlagsType, TickType, SeenType
<1>9. Decisions'
  BY <1>1 DEF Decisions, Idle
<1> QED BY <1>2, <1>5, <1>6, <1>7, <1>8, <1>9

\* A new record of the tick is all that changes: what it must satisfy.
LEMMA TickKeeps ==
    ASSUME LossInv, UNCHANGED <<account, now, flags, latches, seen>>,
           LossTypes', Todo', Cursor',
           tick'.pc = "strict" => tick'.todo = RollWrites \cup StartWrites,
           tick'.pc = "write" =>
             /\ tick.pc = "write"
             /\ "lastAt" \in tick'.todo /\ "lastNav" \notin tick'.todo =>
                  "lastAt" \in tick.todo /\ "lastNav" \notin tick.todo,
           tick'.pc # "clear", Decisions'
    PROVE  LossInv'
<1> USE DEF LossInv
<1>1. DayKey' = DayKey /\ Baseline' = Baseline /\ Applied' = Applied
  BY Frame
<1>2. DailyHalted' = DailyHalted /\ DrawdownHalted' = DrawdownHalted
  BY <1>1 DEF DailyHalted, DrawdownHalted
<1>3. DayReference' /\ LastNav' /\ DrawdownReference'
  BY <1>1 DEF DayReference, LastNav, DrawdownReference, RollWrites, StartWrites, OrZero
<1>4. HaltsDue'
  BY <1>1, <1>2 DEF HaltsDue
<1> QED BY <1>3, <1>4

LEMMA ReadKeeps == ASSUME LossInv, ReadBalance PROVE LossInv'
<1> USE DEF LossInv
<1>1. PICK risk \in Risks \cup {Unset} :
        tick' = [Idle EXCEPT !.pc = "transfers", !.nav = Nav, !.result = account.result,
                             !.tx = Len(account.moved), !.risk = risk]
  BY DEF ReadBalance
<1>2. tick.pc = "idle" /\ UNCHANGED <<account, now, flags, latches, seen>>
  BY DEF ReadBalance
<1>3. Len(account.moved) \in Nat /\ MovedBy(Len(account.moved)) \in Int /\ Nav \in Int
  BY MovedInt DEF Nav, LossTypes, FlagsType, TickType, SeenType
<1>4. LossTypes'
  <2>1. tick' = [pc |-> "transfers", nav |-> Nav, result |-> account.result, tx |-> Len(account.moved),
                 risk |-> risk, todo |-> {}, allowed |-> FALSE, flatten |-> FALSE, made |-> FALSE]
    BY <1>1 DEF Idle
  <2>2. risk \in IntOrUnset /\ account.result \in Int
    BY LossAssumption DEF IntOrUnset, LossTypes, FlagsType, TickType, SeenType
  <2> QED BY <1>2, <1>3, <2>1, <2>2 DEF LossTypes, Writing, FlagsType, TickType, SeenType
<1>5. Todo'
  BY <1>1 DEF Todo, Idle
<1>6. Cursor'
  BY <1>1, <1>2, <1>3, Frame DEF Cursor, Idle, Nav
<1>7. Decisions'
  BY <1>1 DEF Decisions, Idle
<1> QED BY <1>1, <1>2, <1>4, <1>5, <1>6, <1>7, TickKeeps DEF Idle

\* A refusal knows the halts in force, and those are the ones due.
LEMMA RefusedSound ==
    ASSUME LossInv, UNCHANGED <<account, now, flags, latches, seen>>, tick' = Refused
    PROVE  LossTypes' /\ Decisions'
<1> USE DEF LossInv
<1>1. ActiveFlatten \in BOOLEAN
  BY DEF ActiveFlatten, DrawdownHalted, DailyHalted
<1>2. tick' = [pc |-> "idle", nav |-> 0, result |-> 0, tx |-> 0, risk |-> Unset, todo |-> {},
               allowed |-> FALSE, flatten |-> ActiveFlatten, made |-> TRUE]
  BY DEF Refused, Idle
<1>3. LossTypes'
  BY <1>1, <1>2 DEF LossTypes, IntOrUnset, FlagsType, TickType, SeenType
<1>4. DayKey' = DayKey
  BY Frame
<1>5. /\ seen.daily = DayKey /\ Flatten => ActiveFlatten
      /\ seen.drawdown => ActiveFlatten
  BY DEF ActiveFlatten, HaltsDue
<1>6. tick'.pc = "idle" /\ tick'.allowed = FALSE /\ tick'.flatten = ActiveFlatten /\ seen' = seen
  BY <1>2
<1>7. Decisions'
  BY <1>4, <1>5, <1>6 DEF Decisions
<1> QED BY <1>3, <1>7

LEMMA UnavailableKeeps == ASSUME LossInv, Unavailable PROVE LossInv'
<1>1. UNCHANGED <<account, now, flags, latches, seen>> /\ tick' = Refused
  BY DEF Unavailable
<1>2. tick'.pc = "idle"
  BY <1>1 DEF Refused, Idle
<1>3. Todo' /\ Cursor'
  BY <1>1, <1>2, Frame DEF Todo, Cursor, LossInv
<1> QED BY <1>1, <1>2, <1>3, RefusedSound, TickKeeps

LEMMA RollKeeps == ASSUME LossInv, Roll PROVE LossInv'
<1> USE DEF LossInv
<1>1. /\ tick.pc = "roll" /\ UNCHANGED <<account, now, flags, latches, seen>>
      /\ tick' = [tick EXCEPT !.pc = "strict", !.todo = RollWrites \cup StartWrites]
  BY DEF Roll
<1>2. RollWrites \cup StartWrites \subseteq Flags
  BY DEF RollWrites, StartWrites, Flags
<1>3. /\ tick' \in TickType
      /\ tick'.pc = "strict" /\ tick'.todo = RollWrites \cup StartWrites
      /\ tick'.nav = tick.nav /\ tick'.result = tick.result /\ tick'.tx = tick.tx
      /\ tick'.allowed = tick.allowed /\ tick'.made = tick.made
  BY <1>1, <1>2 DEF LossTypes, Writing, FlagsType, TickType, SeenType
<1>4. LossTypes'
  BY <1>1, <1>3 DEF LossTypes, FlagsType, TickType, SeenType
<1>5. DayKey' = DayKey /\ \A id \in Nat : MovedBy(id)' = MovedBy(id)
  BY <1>1, Frame
<1>6. Todo'
  BY <1>1, <1>3, <1>5 DEF Todo, RollWrites, StartWrites
<1>7. Cursor'
  BY <1>1, <1>3, <1>5 DEF Cursor, LossTypes, FlagsType, TickType, SeenType
<1>8. Decisions'
  BY <1>1, <1>3, <1>5 DEF Decisions
<1> QED BY <1>1, <1>3, <1>4, <1>6, <1>7, <1>8, TickKeeps

LEMMA LossDecisionKeeps == ASSUME LossInv, LossDecision PROVE LossInv'
<1> USE DEF LossInv
<1>1. /\ tick.pc = "write" /\ tick.todo = {} /\ UNCHANGED <<account, now, flags, latches, seen>>
      /\ tick' = [Idle EXCEPT !.allowed = tick.allowed, !.flatten = tick.flatten, !.made = TRUE]
  BY DEF LossDecision
<1>2. tick' = [pc |-> "idle", nav |-> 0, result |-> 0, tx |-> 0, risk |-> Unset, todo |-> {},
               allowed |-> tick.allowed, flatten |-> tick.flatten, made |-> TRUE]
  BY <1>1 DEF Idle
<1>3. tick.allowed \in BOOLEAN /\ tick.flatten \in BOOLEAN
  BY DEF LossTypes, FlagsType, TickType, SeenType
<1>4. LossTypes'
  <2>1. tick' \in TickType
    BY <1>2, <1>3 DEF IntOrUnset, TickType
  <2> QED BY <1>1, <2>1 DEF LossTypes, FlagsType, TickType, SeenType
<1>5. DayKey' = DayKey /\ \A id \in Nat : MovedBy(id)' = MovedBy(id)
  BY <1>1, Frame
<1>6. tick'.pc = "idle" /\ tick'.allowed = tick.allowed /\ tick'.flatten = tick.flatten
  BY <1>2
<1>7. Todo' /\ Cursor'
  BY <1>1, <1>5, <1>6 DEF Todo, Cursor
<1>8. Decisions'
  BY <1>1, <1>5, <1>6 DEF Decisions
<1> QED BY <1>1, <1>4, <1>6, <1>7, <1>8, TickKeeps

LEMMA WriteFailsKeeps == ASSUME LossInv, WriteFails PROVE LossInv'
<1> USE DEF LossInv
<1>1. PICK flag \in tick.todo :
        /\ Due(flag)
        /\ tick' = CASE tick.pc = "strict" -> Refused
                     [] tick.pc = "clear" -> Idle
                     [] OTHER -> [tick EXCEPT !.todo = @ \ (IF flag = "lastNav" THEN {"lastNav", "lastAt"} ELSE {flag})]
  BY DEF WriteFails
<1>2. UNCHANGED <<account, now, flags, latches, seen>>
  BY DEF WriteFails
<1>3. DayKey' = DayKey /\ \A id \in Nat : MovedBy(id)' = MovedBy(id)
  BY <1>2, Frame
<1>4. CASE tick.pc = "strict"
  <2>1. tick' = Refused /\ tick'.pc = "idle"
    BY <1>1, <1>4 DEF Refused, Idle
  <2>2. Todo' /\ Cursor'
    BY <1>2, <1>3, <2>1 DEF Todo, Cursor
  <2> QED BY <1>2, <2>1, <2>2, RefusedSound, TickKeeps
<1>5. CASE tick.pc = "clear"
  <2>1. tick' = Idle /\ tick'.pc = "idle" /\ ~tick'.made
    BY <1>1, <1>5 DEF Idle
  <2>2. Todo' /\ Cursor' /\ Decisions'
    BY <1>2, <1>3, <2>1 DEF Todo, Cursor, Decisions
  <2>3. LossTypes'
    BY <1>2, <2>1 DEF LossTypes, TickType, Idle, IntOrUnset
  <2> QED BY <1>2, <2>1, <2>2, <2>3, TickKeeps
<1>6. CASE tick.pc = "write"
  <2> DEFINE left == tick.todo \ (IF flag = "lastNav" THEN {"lastNav", "lastAt"} ELSE {flag})
  <2>1. tick' = [tick EXCEPT !.todo = left]
    BY <1>1, <1>6
  <2>2. left \subseteq tick.todo /\ ("lastAt" \in left /\ "lastNav" \notin left => "lastNav" \notin tick.todo)
    OBVIOUS
  <2>3. /\ tick' \in TickType /\ tick'.todo = left /\ tick'.pc = "write"
        /\ tick'.nav = tick.nav /\ tick'.result = tick.result /\ tick'.tx = tick.tx
        /\ tick'.allowed = tick.allowed /\ tick'.flatten = tick.flatten /\ tick'.made = tick.made
    BY <1>6, <2>1, <2>2 DEF LossTypes, TickType
  <2>4. LossTypes'
    BY <1>2, <2>3 DEF LossTypes
  <2>5. Todo'
    BY <1>2, <1>3, <1>6, <2>2, <2>3 DEF Todo
  <2>6. Cursor'
    BY <1>2, <1>3, <1>6, <2>3 DEF Cursor, LossTypes, TickType
  <2>7. Decisions'
    BY <1>2, <1>3, <1>6, <2>3 DEF Decisions
  <2> HIDE DEF left
  <2> QED BY <1>2, <1>6, <2>2, <2>3, <2>4, <2>5, <2>6, <2>7, TickKeeps
<1> QED BY <1>1, <1>4, <1>5, <1>6 DEF Due

-----------------------------------------------------------------------------
\* The transfers move every reference by the same amount.
LEMMA TransfersKeep == ASSUME LossInv, LossTransfers PROVE LossInv'
<1> USE DEF LossInv
<1> DEFINE net == IF flags.tx = Unset THEN 0 ELSE MovedBy(tick.tx) - MovedBy(flags.tx)
           today == flags.day = DayKey
<1>1. /\ tick.pc = "transfers" /\ UNCHANGED <<account, now, latches>>
      /\ tick' = [tick EXCEPT !.pc = "roll"]
      /\ seen' = [seen EXCEPT !.whole = @ /\ (net = 0 \/ ~today)]
  BY DEF LossTransfers
<1>2. flags' = [flags EXCEPT
           !.tx = tick.tx,
           !.ddTransfers = IF net # 0 /\ flags.ddStart # Unset THEN OrZero(@) + net ELSE @,
           !.transfers = IF net # 0 /\ today THEN @ + net ELSE @,
           !.lastNav = IF net # 0 /\ ~today /\ Baseline # Unset THEN Baseline + net ELSE @]
  BY DEF LossTransfers
<1>3. Unset \notin Int
  BY LossAssumption
<1>4. /\ tick.tx \in 0..Len(account.moved) /\ MovedBy(tick.tx) \in Int
      /\ flags.tx # Unset => flags.tx \in 0..Len(account.moved) /\ MovedBy(flags.tx) \in Int
  <2>1. tick.tx \in 0..Len(account.moved) /\ (flags.tx # Unset => flags.tx \in 0..Len(account.moved))
    BY <1>1 DEF Cursor, LossTypes, TickType, FlagsType, NatOrUnset
  <2> QED BY <2>1, MovedInt
<1>5. net \in Int
  BY <1>4
<1>6. /\ flags'.tx = tick.tx
      /\ flags'.day = flags.day /\ flags'.e0 = flags.e0 /\ flags'.halt = flags.halt
      /\ flags'.ddStart = flags.ddStart /\ flags'.ddHalt = flags.ddHalt /\ flags'.lastAt = flags.lastAt
      /\ flags'.ddTransfers = IF net # 0 /\ flags.ddStart # Unset THEN OrZero(flags.ddTransfers) + net ELSE flags.ddTransfers
      /\ flags'.transfers = IF net # 0 /\ today THEN flags.transfers + net ELSE flags.transfers
      /\ flags'.lastNav = IF net # 0 /\ ~today /\ Baseline # Unset THEN Baseline + net ELSE flags.lastNav
  BY <1>2 DEF LossTypes, FlagsType
<1>7. /\ tick'.pc = "roll" /\ tick'.todo = tick.todo /\ tick'.tx = tick.tx
      /\ tick'.nav = tick.nav /\ tick'.result = tick.result
      /\ tick'.allowed = tick.allowed /\ tick'.flatten = tick.flatten /\ tick'.made = tick.made
      /\ tick' \in TickType
  BY <1>1 DEF LossTypes, TickType
<1>8. /\ seen' \in SeenType
      /\ seen'.last = seen.last /\ seen'.e0 = seen.e0 /\ seen'.dd = seen.dd
      /\ seen'.wholeE0 = seen.wholeE0 /\ seen'.daily = seen.daily /\ seen'.drawdown = seen.drawdown
      /\ seen'.whole => seen.whole /\ (net = 0 \/ ~today)
  BY <1>1 DEF LossTypes, SeenType
<1>9. DayKey \in Nat /\ DayKey' = DayKey /\ \A id \in Nat : MovedBy(id)' = MovedBy(id)
  BY <1>1, DayKeyNat, SameMoved DEF DayKey
<1>10. /\ flags.tx # Unset => Applied' = Applied + net
       /\ flags.tx = Unset => flags.day = Unset /\ flags.ddStart = Unset /\ flags.lastNav = Unset
       /\ Applied \in Int
  <2>1. Applied' = MovedBy(tick.tx)
    BY <1>3, <1>4, <1>6, <1>9 DEF Applied, OrZero
  <2>2. flags.tx # Unset => Applied = MovedBy(flags.tx)
    BY DEF Applied, OrZero
  <2>3. flags.tx = Unset => Applied = 0
    BY DEF Applied, OrZero, MovedBy
  <2>4. flags.tx # Unset => Applied' = Applied + net /\ Applied \in Int
    <3> SUFFICES ASSUME flags.tx # Unset PROVE Applied' = Applied + net /\ Applied \in Int
      OBVIOUS
    <3>1. net = MovedBy(tick.tx) - MovedBy(flags.tx) /\ MovedBy(tick.tx) \in Int /\ MovedBy(flags.tx) \in Int
      BY <1>4
    <3> HIDE DEF net
    <3> QED BY <2>1, <2>2, <3>1
  <2>5. flags.tx = Unset => flags.day = Unset /\ flags.ddStart = Unset /\ flags.lastNav = Unset
    BY DEF Cursor
  <2> HIDE DEF net
  <2> QED BY <2>3, <2>4, <2>5
<1> HIDE DEF net
<1>11. /\ Baseline # Unset => Baseline = flags.lastNav /\ flags.lastNav # Unset
       /\ Baseline' # Unset => Baseline # Unset /\ Baseline' = flags'.lastNav
  BY <1>1, <1>3, <1>5, <1>6 DEF Baseline
<1>12. flags' \in FlagsType
  <2>1. today => flags.transfers \in Int
    BY <1>3, <1>9 DEF DayReference, LossTypes, FlagsType, IntOrUnset
  <2>2. OrZero(flags.ddTransfers) \in Int
    BY DEF OrZero, LossTypes, FlagsType, IntOrUnset
  <2>3. Baseline # Unset => Baseline \in Int
    BY <1>11 DEF LossTypes, FlagsType, IntOrUnset
  <2>4. flags'.transfers \in IntOrUnset /\ flags'.ddTransfers \in IntOrUnset /\ flags'.lastNav \in IntOrUnset
    BY <1>5, <1>6, <2>1, <2>2, <2>3 DEF LossTypes, FlagsType, IntOrUnset
  <2>5. tick.tx \in NatOrUnset
    BY DEF LossTypes, TickType, NatOrUnset
  <2> QED BY <1>2, <1>6, <2>4, <2>5 DEF LossTypes, FlagsType
<1>13. LossTypes'
  BY <1>1, <1>7, <1>8, <1>12 DEF LossTypes
<1>14. Todo'
  BY <1>7 DEF Todo
<1>15. Cursor'
  BY <1>1, <1>3, <1>4, <1>6, <1>7, <1>9 DEF Cursor
<1>16. DayReference'
  <2>1. flags.day # Unset => flags.day \in Nat /\ flags.e0 \in Int /\ flags.transfers \in Int /\ seen.e0 \in Int
    BY DEF DayReference, LossTypes, FlagsType, SeenType, NatOrUnset, IntOrUnset
  <2>2. flags'.transfers # Unset <=> flags.transfers # Unset
    BY <1>3, <1>5, <1>6, <1>9, <2>1
  <2>3. flags.day = DayKey /\ seen.wholeE0 => flags'.e0 + flags'.transfers = Applied' + seen'.e0
    BY <1>3, <1>5, <1>6, <1>8, <1>9, <1>10, <2>1 DEF DayReference
  <2> QED BY <1>6, <1>7, <1>8, <1>9, <2>2, <2>3 DEF DayReference
<1>17. LastNav'
  <2>1. flags'.lastNav # Unset => flags.lastNav # Unset
    BY <1>6, <1>11
  <2>2. flags.lastNav # Unset => flags.lastNav \in Int /\ seen.last \in Int
    BY DEF LastNav, LossTypes, FlagsType, SeenType, IntOrUnset
  <2>3. Baseline' # Unset /\ seen'.whole => flags'.lastNav = Applied' + seen'.last
    BY <1>5, <1>6, <1>8, <1>10, <1>11, <2>2 DEF LastNav
  <2> QED BY <1>7, <1>8, <2>1, <2>3 DEF LastNav
<1>18. DrawdownReference'
  <2>1. flags.ddStart # Unset => flags.ddStart \in Int /\ seen.dd \in Int /\ OrZero(flags.ddTransfers) \in Int
    BY DEF DrawdownReference, LossTypes, FlagsType, SeenType, IntOrUnset, OrZero
  <2>2. flags.ddStart # Unset => OrZero(flags'.ddTransfers) = OrZero(flags.ddTransfers) + net
    BY <1>3, <1>5, <1>6, <2>1 DEF OrZero
  <2>3. flags.ddStart # Unset => flags'.ddStart + OrZero(flags'.ddTransfers) = Applied' + seen'.dd
    BY <1>5, <1>6, <1>8, <1>10, <2>1, <2>2 DEF DrawdownReference
  <2>4. OrZero(flags.ddTransfers)' = OrZero(flags'.ddTransfers)
    BY DEF OrZero
  <2> QED BY <1>6, <1>7, <1>8, <2>3, <2>4 DEF DrawdownReference
<1>19. HaltsDue'
  BY <1>1, <1>6, <1>7, <1>8, <1>9 DEF HaltsDue, DailyHalted, DrawdownHalted
<1>20. Decisions'
  BY <1>1, <1>7, <1>8, <1>9 DEF Decisions
<1> QED BY <1>13, <1>14, <1>15, <1>16, <1>17, <1>18, <1>19, <1>20

-----------------------------------------------------------------------------
\* The operator and the process: the references are left alone, the halts may only lose
\* what is no longer due.
LEMMA HaltsKeep ==
    ASSUME LossInv, UNCHANGED <<account, now>>,
           \A f \in {"day", "e0", "transfers", "ddStart", "ddTransfers", "lastNav", "lastAt", "tx"} :
               flags'[f] = flags[f],
           seen'.last = seen.last, seen'.e0 = seen.e0, seen'.dd = seen.dd,
           seen'.whole = seen.whole, seen'.wholeE0 = seen.wholeE0,
           LossTypes', Todo', Decisions',
           \/ tick'.pc \in {"idle", "clear"}
           \/ /\ tick'.pc = "write" /\ tick.pc \in {"roll", "strict"}
              /\ "lastAt" \in tick'.todo => "lastNav" \in tick'.todo
              /\ tick'.tx = tick.tx /\ tick'.nav = tick.nav /\ tick'.result = tick.result,
           HaltsDue'
    PROVE  LossInv'
<1> USE DEF LossInv
<1>1. /\ flags'.day = flags.day /\ flags'.e0 = flags.e0 /\ flags'.transfers = flags.transfers
      /\ flags'.ddStart = flags.ddStart /\ flags'.ddTransfers = flags.ddTransfers
      /\ flags'.lastNav = flags.lastNav /\ flags'.lastAt = flags.lastAt /\ flags'.tx = flags.tx
  OBVIOUS
<1>2. DayKey' = DayKey /\ Baseline' = Baseline /\ \A id \in Nat : MovedBy(id)' = MovedBy(id)
  BY <1>1, SameMoved DEF DayKey, Baseline
<1>3. Applied' = Applied
  BY <1>1, <1>2 DEF Applied, OrZero, LossTypes, FlagsType, NatOrUnset
<1>4. Cursor'
  BY <1>1, <1>2 DEF Cursor, LossTypes, TickType
<1>5. DayReference' /\ LastNav' /\ DrawdownReference'
  BY <1>1, <1>2, <1>3 DEF DayReference, LastNav, DrawdownReference, OrZero
<1> QED BY <1>4, <1>5

LEMMA ClearDrawdownKeeps == ASSUME LossInv, ClearDrawdown PROVE LossInv'
<1> USE DEF LossInv
<1>1. /\ tick' = [Idle EXCEPT !.pc = "clear", !.todo = {"ddHalt", "ddStart", "ddTransfers"}]
      /\ seen' = [seen EXCEPT !.drawdown = FALSE]
      /\ UNCHANGED <<account, now, flags, latches>>
  BY DEF ClearDrawdown
<1>2. tick' \in TickType /\ tick'.pc = "clear" /\ tick'.todo = {"ddHalt", "ddStart", "ddTransfers"} /\ ~tick'.made
  <2>1. tick' = [pc |-> "clear", nav |-> 0, result |-> 0, tx |-> 0, risk |-> Unset,
                 todo |-> {"ddHalt", "ddStart", "ddTransfers"},
                 allowed |-> FALSE, flatten |-> FALSE, made |-> FALSE]
    BY <1>1 DEF Idle
  <2> QED BY <2>1 DEF TickType, Flags, Writing, IntOrUnset
<1>3. /\ seen' \in SeenType
      /\ seen'.last = seen.last /\ seen'.e0 = seen.e0 /\ seen'.dd = seen.dd /\ ~seen'.drawdown
      /\ seen'.whole = seen.whole /\ seen'.wholeE0 = seen.wholeE0 /\ seen'.daily = seen.daily
  BY <1>1 DEF LossTypes, SeenType
<1>4. LossTypes' /\ Todo'
  BY <1>1, <1>2, <1>3 DEF LossTypes, Todo
<1>5. DayKey' = DayKey /\ DailyHalted' = DailyHalted
  BY <1>1, Frame DEF DailyHalted
<1>6. HaltsDue' /\ Decisions'
  BY <1>1, <1>2, <1>3, <1>5 DEF HaltsDue, Decisions
<1> QED BY <1>1, <1>2, <1>3, <1>4, <1>6, HaltsKeep

LEMMA DrawdownClearedKeeps == ASSUME LossInv, DrawdownCleared PROVE LossInv'
<1> USE DEF LossInv
<1>1. /\ tick.pc = "clear" /\ tick' = Idle /\ latches' = [latches EXCEPT !.dd = FALSE]
      /\ UNCHANGED <<account, now, flags, seen>>
  BY DEF DrawdownCleared
<1>2. tick' \in TickType /\ tick'.pc = "idle" /\ ~tick'.made
  BY <1>1 DEF Idle, TickType, IntOrUnset
<1>3. latches' \in [daily : NatOrUnset, dd : BOOLEAN] /\ latches'.daily = latches.daily
  BY <1>1 DEF LossTypes
<1>4. LossTypes' /\ Todo'
  BY <1>1, <1>2, <1>3 DEF LossTypes, Todo
<1>5. DayKey' = DayKey /\ DailyHalted' = DailyHalted
  BY <1>1, <1>3, Frame DEF DailyHalted
<1>6. HaltsDue' /\ Decisions'
  BY <1>1, <1>2, <1>5 DEF HaltsDue, Decisions
<1> QED BY <1>1, <1>2, <1>4, <1>6, HaltsKeep

LEMMA ClearDailyKeeps == ASSUME LossInv, ClearDaily PROVE LossInv'
<1> USE DEF LossInv
<1>1. /\ tick' = Idle /\ UNCHANGED <<account, now>>
      /\ flags' = [flags EXCEPT !.halt = Unset] /\ latches' = [latches EXCEPT !.daily = Unset]
      /\ seen' = [seen EXCEPT !.daily = Unset]
  BY DEF ClearDaily
<1>2. tick' \in TickType /\ tick'.pc = "idle" /\ ~tick'.made
  BY <1>1 DEF Idle, TickType, IntOrUnset
<1>3. /\ flags' \in FlagsType /\ flags'.ddHalt = flags.ddHalt
      /\ \A f \in {"day", "e0", "transfers", "ddStart", "ddTransfers", "lastNav", "lastAt", "tx"} :
             flags'[f] = flags[f]
  BY <1>1 DEF LossTypes, FlagsType, NatOrUnset
<1>4. latches' \in [daily : NatOrUnset, dd : BOOLEAN] /\ latches'.dd = latches.dd
  BY <1>1 DEF LossTypes, NatOrUnset
<1>5. /\ seen' \in SeenType /\ seen'.daily = Unset
      /\ seen'.last = seen.last /\ seen'.e0 = seen.e0 /\ seen'.dd = seen.dd /\ seen'.drawdown = seen.drawdown
      /\ seen'.whole = seen.whole /\ seen'.wholeE0 = seen.wholeE0
  BY <1>1 DEF LossTypes, SeenType, NatOrUnset
<1>6. LossTypes' /\ Todo'
  BY <1>1, <1>2, <1>3, <1>4, <1>5 DEF LossTypes, Todo
<1>7. DayKey' \in Nat /\ Unset \notin Int
  BY <1>1, DayKeyNat, LossAssumption DEF DayKey
<1>8. HaltsDue' /\ Decisions'
  BY <1>2, <1>3, <1>4, <1>5, <1>7 DEF HaltsDue, Decisions, DrawdownHalted
<1> QED BY <1>1, <1>2, <1>3, <1>5, <1>6, <1>8, HaltsKeep

LEMMA RestartKeeps == ASSUME LossInv, LossRestart PROVE LossInv'
<1> USE DEF LossInv
<1>1. /\ tick' = Idle /\ latches' = [daily |-> Unset, dd |-> FALSE] /\ UNCHANGED <<account, now, flags>>
      /\ seen' = [seen EXCEPT !.daily = IF flags.halt = @ THEN @ ELSE Unset, !.drawdown = @ /\ flags.ddHalt # Unset]
  BY DEF LossRestart
<1>2. tick' \in TickType /\ tick'.pc = "idle" /\ ~tick'.made
  BY <1>1 DEF Idle, TickType, IntOrUnset
<1>3. latches' \in [daily : NatOrUnset, dd : BOOLEAN]
  BY <1>1 DEF NatOrUnset
<1>4. /\ seen' \in SeenType
      /\ seen'.daily = IF flags.halt = seen.daily THEN seen.daily ELSE Unset
      /\ seen'.drawdown => seen.drawdown /\ flags.ddHalt # Unset
      /\ seen'.last = seen.last /\ seen'.e0 = seen.e0 /\ seen'.dd = seen.dd
      /\ seen'.whole = seen.whole /\ seen'.wholeE0 = seen.wholeE0
  BY <1>1 DEF LossTypes, SeenType, NatOrUnset
<1>5. LossTypes' /\ Todo'
  BY <1>1, <1>2, <1>3, <1>4 DEF LossTypes, Todo
<1>6. DayKey' = DayKey /\ DayKey \in Nat /\ Unset \notin Int
  BY <1>1, DayKeyNat, Frame, LossAssumption
<1>7. HaltsDue' /\ Decisions'
  BY <1>1, <1>2, <1>4, <1>6 DEF HaltsDue, Decisions, DailyHalted, DrawdownHalted
<1> QED BY <1>1, <1>2, <1>4, <1>5, <1>7, HaltsKeep

LEMMA NonPositiveKeeps == ASSUME LossInv, NonPositive PROVE LossInv'
<1> USE DEF LossInv
<1> DEFINE left == IF DrawdownHalted THEN {} ELSE {"ddHalt"}
<1>1. /\ tick.pc = "roll" /\ UNCHANGED <<account, now, flags>>
      /\ latches' = [latches EXCEPT !.dd = @ \/ ~DrawdownHalted]
      /\ seen' = [seen EXCEPT !.drawdown = TRUE]
      /\ tick' = [tick EXCEPT !.pc = "write", !.flatten = TRUE, !.todo = left]
  BY DEF NonPositive
<1>2. /\ tick' \in TickType /\ tick'.pc = "write" /\ tick'.todo = left /\ tick'.flatten
      /\ tick'.tx = tick.tx /\ tick'.nav = tick.nav /\ tick'.result = tick.result
      /\ tick'.allowed = tick.allowed /\ tick'.made = tick.made
  BY <1>1 DEF LossTypes, TickType, Flags, Writing
<1>3. /\ latches' \in [daily : NatOrUnset, dd : BOOLEAN] /\ latches'.daily = latches.daily
      /\ latches'.dd = (latches.dd \/ ~DrawdownHalted)
  BY <1>1 DEF LossTypes
<1>4. /\ seen' \in SeenType /\ seen'.drawdown /\ seen'.daily = seen.daily
      /\ seen'.last = seen.last /\ seen'.e0 = seen.e0 /\ seen'.dd = seen.dd
      /\ seen'.whole = seen.whole /\ seen'.wholeE0 = seen.wholeE0
  BY <1>1 DEF LossTypes, SeenType
<1>5. LossTypes' /\ Todo'
  BY <1>1, <1>2, <1>3, <1>4 DEF LossTypes, Todo
<1>6. DayKey' = DayKey /\ DailyHalted' = DailyHalted
  BY <1>1, <1>3, Frame DEF DailyHalted
<1>7. DrawdownHalted'
  BY <1>1, <1>3 DEF DrawdownHalted
<1>8. HaltsDue' /\ Decisions'
  BY <1>1, <1>2, <1>4, <1>6, <1>7 DEF HaltsDue, Decisions
<1> QED BY <1>1, <1>2, <1>4, <1>5, <1>8, HaltsKeep

\* A verdict on the NAV read: what is breached is due, and the decision obeys what is due.
LEMMA JudgeKeeps == ASSUME LossInv, Judge PROVE LossInv'
<1> USE DEF LossInv
<1> DEFINE dd == DrawdownHalted \/ DrawdownBreached
           daily == DailyHalted \/ DailyBreached
           left == {"lastNav", "lastAt"}
                   \cup (IF latches'.dd /\ flags.ddHalt = Unset THEN {"ddHalt"} ELSE {})
                   \cup (IF latches'.daily = DayKey /\ flags.halt # DayKey THEN {"halt"} ELSE {})
<1>1. /\ tick.pc = "strict" /\ tick.todo = {} /\ UNCHANGED <<account, now, flags>>
      /\ latches' = [daily |-> IF DailyBreached /\ ~DailyHalted THEN DayKey ELSE latches.daily,
                     dd |-> latches.dd \/ (DrawdownBreached /\ ~DrawdownHalted)]
      /\ seen' = [seen EXCEPT !.daily = IF DailyBreached THEN DayKey ELSE @, !.drawdown = @ \/ DrawdownBreached]
      /\ tick' = [tick EXCEPT !.pc = "write", !.flatten = dd \/ (daily /\ Flatten),
                              !.allowed = ~dd /\ ~daily /\ DrawdownValid /\ WithinBudget, !.todo = left]
  BY DEF Judge
<1>2. DayKey \in Nat /\ DayKey' = DayKey /\ Unset \notin Int /\ flags.day = DayKey
  BY <1>1, DayKeyNat, Frame, LossAssumption DEF Todo
<1>3. left \subseteq {"ddHalt", "halt", "lastNav", "lastAt"} /\ "lastNav" \in left
  OBVIOUS
<1>4. /\ tick' \in TickType /\ tick'.pc = "write" /\ tick'.todo = left
      /\ tick'.tx = tick.tx /\ tick'.nav = tick.nav /\ tick'.result = tick.result /\ tick'.made = tick.made
      /\ tick'.allowed = (~dd /\ ~daily /\ DrawdownValid /\ WithinBudget) /\ tick'.flatten = (dd \/ (daily /\ Flatten))
  <2>1. (~dd /\ ~daily /\ DrawdownValid /\ WithinBudget) \in BOOLEAN /\ (dd \/ (daily /\ Flatten)) \in BOOLEAN
    OBVIOUS
  <2>2. left \in SUBSET Flags
    BY <1>3 DEF Flags
  <2> HIDE DEF left, dd, daily
  <2> QED BY <1>1, <2>1, <2>2 DEF LossTypes, TickType, Writing
<1>5. /\ latches' \in [daily : NatOrUnset, dd : BOOLEAN]
      /\ latches'.daily = IF DailyBreached /\ ~DailyHalted THEN DayKey ELSE latches.daily
      /\ latches'.dd = (latches.dd \/ (DrawdownBreached /\ ~DrawdownHalted))
  BY <1>1, <1>2 DEF LossTypes, NatOrUnset
<1>6. /\ seen' \in SeenType
      /\ seen'.daily = IF DailyBreached THEN DayKey ELSE seen.daily
      /\ seen'.drawdown = (seen.drawdown \/ DrawdownBreached)
      /\ seen'.last = seen.last /\ seen'.e0 = seen.e0 /\ seen'.dd = seen.dd
      /\ seen'.whole = seen.whole /\ seen'.wholeE0 = seen.wholeE0
  BY <1>1, <1>2 DEF LossTypes, SeenType, NatOrUnset
<1>7. LossTypes'
  BY <1>1, <1>4, <1>5, <1>6 DEF LossTypes
<1>8. Todo'
  BY <1>3, <1>4 DEF Todo
<1>9. /\ seen'.daily = DayKey => DailyHalted' /\ daily
      /\ seen'.drawdown => DrawdownHalted' /\ dd
      /\ seen'.daily # Unset => seen'.daily <= DayKey
  <2>1. /\ seen'.daily = DayKey => DailyHalted' /\ daily
        /\ seen'.daily # Unset => seen'.daily <= DayKey
    <3>1. CASE DailyBreached
      BY <1>1, <1>2, <1>5, <1>6, <3>1 DEF DailyHalted
    <3>2. CASE ~DailyBreached
      BY <1>1, <1>2, <1>5, <1>6, <3>2 DEF HaltsDue, DailyHalted
    <3> QED BY <3>1, <3>2
  <2>2. seen'.drawdown => DrawdownHalted' /\ dd
    BY <1>1, <1>5, <1>6 DEF HaltsDue, DrawdownHalted
  <2> QED BY <2>1, <2>2
<1>10. HaltsDue'
  BY <1>1, <1>2, <1>4, <1>9 DEF HaltsDue
<1>11. Decisions'
  <2> HIDE DEF dd, daily, left
  <2>1. /\ seen'.daily = DayKey => ~tick'.allowed /\ (Flatten => tick'.flatten)
        /\ seen'.drawdown => ~tick'.allowed /\ tick'.flatten
    BY <1>4, <1>9
  <2> QED BY <1>1, <1>2, <1>4, <2>1 DEF Decisions
<1> HIDE DEF left
<1> QED BY <1>1, <1>3, <1>4, <1>6, <1>7, <1>8, <1>10, <1>11, HaltsKeep

-----------------------------------------------------------------------------
\* One write: what it changes, and the record of the tick after it.
Writes(flag) ==
    /\ flag \in tick.todo /\ Due(flag) /\ SetFlag(flag)
    /\ tick' = [tick EXCEPT !.todo = @ \ {flag}]
    /\ UNCHANGED <<account, now>>

LEMMA WriteStep ==
    ASSUME LossInv, NEW flag \in Flags, Writes(flag)
    PROVE  /\ tick.pc \in Writing /\ flag \in tick.todo
           /\ tick' \in TickType /\ tick'.todo = tick.todo \ {flag} /\ tick'.pc = tick.pc
           /\ tick'.tx = tick.tx /\ tick'.nav = tick.nav /\ tick'.result = tick.result
           /\ tick'.allowed = tick.allowed /\ tick'.flatten = tick.flatten /\ tick'.made = tick.made
           /\ \A f \in (Flags \cup {"tx"}) \ {flag} : flags'[f] = flags[f]
           /\ flags'[flag] = Value(flag)
           /\ Value(flag) \in IF flag \in {"e0", "transfers", "ddStart", "ddTransfers", "lastNav"}
                              THEN IntOrUnset ELSE NatOrUnset
           /\ flags' \in FlagsType
           /\ account' = account /\ now' = now /\ now \in Nat
           /\ DayKey \in Nat /\ DayKey' = DayKey /\ Unset \notin Int
           /\ \A id \in Nat : MovedBy(id)' = MovedBy(id)
           /\ flags'.tx = flags.tx /\ Applied' = Applied /\ Applied \in Int
<1> USE DEF LossInv
<1>1. /\ flag \in tick.todo /\ tick.pc \in Writing /\ account' = account /\ now' = now /\ now \in Nat
      /\ flags' = [flags EXCEPT ![flag] = Value(flag)] /\ tick' = [tick EXCEPT !.todo = @ \ {flag}]
  BY DEF Writes, Due, SetFlag, Writing, LossTypes
<1>2. DayKey \in Nat /\ DayKey' = DayKey /\ Unset \notin Int /\ \A id \in Nat : MovedBy(id)' = MovedBy(id)
  BY <1>1, DayKeyNat, SameMoved, LossAssumption DEF DayKey
<1>3. /\ tick' \in TickType /\ tick'.todo = tick.todo \ {flag} /\ tick'.pc = tick.pc
      /\ tick'.tx = tick.tx /\ tick'.nav = tick.nav /\ tick'.result = tick.result
      /\ tick'.allowed = tick.allowed /\ tick'.flatten = tick.flatten /\ tick'.made = tick.made
  BY <1>1 DEF LossTypes, TickType
<1>4. Value(flag) \in IF flag \in {"e0", "transfers", "ddStart", "ddTransfers", "lastNav"}
                      THEN IntOrUnset ELSE NatOrUnset
  <2>1. tick.nav \in Int /\ (Baseline # Unset => Baseline \in Int)
    BY DEF LossTypes, TickType, FlagsType, Baseline, IntOrUnset
  <2> QED BY <1>1, <1>2, <2>1 DEF Value, IntOrUnset, NatOrUnset, Flags
<1>5. flags' \in FlagsType /\ \A f \in (Flags \cup {"tx"}) \ {flag} : flags'[f] = flags[f]
  BY <1>1, <1>4 DEF LossTypes, FlagsType, Flags
<1>6. flags'[flag] = Value(flag)
  BY <1>1 DEF LossTypes, FlagsType, Flags
<1>7. flags'.tx = flags.tx
  BY <1>5 DEF Flags
<1>8. OrZero(flags.tx) \in 0..Len(account.moved) /\ OrZero(flags.tx)' = OrZero(flags.tx)
  BY <1>7 DEF OrZero, Cursor, LossTypes, FlagsType, NatOrUnset
<1>9. Applied' = Applied /\ Applied \in Int
  BY <1>2, <1>8, MovedInt DEF Applied
<1> QED BY <1>1, <1>2, <1>3, <1>4, <1>5, <1>6, <1>7, <1>9

\* The halt flags: unset on a new day or by the operator, set for what was judged.
LEMMA WriteHaltKeeps ==
    ASSUME LossInv, NEW flag \in {"halt", "ddHalt"}, Writes(flag) PROVE LossInv'
<1> USE DEF LossInv
<1> flag \in Flags
  BY DEF Flags
<1>1. latches' = latches /\ seen' = seen
  BY DEF Writes, SetFlag
<1>2. /\ flags'.day = flags.day /\ flags'.e0 = flags.e0 /\ flags'.transfers = flags.transfers
      /\ flags'.ddStart = flags.ddStart /\ flags'.ddTransfers = flags.ddTransfers
      /\ flags'.lastNav = flags.lastNav /\ flags'.lastAt = flags.lastAt
  BY WriteStep DEF Flags
<1>3. Baseline' = Baseline /\ DayKey' = DayKey /\ Applied' = Applied /\ tick.pc \in Writing
  BY <1>2, WriteStep DEF Baseline
<1>4. LossTypes'
  BY <1>1, WriteStep DEF LossTypes
<1>5. Todo'
  <2>1. /\ "e0" \in tick'.todo <=> "e0" \in tick.todo
        /\ "transfers" \in tick'.todo <=> "transfers" \in tick.todo
        /\ "day" \in tick'.todo <=> "day" \in tick.todo
        /\ "ddTransfers" \in tick'.todo <=> "ddTransfers" \in tick.todo
        /\ "ddStart" \in tick'.todo <=> "ddStart" \in tick.todo
        /\ tick'.todo \subseteq tick.todo /\ flag \in tick.todo /\ tick'.todo = tick.todo \ {flag}
    BY WriteStep
  <2>2. tick.pc = "strict" => flag = "halt" /\ "transfers" \notin tick.todo
    <3>1. tick.pc = "strict" => flag = "halt"
      BY <2>1 DEF Todo
    <3>2. tick.pc = "strict" /\ flag = "halt" => "transfers" \notin tick.todo
      BY DEF Writes, Due, Order
    <3> QED BY <3>1, <3>2
  <2>3. tick'.pc = tick.pc
    BY WriteStep
  <2>4. tick.pc = "strict" => "e0" \notin tick.todo
    BY <2>2 DEF Todo
  <2> QED BY <1>2, <1>3, <2>1, <2>2, <2>3, <2>4 DEF Todo
<1>6. Cursor'
  BY <1>2, WriteStep DEF Cursor, LossTypes, TickType
<1>7. DayReference' /\ LastNav' /\ DrawdownReference'
  <2>1. /\ tick'.pc = tick.pc
        /\ \A f \in {"day", "e0", "transfers", "ddTransfers", "ddStart", "lastAt", "lastNav"} :
               f \in tick'.todo <=> f \in tick.todo
    BY WriteStep
  <2>2. DayReference'
    BY <1>1, <1>2, <1>3, <2>1 DEF DayReference
  <2>3. LastNav'
    BY <1>1, <1>2, <1>3, <2>1 DEF LastNav
  <2>4. DrawdownReference'
    BY <1>1, <1>2, <1>3, <2>1 DEF DrawdownReference, OrZero
  <2> QED BY <2>2, <2>3, <2>4
<1>8. HaltsDue'
  <2>1. tick'.pc = tick.pc
    BY WriteStep
  <2>2. seen.daily = DayKey => DailyHalted'
    <3>1. CASE flag = "halt" /\ tick.pc = "strict"
      <4>1. flags.day # DayKey
        BY <3>1, WriteStep DEF Todo
      <4> QED BY <4>1 DEF HaltsDue
    <3>2. CASE flag = "halt" /\ tick.pc = "write"
      <4>1. flags'.halt = DayKey
        BY <3>2, WriteStep DEF Value
      <4> QED BY <1>3, <4>1 DEF DailyHalted
    <3>3. CASE flag = "ddHalt"
      <4>1. flags'.halt = flags.halt
        BY <3>3, WriteStep DEF Flags
      <4> QED BY <1>1, <1>3, <4>1 DEF HaltsDue, DailyHalted
    <3>4. ~(flag = "halt" /\ tick.pc = "clear")
      BY WriteStep DEF Todo
    <3> QED BY <1>3, <3>1, <3>2, <3>3, <3>4 DEF Writing
  <2>3. seen.drawdown => DrawdownHalted'
    <3>1. CASE flag = "halt"
      <4>1. flags'.ddHalt = flags.ddHalt
        BY <3>1, WriteStep DEF Flags
      <4> QED BY <1>1, <4>1 DEF HaltsDue, DrawdownHalted
    <3>2. CASE flag = "ddHalt" /\ tick.pc = "write"
      <4>1. flags'.ddHalt = now /\ now # Unset
        BY <3>2, WriteStep DEF Value
      <4> QED BY <4>1 DEF DrawdownHalted
    <3>3. CASE tick.pc = "clear"
      BY <3>3 DEF HaltsDue
    <3>4. ~(flag = "ddHalt" /\ tick.pc = "strict")
      BY WriteStep DEF Todo
    <3> QED BY <1>3, <3>1, <3>2, <3>3, <3>4 DEF Writing
  <2> QED BY <1>1, <1>2, <1>3, <2>1, <2>2, <2>3 DEF HaltsDue
<1>9. Decisions'
  BY <1>1, <1>3, WriteStep DEF Decisions, Writing
<1> QED BY <1>4, <1>5, <1>6, <1>7, <1>8, <1>9

\* The other flags: they touch no halt, and each one's references are its own.
LEMMA WriteOther ==
    ASSUME LossInv, NEW flag \in Flags \ {"halt", "ddHalt", "day"}, Writes(flag)
    PROVE  LossTypes' /\ Cursor' /\ HaltsDue' /\ Decisions'
<1> USE DEF LossInv
<1>1. latches' = latches /\ seen'.daily = seen.daily /\ seen'.drawdown = seen.drawdown /\ seen' \in SeenType
  <2>1. Baseline # Unset => seen.last \in IntOrUnset
    BY DEF LossTypes, SeenType
  <2>2. seen' = CASE flag = "e0" -> IF Baseline = Unset THEN [seen EXCEPT !.e0 = tick.result, !.wholeE0 = TRUE]
                                    ELSE [seen EXCEPT !.e0 = seen.last, !.wholeE0 = seen.whole]
                  [] flag = "ddStart" -> [seen EXCEPT !.dd = IF tick.pc = "clear" THEN Unset ELSE tick.result]
                  [] flag = "lastNav" -> [seen EXCEPT !.last = tick.result, !.whole = TRUE]
                  [] OTHER -> seen
    BY DEF Writes, SetFlag
  <2>3. tick.result \in IntOrUnset /\ Unset \in IntOrUnset /\ seen.last \in IntOrUnset /\ seen.whole \in BOOLEAN
    BY DEF LossTypes, TickType, SeenType, IntOrUnset
  <2>4. latches' = latches
    BY DEF Writes, SetFlag
  <2>5. CASE flag = "e0"
    BY <2>2, <2>3, <2>4, <2>5 DEF LossTypes, SeenType
  <2>6. CASE flag = "ddStart"
    BY <2>2, <2>3, <2>4, <2>6 DEF LossTypes, SeenType
  <2>7. CASE flag = "lastNav"
    BY <2>2, <2>3, <2>4, <2>7 DEF LossTypes, SeenType
  <2>8. CASE flag \notin {"e0", "ddStart", "lastNav"}
    BY <2>2, <2>4, <2>8 DEF LossTypes, SeenType
  <2> QED BY <2>5, <2>6, <2>7, <2>8
<1>2. flags'.halt = flags.halt /\ flags'.ddHalt = flags.ddHalt /\ flags'.day = flags.day
  BY WriteStep DEF Flags
<1>3. DailyHalted' = DailyHalted /\ DrawdownHalted' = DrawdownHalted /\ DayKey' = DayKey /\ tick.pc \in Writing
  BY <1>1, <1>2, WriteStep DEF DailyHalted, DrawdownHalted
<1>4. LossTypes'
  BY <1>1, WriteStep DEF LossTypes
<1>5. Cursor'
  <2>1. tick.pc \in {"strict", "write"} => flags.tx = tick.tx /\ flags.tx # Unset
    BY WriteStep DEF Cursor, LossTypes, TickType
  <2>2. tick.pc = "clear" => (flags'.ddStart = flags.ddStart \/ flags'.ddStart = Unset) /\ flags'.lastNav = flags.lastNav
    BY WriteStep DEF Todo, Value, Flags
  <2> QED BY <1>2, <1>3, <2>1, <2>2, WriteStep DEF Cursor, Writing, LossTypes, TickType
<1>6. HaltsDue' /\ Decisions'
  BY <1>1, <1>2, <1>3, WriteStep DEF HaltsDue, Decisions, Writing
<1> QED BY <1>4, <1>5, <1>6

\* The flags of the day: E0, the day's transfers, and the day itself last.
LEMMA WriteDayKeeps ==
    ASSUME LossInv, NEW flag \in {"e0", "transfers"}, Writes(flag) PROVE LossInv'
<1> USE DEF LossInv
<1> flag \in Flags \ {"halt", "ddHalt", "day"}
  BY DEF Flags
<1>1. LossTypes' /\ Cursor' /\ HaltsDue' /\ Decisions'
  BY WriteOther
<1>2. /\ tick.pc = "strict" /\ tick'.pc = "strict" /\ flag \in tick.todo /\ "day" \in tick.todo
      /\ tick'.todo = tick.todo \ {flag} /\ flags.day # DayKey
  BY WriteStep DEF Todo, Writing
<1>3. flags'.day = flags.day /\ flags'.ddStart = flags.ddStart /\ flags'.ddTransfers = flags.ddTransfers
      /\ flags'.lastNav = flags.lastNav /\ flags'.lastAt = flags.lastAt
      /\ flags'.e0 = (IF flag = "e0" THEN Value(flag) ELSE flags.e0)
      /\ flags'.transfers = (IF flag = "transfers" THEN Value(flag) ELSE flags.transfers)
  BY WriteStep DEF Flags
<1>4. /\ seen'.last = seen.last /\ seen'.dd = seen.dd /\ seen'.whole = seen.whole
      /\ flag = "transfers" => seen' = seen
      /\ flag = "e0" => /\ seen'.e0 = IF Baseline = Unset THEN tick.result ELSE seen.last
                        /\ seen'.wholeE0 = IF Baseline = Unset THEN TRUE ELSE seen.whole
  BY DEF Writes, SetFlag, LossTypes, SeenType
<1>5. DayKey' = DayKey /\ Baseline' = Baseline /\ Applied' = Applied /\ Unset \notin Int
  BY <1>3, WriteStep DEF Baseline
<1>6. flag = "transfers" => "e0" \notin tick.todo
  BY <1>2 DEF Writes, Due, Order
<1>7. Todo'
  BY <1>2, <1>3, <1>5, <1>6 DEF Todo
<1>8. DayReference'
  <2>1. tick.nav = tick.result + MovedBy(tick.tx) /\ flags.tx = tick.tx /\ tick.tx # Unset
    BY <1>2, <1>5 DEF Cursor, LossTypes, TickType
  <2>2. Applied = MovedBy(tick.tx)
    BY <2>1 DEF Applied, OrZero
  <2>3. flag = "e0" =>
          /\ flags'.e0 # Unset /\ seen'.e0 # Unset
          /\ seen'.wholeE0 => flags'.e0 = Applied + seen'.e0
    <3>1. ASSUME flag = "e0", Baseline = Unset
          PROVE  /\ flags'.e0 # Unset /\ seen'.e0 # Unset
                 /\ flags'.e0 = Applied + seen'.e0
      <4>1. flags'.e0 = tick.nav /\ seen'.e0 = tick.result /\ tick.nav \in Int /\ tick.result \in Int
        BY <1>3, <1>4, <3>1 DEF Value, LossTypes, TickType
      <4> QED BY <1>5, <2>1, <2>2, <4>1, WriteStep
    <3>2. ASSUME flag = "e0", Baseline # Unset
          PROVE  /\ flags'.e0 # Unset /\ seen'.e0 # Unset
                 /\ seen'.wholeE0 => flags'.e0 = Applied + seen'.e0
      <4>1. flags'.e0 = Baseline /\ seen'.e0 = seen.last /\ seen'.wholeE0 = seen.whole
        BY <1>3, <1>4, <3>2 DEF Value
      <4>2. Baseline = flags.lastNav /\ flags.lastNav # Unset
        BY <3>2 DEF Baseline
      <4> QED BY <3>2, <4>1, <4>2 DEF LastNav
    <3> QED BY <3>1, <3>2
  <2>4. flag = "transfers" => flags'.transfers = 0
    BY <1>3 DEF Value
  <2>5. flag = "e0" => "transfers" \in tick.todo
    BY <1>2 DEF Todo
  <2>6. flags.day # Unset => flags'.e0 # Unset /\ flags'.transfers # Unset /\ seen'.e0 # Unset
    BY <1>3, <1>4, <1>5, <2>3, <2>4 DEF DayReference
  <2> QED BY <1>2, <1>3, <1>4, <1>5, <1>6, <2>3, <2>4, <2>5, <2>6 DEF DayReference
<1>9. LastNav' /\ DrawdownReference'
  BY <1>2, <1>3, <1>4, <1>5 DEF LastNav, DrawdownReference, OrZero
<1> QED BY <1>1, <1>7, <1>8, <1>9

LEMMA WriteDayItselfKeeps == ASSUME LossInv, Writes("day") PROVE LossInv'
<1> USE DEF LossInv
<1> "day" \in Flags
  BY DEF Flags
<1>1. /\ tick.pc = "strict" /\ tick'.pc = "strict" /\ "day" \in tick.todo
      /\ tick'.todo = tick.todo \ {"day"} /\ flags.day # DayKey
      /\ "e0" \notin tick.todo /\ "transfers" \notin tick.todo /\ "halt" \notin tick.todo
  <2>1. tick.pc = "strict" /\ tick'.pc = "strict" /\ "day" \in tick.todo /\ tick'.todo = tick.todo \ {"day"}
    BY WriteStep DEF Todo, Writing
  <2> QED BY <2>1 DEF Todo, Writes, Due, Order
<1>2. /\ flags'.day = DayKey /\ flags'.ddStart = flags.ddStart /\ flags'.ddTransfers = flags.ddTransfers
      /\ flags'.lastNav = flags.lastNav /\ flags'.lastAt = flags.lastAt
      /\ flags'.e0 = flags.e0 /\ flags'.transfers = flags.transfers
      /\ flags'.halt = flags.halt /\ flags'.ddHalt = flags.ddHalt
  BY WriteStep DEF Flags, Value
<1>3. /\ seen' = seen /\ latches'.dd = latches.dd
      /\ latches' \in [daily : NatOrUnset, dd : BOOLEAN]
  BY DEF Writes, SetFlag, LossTypes, NatOrUnset
<1>4. DayKey' = DayKey /\ DayKey \in Nat /\ Baseline' = Baseline /\ Applied' = Applied /\ Applied \in Int /\ Unset \notin Int
  BY <1>2, WriteStep DEF Baseline
<1>5. LossTypes'
  BY <1>3, WriteStep DEF LossTypes
<1>6. Todo'
  BY <1>1, <1>2, <1>4 DEF Todo
<1>7. Cursor'
  BY <1>1, <1>2, <1>4, WriteStep DEF Cursor, LossTypes, TickType
<1>8. DayReference'
  <2>1. /\ flags.e0 # Unset /\ seen.e0 # Unset /\ flags.transfers = 0
        /\ seen.wholeE0 => flags.e0 = Applied + seen.e0
    BY <1>1 DEF DayReference
  <2>2. flags.e0 \in Int /\ seen.e0 \in Int
    BY <2>1 DEF LossTypes, FlagsType, SeenType, IntOrUnset
  <2>3. seen.wholeE0 => flags.e0 + flags.transfers = Applied + seen.e0
    BY <1>4, <2>1, <2>2
  <2> QED BY <1>1, <1>2, <1>3, <1>4, <2>1, <2>3 DEF DayReference
<1>9. LastNav' /\ DrawdownReference'
  BY <1>1, <1>2, <1>3, <1>4 DEF LastNav, DrawdownReference, OrZero
<1>10. HaltsDue'
  BY <1>1, <1>2, <1>3, <1>4 DEF HaltsDue, DrawdownHalted
<1>11. Decisions'
  BY <1>1, <1>3, <1>4, WriteStep DEF Decisions
<1> QED BY <1>5, <1>6, <1>7, <1>8, <1>9, <1>10, <1>11

\* The baseline of the drawdown: taken by a tick, dropped by the operator.
LEMMA WriteDrawdownKeeps ==
    ASSUME LossInv, NEW flag \in {"ddStart", "ddTransfers"}, Writes(flag) PROVE LossInv'
<1> USE DEF LossInv
<1> flag \in Flags \ {"halt", "ddHalt", "day"}
  BY DEF Flags
<1>1. LossTypes' /\ Cursor' /\ HaltsDue' /\ Decisions'
  BY WriteOther
<1>2. /\ tick.pc \in {"strict", "clear"} /\ tick'.pc = tick.pc /\ flag \in tick.todo
      /\ tick'.todo = tick.todo \ {flag}
  BY WriteStep DEF Todo, Writing
<1>3. flags'.day = flags.day /\ flags'.e0 = flags.e0 /\ flags'.transfers = flags.transfers
      /\ flags'.lastNav = flags.lastNav /\ flags'.lastAt = flags.lastAt
      /\ flags'.ddStart = (IF flag = "ddStart" THEN Value(flag) ELSE flags.ddStart)
      /\ flags'.ddTransfers = (IF flag = "ddTransfers" THEN Value(flag) ELSE flags.ddTransfers)
  BY WriteStep DEF Flags
<1>4. /\ seen'.last = seen.last /\ seen'.e0 = seen.e0 /\ seen'.whole = seen.whole /\ seen'.wholeE0 = seen.wholeE0
      /\ seen'.dd = IF flag = "ddStart" THEN (IF tick.pc = "clear" THEN Unset ELSE tick.result) ELSE seen.dd
  BY DEF Writes, SetFlag, LossTypes, SeenType
<1>5. DayKey' = DayKey /\ Baseline' = Baseline /\ Applied' = Applied /\ Unset \notin Int
  BY <1>3, WriteStep DEF Baseline
<1>6. /\ tick.pc = "strict" /\ flag = "ddStart" => "ddTransfers" \notin tick.todo
      /\ tick.pc = "clear" /\ flag = "ddTransfers" => tick.todo = {"ddTransfers"} /\ flags.ddStart = Unset
  <2>1. tick.pc = "strict" /\ flag = "ddStart" => "ddTransfers" \notin tick.todo
    BY DEF Writes, Due, Order
  <2>2. tick.pc = "clear" /\ flag = "ddTransfers" => "ddStart" \notin tick.todo /\ "ddHalt" \notin tick.todo
    BY DEF Writes, Due, Order
  <2> QED BY <1>2, <2>1, <2>2 DEF Todo
<1>7. Value("ddStart") = (IF tick.pc = "strict" THEN tick.nav ELSE Unset) /\ Value("ddTransfers") = Unset
  BY <1>2 DEF Value
<1>8. Todo'
  BY <1>2, <1>3, <1>5, <1>6, <1>7 DEF Todo
<1>9. DayReference' /\ LastNav'
  BY <1>2, <1>3, <1>4, <1>5 DEF DayReference, LastNav
<1>10. DrawdownReference'
  <2>1. CASE flag = "ddTransfers"
    <3>1. flags.ddStart = Unset
      BY <1>2, <1>6, <2>1 DEF Todo
    <3> QED BY <1>2, <1>3, <1>7, <2>1, <3>1 DEF DrawdownReference
  <2>2. CASE flag = "ddStart" /\ tick.pc = "clear"
    BY <1>2, <1>3, <1>7, <2>2 DEF DrawdownReference
  <2>3. CASE flag = "ddStart" /\ tick.pc = "strict"
    <3>1. tick.nav = tick.result + MovedBy(tick.tx) /\ flags.tx = tick.tx /\ tick.tx # Unset
      BY <1>5, <2>3 DEF Cursor, LossTypes, TickType
    <3>2. Applied = MovedBy(tick.tx) /\ flags.ddTransfers = Unset
      BY <1>2, <1>6, <2>3, <3>1 DEF Applied, OrZero, DrawdownReference
    <3>3. flags'.ddStart = tick.nav /\ flags'.ddTransfers = Unset /\ seen'.dd = tick.result
      BY <1>3, <1>4, <1>7, <2>3, <3>2
    <3>4. OrZero(flags.ddTransfers)' = 0
      BY <3>3 DEF OrZero
    <3>5. tick.nav \in Int /\ tick.result \in Int /\ Applied \in Int
      BY WriteStep DEF LossTypes, TickType
    <3>6. flags'.ddStart + OrZero(flags.ddTransfers)' = Applied' + seen'.dd /\ seen'.dd # Unset
      BY <1>5, <3>1, <3>2, <3>3, <3>4, <3>5
    <3> QED BY <1>2, <2>3, <3>6 DEF DrawdownReference
  <2> QED BY <1>2, <2>1, <2>2, <2>3
<1> QED BY <1>1, <1>8, <1>9, <1>10

\* The NAV remembered for the next day, and its time.
LEMMA WriteLastKeeps ==
    ASSUME LossInv, NEW flag \in {"lastNav", "lastAt"}, Writes(flag) PROVE LossInv'
<1> USE DEF LossInv
<1> flag \in Flags \ {"halt", "ddHalt", "day"}
  BY DEF Flags
<1>1. LossTypes' /\ Cursor' /\ HaltsDue' /\ Decisions'
  BY WriteOther
<1>2. /\ tick.pc = "write" /\ tick'.pc = "write" /\ flag \in tick.todo
      /\ tick'.todo = tick.todo \ {flag}
  BY WriteStep DEF Todo, Writing
<1>3. flags'.day = flags.day /\ flags'.e0 = flags.e0 /\ flags'.transfers = flags.transfers
      /\ flags'.ddStart = flags.ddStart /\ flags'.ddTransfers = flags.ddTransfers
      /\ flags'.lastNav = (IF flag = "lastNav" THEN tick.nav ELSE flags.lastNav)
  BY WriteStep DEF Flags, Value
<1>4. /\ seen'.dd = seen.dd /\ seen'.e0 = seen.e0 /\ seen'.wholeE0 = seen.wholeE0
      /\ seen'.last = IF flag = "lastNav" THEN tick.result ELSE seen.last
  BY DEF Writes, SetFlag, LossTypes, SeenType
<1>5. DayKey' = DayKey /\ Applied' = Applied /\ Unset \notin Int
  BY WriteStep
<1>6. Todo'
  BY <1>2, <1>3, <1>5 DEF Todo
<1>7. DayReference' /\ DrawdownReference'
  BY <1>2, <1>3, <1>4, <1>5 DEF DayReference, DrawdownReference, OrZero
<1>8. LastNav'
  <2>1. CASE flag = "lastNav"
    <3>1. tick.nav = tick.result + MovedBy(tick.tx) /\ flags.tx = tick.tx /\ tick.tx # Unset
      BY <1>2, <1>5 DEF Cursor, LossTypes, TickType
    <3>2. Applied = MovedBy(tick.tx)
      BY <3>1 DEF Applied, OrZero
    <3>3. tick.nav \in Int /\ tick.result \in Int /\ Applied \in Int
      BY WriteStep DEF LossTypes, TickType
    <3>4. flags'.lastNav = Applied' + seen'.last /\ seen'.last # Unset /\ flags'.lastNav # Unset
      BY <1>3, <1>4, <1>5, <2>1, <3>1, <3>2, <3>3
    <3> QED BY <3>4 DEF LastNav
  <2>2. CASE flag = "lastAt"
    <3>1. "lastNav" \notin tick.todo
      BY <1>2, <2>2 DEF Writes, Due, Order
    <3>2. flags.lastNav # Unset /\ flags.lastNav = Applied + seen.last
      BY <1>2, <2>2, <3>1 DEF LastNav
    <3>3. flags'.lastNav = flags.lastNav /\ seen'.last = seen.last
      BY <1>3, <1>4, <2>2
    <3>4. seen.last # Unset
      BY <3>2 DEF LastNav
    <3> QED BY <1>5, <3>2, <3>3, <3>4 DEF LastNav
  <2> QED BY <2>1, <2>2
<1> QED BY <1>1, <1>6, <1>7, <1>8

LEMMA WriteKeeps == ASSUME LossInv, Write PROVE LossInv'
<1>1. PICK flag \in tick.todo : Writes(flag)
  BY DEF Write, Writes
<1>2. flag \in Flags
  BY <1>1 DEF LossInv, LossTypes, TickType
<1> QED BY <1>1, <1>2, WriteHaltKeeps, WriteDayKeeps, WriteDayItselfKeeps, WriteDrawdownKeeps, WriteLastKeeps
        DEF Flags

LEMMA LossStutter == ASSUME LossInv, UNCHANGED lossVars PROVE LossInv'
<1>1. UNCHANGED <<account, now, flags, latches, tick, seen>>
  BY DEF lossVars
<1>2. /\ \A id \in Nat : MovedBy(id)' = MovedBy(id)
      /\ Applied' = Applied /\ DayKey' = DayKey /\ Baseline' = Baseline
      /\ DailyHalted' = DailyHalted /\ DrawdownHalted' = DrawdownHalted
  BY <1>1, Frame DEF DailyHalted, DrawdownHalted
<1>3. LossTypes' /\ Todo' /\ Cursor'
  BY <1>1, <1>2 DEF LossInv, LossTypes, TickType, Todo, Cursor
<1>4. DayReference' /\ LastNav' /\ DrawdownReference'
  BY <1>1, <1>2 DEF LossInv, DayReference, LastNav, DrawdownReference, OrZero
<1>5. HaltsDue' /\ Decisions'
  BY <1>1, <1>2 DEF LossInv, HaltsDue, Decisions
<1> QED BY <1>3, <1>4, <1>5 DEF LossInv

-----------------------------------------------------------------------------
\* The writes of a tick in any state they can be left in by failures and deaths: the
\* inductive invariant of the daily loss limit.
THEOREM LossInvariant == LossSpec => []LossInv
<1>1. LossInv /\ [LossNext]_lossVars => LossInv'
  <2> SUFFICES ASSUME LossInv, [LossNext]_lossVars PROVE LossInv'
    OBVIOUS
  <2>1. CASE LossNext
    BY <2>1, TradeKeeps, TransferKeeps, TimeKeeps, ReadKeeps, UnavailableKeeps, TransfersKeep,
       NonPositiveKeeps, RollKeeps, WriteKeeps, WriteFailsKeeps, JudgeKeeps, LossDecisionKeeps,
       ClearDrawdownKeeps, DrawdownClearedKeeps, ClearDailyKeeps, RestartKeeps DEF LossNext
  <2>2. CASE UNCHANGED lossVars
    BY <2>2, LossStutter
  <2> QED BY <2>1, <2>2
<1> QED BY <1>1, LossInitially, PTL DEF LossSpec

\* E0 and the drawdown start follow the transfers and nothing else, through every order of
\* trades, transfers, midnights, failed writes, clears and restarts (apply_transfer, _roll).
THEOREM ReferenceKeptHolds == LossSpec => []ReferenceKept
<1>1. LossInv => ReferenceKept
  BY DEF LossInv, DayReference, DrawdownReference, ReferenceKept
<1> QED BY <1>1, LossInvariant, PTL

\* A decision never lets an entry through a halt that is due, and always flattens on it
\* (DailyLossLimit.evaluate, _loss_halted).
THEOREM HaltHoldsAlways == LossSpec => []HaltHolds
<1>1. LossInv => HaltHolds
  BY DEF LossInv, Decisions, HaltHolds
<1> QED BY <1>1, LossInvariant, PTL

-----------------------------------------------------------------------------
\* RiskReservation: the types of its state.
Setups == {q.setup : q \in Request}
Orders == [status : {"NONE", "PENDING", "FILLED", "CANCELLED"}, sym : Symbol \cup {None},
           setup : Setups \cup {None}, known : BOOLEAN]
PaperStates == [order : [Run -> Orders], open : [Symbol -> FillRisk \cup {None}]]
Candidates == {Candidate(q) : q \in Request}
Decision == [decision : {"BLOCKED", "RISK_REJECTED", "RESERVED"}, cand : Candidates]
Loaded == {"evaluate", "save", "block", "reject"}
Calls == [pc : {"idle", "claim", "load", "stale"} \cup Loaded, req : Request \cup {None},
          attempt : 0..2, state : PaperStates \cup {None},
          answer : {None, "NOT_SUBMITTED", "DUPLICATE_RUN", "REJECTED", "RESERVED", "STALE"}]

ReserveTypes ==
    /\ state \in PaperStates
    /\ \A r \in Run : state.order[r].status # "NONE" => state.order[r].sym \in Symbol
    /\ claim \in [Run -> Candidates \cup {None}]
    /\ decided \in [Run -> {<<>>} \cup {<<d>> : d \in Decision}]
    /\ staleRow \subseteq Run
    /\ caller \in [Caller -> Calls]

-----------------------------------------------------------------------------
\* The paper state only goes on: an order never returns to an earlier status, and where no
\* order moved, positions at most closed.  So a state that was left is not met again, and
\* "unchanged since the load" (the compare-and-swap) means that nothing happened since.
Before(x, y) == \/ x = "NONE" /\ y # "NONE"
                \/ x = "PENDING" /\ y \in {"FILLED", "CANCELLED"}
Earlier(a, b) ==
    /\ \A r \in Run : a.order[r] = b.order[r] \/ Before(a.order[r].status, b.order[r].status)
    /\ a.order = b.order => \A s \in Symbol : b.open[s] \in {a.open[s], None}
GoesOn(a, b) == \A old \in PaperStates : Earlier(old, a) => Earlier(old, b) /\ old # b

\* What a call may rely on at each of its steps.
Knows(x) ==
    LET q == x.req
        b == x.state IN
    /\ x.pc # "idle" \/ x.answer # None => q \in Request
    /\ x.pc \in {"claim", "block", "reject", "stale"} => q.path = "conflict"
    /\ x.pc \notin {"idle", "claim"} /\ q.path = "conflict" => claim[q.run] = Candidate(q)
    /\ x.pc \in Loaded => b \in PaperStates /\ Earlier(b, state)
    /\ x.pc \in {"block", "reject"} => Evaluate(b, q) # "APPROVED"
    /\ x.pc = "save" => /\ b.order[q.run].status = "NONE" /\ Evaluate(b, q) = "APPROVED"
                        \* A refusal of the run that came in between was of another state.
                        /\ q.path = "conflict" /\ decided[q.run] # <<>> => b # state
    /\ x.answer \in {"RESERVED", "DUPLICATE_RUN"} /\ q.path = "conflict"
         => claim[q.run] = Candidate(q)

\* The rows of a run that has a registered claim.
Outcome(r) ==
    /\ state.order[r].status # "NONE" <=> decided[r] # <<>> /\ decided[r][1].decision = "RESERVED"
    /\ decided[r] # <<>> => decided[r][1].cand = claim[r]
    /\ state.order[r].status # "NONE" => [sym |-> state.order[r].sym, setup |-> state.order[r].setup] = claim[r]
Outcomes == \A q \in Request : q.path = "conflict" => Outcome(q.run)

ReserveInv == ReserveTypes /\ RiskWithinLimit /\ Outcomes /\ \A c \in Caller : Knows(caller[c])

-----------------------------------------------------------------------------
\* What is reserved and what is open, as numbers.
LEMMA RisksAreNumbers ==
    ASSUME NEW b \in PaperStates
    PROVE  /\ IsFiniteSet(PendingRuns(b)) /\ Cardinality(PendingRuns(b)) \in Nat
           /\ IsFiniteSet(OpenUnits(b)) /\ OpenRisk(b) \in Nat
<1>1. PendingRuns(b) \subseteq Run
    BY DEF PendingRuns
<1>2. IsFiniteSet(PendingRuns(b)) /\ Cardinality(PendingRuns(b)) \in Nat
    BY <1>1, RiskAssumption, FS_Subset, FS_CardinalityType
<1>3. OpenUnits(b) \subseteq Symbol \X (1..Reserve)
  <2>1. \A s \in OpenSymbols(b) : s \in Symbol /\ b.open[s] \in 0..Reserve
    BY RiskAssumption DEF OpenSymbols, PaperStates
  <2>2. \A s \in OpenSymbols(b) : {s} \X (1..b.open[s]) \subseteq Symbol \X (1..Reserve)
    BY <2>1, RiskAssumption
  <2>3. QED BY <2>2 DEF OpenUnits
<1>4. IsFiniteSet(Symbol \X (1..Reserve))
  <2>1. 1 \in Int /\ Reserve \in Int
    BY RiskAssumption
  <2>2. IsFiniteSet(1..Reserve)
    BY <2>1, FS_Interval
  <2>3. QED BY <2>2, RiskAssumption, FS_Product
<1>5. IsFiniteSet(OpenUnits(b)) /\ OpenRisk(b) \in Nat
    BY <1>3, <1>4, FS_Subset, FS_CardinalityType DEF OpenRisk
<1>6. QED BY <1>2, <1>5

\* A reservation: one more order is pending, and nothing else is open.
LEMMA ReservationAdds ==
    ASSUME NEW b \in PaperStates, NEW b2 \in PaperStates, NEW r \in Run,
           b.order[r].status # "PENDING", b2.order[r].status = "PENDING", b2.open = b.open,
           \A t \in Run : t # r => b2.order[t] = b.order[t]
    PROVE  /\ OpenRisk(b2) = OpenRisk(b)
           /\ Cardinality(PendingRuns(b2)) = Cardinality(PendingRuns(b)) + 1
<1>1. OpenRisk(b2) = OpenRisk(b)
    BY DEF OpenRisk, OpenUnits, OpenSymbols
<1>2. PendingRuns(b2) = PendingRuns(b) \cup {r} /\ r \notin PendingRuns(b)
    BY DEF PendingRuns
<1>3. QED BY <1>1, <1>2, RisksAreNumbers, FS_AddElement

\* An order that is no longer pending, and nothing else is open.
LEMMA CancelReleases ==
    ASSUME NEW b \in PaperStates, NEW b2 \in PaperStates, NEW r \in Run,
           b.order[r].status = "PENDING", b2.order[r].status # "PENDING",
           \A t \in Run : t # r => b2.order[t] = b.order[t]
    PROVE  /\ PendingRuns(b2) = PendingRuns(b) \ {r}
           /\ Cardinality(PendingRuns(b)) = Cardinality(PendingRuns(b2)) + 1
<1>1. PendingRuns(b2) = PendingRuns(b) \ {r} /\ r \in PendingRuns(b)
    BY DEF PendingRuns
<1>2. IsFiniteSet(PendingRuns(b)) /\ Cardinality(PendingRuns(b)) \in Nat
      /\ Cardinality(PendingRuns(b2)) \in Nat
    BY RisksAreNumbers
<1>3. Cardinality(PendingRuns(b2)) = Cardinality(PendingRuns(b)) - 1
    BY <1>1, <1>2, FS_RemoveElement
<1>4. QED BY <1>1, <1>2, <1>3

\* A fill opens at most what the order had reserved.
LEMMA FillOpens ==
    ASSUME NEW b \in PaperStates, NEW b2 \in PaperStates, NEW s \in Symbol, b.open[s] = None,
           NEW risk \in FillRisk, b2.open = [b.open EXCEPT ![s] = risk]
    PROVE  OpenRisk(b2) <= OpenRisk(b) + Reserve
<1>1. risk \in 0..Reserve /\ risk # None /\ Reserve \in Nat
    BY RiskAssumption
<1>2. b2.open[s] = risk /\ \A x \in Symbol : x # s => b2.open[x] = b.open[x]
    BY DEF PaperStates
<1>3. OpenUnits(b2) = OpenUnits(b) \cup ({s} \X (1..risk))
  <2>1. OpenSymbols(b2) = OpenSymbols(b) \cup {s} /\ s \notin OpenSymbols(b)
    BY <1>1, <1>2 DEF OpenSymbols
  <2>2. \A x \in OpenSymbols(b) : b2.open[x] = b.open[x]
    BY <2>1, <1>2 DEF OpenSymbols
  <2>3. \A u : u \in OpenUnits(b2) <=> \E x \in OpenSymbols(b2) : u \in {x} \X (1..b2.open[x])
    BY DEF OpenUnits
  <2>4. \A u : u \in OpenUnits(b) <=> \E x \in OpenSymbols(b) : u \in {x} \X (1..b.open[x])
    BY DEF OpenUnits
  <2>5. \A u : u \in OpenUnits(b2) <=> u \in OpenUnits(b) \/ u \in {s} \X (1..b2.open[s])
    BY <2>1, <2>2, <2>3, <2>4, Zenon
  <2>6. QED BY <2>5, <1>2
<1>4. IsFiniteSet({s} \X (1..risk)) /\ Cardinality({s} \X (1..risk)) = risk
  <2>1. IsFiniteSet(1..risk) /\ Cardinality(1..risk) = risk
    BY <1>1, FS_Interval
  <2>2. IsFiniteSet({s}) /\ Cardinality({s}) = 1
    BY FS_Singleton
  <2>3. QED BY <2>1, <2>2, <1>1, FS_Product
<1>5. Cardinality(OpenUnits(b) \cap ({s} \X (1..risk))) \in Nat
    BY <1>4, FS_Intersection, FS_CardinalityType
<1>6. Cardinality(OpenUnits(b2)) = Cardinality(OpenUnits(b)) + risk
                                   - Cardinality(OpenUnits(b) \cap ({s} \X (1..risk)))
    BY <1>3, <1>4, RisksAreNumbers, FS_Union
<1>7. QED BY <1>1, <1>5, <1>6, RisksAreNumbers DEF OpenRisk

LEMMA CloseReleases ==
    ASSUME NEW b \in PaperStates, NEW b2 \in PaperStates,
           \A x \in Symbol : b2.open[x] \in {b.open[x], None}
    PROVE  OpenRisk(b2) <= OpenRisk(b)
<1>1. OpenSymbols(b2) \subseteq OpenSymbols(b) /\ \A x \in OpenSymbols(b2) : b2.open[x] = b.open[x]
    BY DEF OpenSymbols
<1>2. OpenUnits(b2) \subseteq OpenUnits(b)
    BY <1>1 DEF OpenUnits
<1>3. QED BY <1>2, RisksAreNumbers, FS_Subset DEF OpenRisk

\* The gate counts what RiskWithinLimit counts.
LEMMA ApprovedFits ==
    ASSUME NEW b, NEW q, Evaluate(b, q) = "APPROVED"
    PROVE  /\ ~SymbolExposed(b, q.sym)
           /\ ~(OpenRisk(b) + Reserve * Cardinality(PendingRuns(b)) + Reserve > Limit)
BY DEF Evaluate

\* The gates find the same of the same candidate on the same state.
LEMMA SameVerdict ==
    ASSUME NEW b, NEW p \in Request, NEW q \in Request, p.run = q.run, Candidate(p) = Candidate(q)
    PROVE  Evaluate(b, p) = Evaluate(b, q)
<1>1. p.sym = q.sym /\ p.setup = q.setup
    BY DEF Candidate
<1>2. p.sound = q.sound
    BY <1>1, RequestAssumption
<1>3. QED BY <1>1, <1>2 DEF Evaluate

-----------------------------------------------------------------------------
\* A step of an order, and a close, go on: no state that was met before comes back.
LEMMA OrderGoesOn ==
    ASSUME NEW a \in PaperStates, NEW b \in PaperStates, NEW r \in Run,
           Before(a.order[r].status, b.order[r].status),
           \A t \in Run : t # r => b.order[t] = a.order[t]
    PROVE  GoesOn(a, b)
<1> SUFFICES ASSUME NEW old \in PaperStates, Earlier(old, a)
             PROVE  Earlier(old, b) /\ old # b
    BY DEF GoesOn
<1>1. Before(old.order[r].status, b.order[r].status)
    BY DEF Earlier, Before
<1>2. old.order[r] # b.order[r]
    BY <1>1 DEF Before
<1>3. \A t \in Run : old.order[t] = b.order[t] \/ Before(old.order[t].status, b.order[t].status)
    BY <1>1 DEF Earlier
<1>4. QED BY <1>2, <1>3 DEF Earlier

LEMMA CloseGoesOn ==
    ASSUME NEW a \in PaperStates, NEW b \in PaperStates, NEW s \in Symbol,
           a.open[s] # None, b.order = a.order, b.open = [a.open EXCEPT ![s] = None]
    PROVE  GoesOn(a, b)
<1> SUFFICES ASSUME NEW old \in PaperStates, Earlier(old, a)
             PROVE  Earlier(old, b) /\ old # b
    BY DEF GoesOn
<1>1. b.open[s] = None /\ \A x \in Symbol : x # s => b.open[x] = a.open[x]
    BY DEF PaperStates
<1>2. Earlier(old, b)
    BY <1>1 DEF Earlier
<1>3. old # b
    BY <1>1 DEF Earlier
<1>4. QED BY <1>2, <1>3

-----------------------------------------------------------------------------
\* What another caller's step leaves a call.
LEMMA KnowsOn ==
    ASSUME ReserveInv, NEW x \in Calls, Knows(x),
           state' = state \/ GoesOn(state, state'),
           \A r \in Run : claim[r] # None => claim'[r] = claim[r],
           x.pc = "save" /\ x.req.path = "conflict" /\ decided'[x.req.run] # <<>> => x.state # state'
    PROVE  Knows(x)'
<1>1. \A q \in Request : q.run \in Run /\ Candidate(q) # None
    BY RequestAssumption DEF Candidate
<1>2. \A q \in Request : claim[q.run] = Candidate(q) => claim'[q.run] = Candidate(q)
    BY <1>1
<1>3. \A b \in PaperStates : Earlier(b, state) => Earlier(b, state')
    BY DEF GoesOn
<1>4. x.pc # "idle" \/ x.answer # None => x.req \in Request
    BY DEF Knows
<1>5. x.pc \in Loaded => x.state \in PaperStates /\ Earlier(x.state, state')
    BY <1>3 DEF Knows
<1>6. x.pc \notin {"idle", "claim"} /\ x.req.path = "conflict" => claim'[x.req.run] = Candidate(x.req)
    BY <1>2, <1>4 DEF Knows
<1>7. x.answer \in {"RESERVED", "DUPLICATE_RUN"} /\ x.req.path = "conflict"
        => claim'[x.req.run] = Candidate(x.req)
  <2>1. x.answer \in {"RESERVED", "DUPLICATE_RUN"} => x.answer # None
    BY RequestAssumption
  <2>2. QED BY <2>1, <1>2, <1>4 DEF Knows
<1>8. QED BY <1>4, <1>5, <1>6, <1>7 DEF Knows

\* A step of one caller that leaves the paper state, the claims and the decisions alone.
LEMMA CallerMoves ==
    ASSUME ReserveInv, NEW c \in Caller, NEW x \in Calls, Knows(x),
           caller' = [caller EXCEPT ![c] = x], UNCHANGED <<state, claim, decided>>,
           staleRow' \subseteq Run
    PROVE  ReserveInv'
<1>1. ReserveTypes'
    BY DEF ReserveInv, ReserveTypes
<1>2. RiskWithinLimit' /\ Outcomes'
    BY DEF ReserveInv, RiskWithinLimit, Outcomes, Outcome
<1>3. \A d \in Caller : Knows(caller'[d])
    BY DEF ReserveInv, ReserveTypes
<1>4. \A y : Knows(y) => Knows(y)'
    BY DEF Knows
<1>5. \A d \in Caller : Knows(caller[d])'
    BY <1>3 DEF Knows
<1>6. QED BY <1>1, <1>2, <1>5 DEF ReserveInv

LEMMA ProceedIs ==
    ASSUME ReserveTypes, NEW c \in Caller, NEW pc \in {"claim", "load", "stale"} \cup Loaded, Proceed(c, pc)
    PROVE  \E x \in Calls : /\ caller' = [caller EXCEPT ![c] = x]
                            /\ x.pc = pc /\ x.req = caller[c].req /\ x.state = caller[c].state
                            /\ x.answer = caller[c].answer /\ x.attempt = caller[c].attempt
<1>1. PICK x : x = [caller[c] EXCEPT !.pc = pc]
    OBVIOUS
<1>2. caller[c] \in Calls
    BY DEF ReserveTypes
<1>3. x \in Calls /\ x.pc = pc /\ x.req = caller[c].req /\ x.state = caller[c].state
      /\ x.answer = caller[c].answer /\ x.attempt = caller[c].attempt
    BY <1>1, <1>2 DEF Calls
<1>4. caller' = [caller EXCEPT ![c] = x]
    BY <1>1 DEF Proceed, ReserveTypes
<1>5. QED BY <1>3, <1>4

LEMMA ReplyIs ==
    ASSUME ReserveTypes, NEW c \in Caller,
           NEW a \in {"NOT_SUBMITTED", "DUPLICATE_RUN", "REJECTED", "RESERVED", "STALE"}, Reply(c, a)
    PROVE  \E x \in Calls : /\ caller' = [caller EXCEPT ![c] = x]
                            /\ x.pc = "idle" /\ x.req = caller[c].req /\ x.answer = a
<1>1. PICK x : x = [Quiet EXCEPT !.req = caller[c].req, !.answer = a]
    OBVIOUS
<1>2. caller[c] \in Calls
    BY DEF ReserveTypes
<1>3. x = [pc |-> "idle", req |-> caller[c].req, attempt |-> 0, state |-> None, answer |-> a]
    BY <1>1 DEF Quiet
<1>4. x \in Calls /\ x.pc = "idle" /\ x.req = caller[c].req /\ x.answer = a
    BY <1>2, <1>3 DEF Calls
<1>5. caller' = [caller EXCEPT ![c] = x]
    BY <1>1 DEF Reply
<1>6. QED BY <1>4, <1>5

\* An answer that says the run has its order is given by the owner of the claim.
LEMMA ReplyKnows ==
    ASSUME ReserveInv, NEW c \in Caller, caller[c].pc # "idle",
           NEW a \in {"NOT_SUBMITTED", "DUPLICATE_RUN", "REJECTED", "RESERVED", "STALE"}, Reply(c, a),
           a \in {"DUPLICATE_RUN", "RESERVED"} => caller[c].pc # "claim",
           UNCHANGED <<state, claim, decided>>, staleRow' \subseteq Run
    PROVE  ReserveInv'
<1>1. ReserveTypes /\ Knows(caller[c])
    BY DEF ReserveInv
<1>2. PICK x \in Calls : /\ caller' = [caller EXCEPT ![c] = x]
                         /\ x.pc = "idle" /\ x.req = caller[c].req /\ x.answer = a
    BY <1>1, ReplyIs
<1>3. Knows(x)
    BY <1>1, <1>2 DEF Knows, Loaded
<1>4. QED BY <1>2, <1>3, CallerMoves

LEMMA ReconciledHolds ==
    ASSUME ReserveInv, NEW c \in Caller, caller[c].pc \notin {"idle", "claim"}, Reconciled(c),
           UNCHANGED <<state, claim, decided>>, staleRow' \subseteq Run
    PROVE  ReserveInv'
<1>1. Reply(c, "NOT_SUBMITTED") \/ Reply(c, "DUPLICATE_RUN")
    BY DEF Reconciled
<1>2. QED BY <1>1, ReplyKnows

LEMMA RedoHolds ==
    ASSUME ReserveInv, NEW c \in Caller, caller[c].pc \in {"save", "block", "reject"}, Redo(c),
           UNCHANGED <<state, claim, decided>>, staleRow' \subseteq Run
    PROVE  ReserveInv'
<1>1. ReserveTypes /\ Knows(caller[c]) /\ caller[c] \in Calls
    BY DEF ReserveInv, ReserveTypes
<1>2. CASE caller' = [caller EXCEPT ![c].attempt = 2, ![c].pc = "load", ![c].state = None]
  <2>1. PICK x : x = [caller[c] EXCEPT !.attempt = 2, !.pc = "load", !.state = None]
    OBVIOUS
  <2>2. x = [pc |-> "load", req |-> caller[c].req, attempt |-> 2, state |-> None,
             answer |-> caller[c].answer]
    BY <2>1, <1>1 DEF Calls
  <2>3. x \in Calls /\ x.pc = "load" /\ x.req = caller[c].req /\ x.answer = caller[c].answer
    BY <2>2, <1>1 DEF Calls
  <2>4. caller' = [caller EXCEPT ![c] = x]
    BY <2>1, <1>2
  <2>5. Knows(x)
    BY <2>3, <1>1 DEF Knows, Loaded
  <2>6. QED BY <2>3, <2>4, <2>5, CallerMoves
<1>3. CASE Reply(c, "STALE")
    BY <1>3, ReplyKnows
<1>4. CASE Proceed(c, "stale") /\ caller[c].req.path # "risk"
  <2>1. PICK x \in Calls : /\ caller' = [caller EXCEPT ![c] = x]
                           /\ x.pc = "stale" /\ x.req = caller[c].req /\ x.answer = caller[c].answer
    BY <1>1, <1>4, ProceedIs
  <2>2. caller[c].req \in Request /\ caller[c].req.path \in {"risk", "conflict"}
    BY <1>1, RequestAssumption DEF Knows
  <2>3. Knows(x)
    BY <2>1, <2>2, <1>1, <1>4 DEF Knows, Loaded
  <2>4. QED BY <2>1, <2>3, CallerMoves
<1>5. QED BY <1>2, <1>3, <1>4 DEF Redo

-----------------------------------------------------------------------------
\* The callers' own steps.
LEMMA SubmitHolds ==
    ASSUME ReserveInv, NEW c \in Caller, Submit(c)
    PROVE  ReserveInv'
<1>1. PICK q \in Request :
        caller' = [caller EXCEPT ![c] = [Quiet EXCEPT !.req = q, !.attempt = 1,
                                         !.pc = IF q.path = "conflict" THEN "claim" ELSE "load"]]
    BY DEF Submit
<1>2. UNCHANGED <<state, claim, decided, staleRow>>
    BY DEF Submit
<1>3. PICK x : x = [Quiet EXCEPT !.req = q, !.attempt = 1,
                                 !.pc = IF q.path = "conflict" THEN "claim" ELSE "load"]
    OBVIOUS
<1>4. x = [pc |-> IF q.path = "conflict" THEN "claim" ELSE "load", req |-> q, attempt |-> 1,
           state |-> None, answer |-> None]
    BY <1>3 DEF Quiet
<1>5. x \in Calls
    BY <1>4 DEF Calls
<1>6. Knows(x)
    BY <1>4, RequestAssumption DEF Knows, Loaded
<1>7. staleRow' \subseteq Run
    BY <1>2 DEF ReserveInv, ReserveTypes
<1>8. QED BY <1>1, <1>2, <1>3, <1>5, <1>6, <1>7, CallerMoves

\* A claim is written where there is none, and never again.
LEMMA ClaimRunHolds ==
    ASSUME ReserveInv, NEW c \in Caller, ClaimRun(c)
    PROVE  ReserveInv'
<1> DEFINE q == caller[c].req
           r == q.run
<1>1. /\ caller[c].pc = "claim" /\ UNCHANGED <<state, decided, staleRow>>
      /\ ReserveTypes /\ Knows(caller[c]) /\ q \in Request /\ q.path = "conflict"
    BY DEF ClaimRun, ReserveInv, Knows
<1>2. r \in Run /\ staleRow' \subseteq Run
    BY <1>1, RequestAssumption DEF ReserveTypes
<1>3. \/ claim[r] = Candidate(q) /\ Proceed(c, "load") /\ claim' = claim
      \/ Reply(c, "NOT_SUBMITTED") /\ claim' = claim
      \/ /\ claim[r] = None /\ ~HasOutcome(r) /\ Proceed(c, "load")
         /\ claim' = [claim EXCEPT ![r] = Candidate(q)]
    BY DEF ClaimRun
<1>4. CASE Reply(c, "NOT_SUBMITTED") /\ claim' = claim
    BY <1>1, <1>2, <1>4, ReplyKnows
<1>5. CASE Proceed(c, "load") /\ claim' = claim /\ claim[r] = Candidate(q)
  <2>1. PICK x \in Calls : /\ caller' = [caller EXCEPT ![c] = x]
                           /\ x.pc = "load" /\ x.req = q /\ x.answer = caller[c].answer
    BY <1>1, <1>5, ProceedIs
  <2>2. Knows(x)
    BY <2>1, <1>1, <1>5 DEF Knows, Loaded
  <2>3. QED BY <2>1, <2>2, <1>1, <1>2, <1>5, CallerMoves
<1>6. CASE /\ claim[r] = None /\ ~HasOutcome(r) /\ Proceed(c, "load")
           /\ claim' = [claim EXCEPT ![r] = Candidate(q)]
  <2>1. PICK x \in Calls : /\ caller' = [caller EXCEPT ![c] = x]
                           /\ x.pc = "load" /\ x.req = q /\ x.answer = caller[c].answer
    BY <1>1, <1>6, ProceedIs
  <2>2. /\ claim'[r] = Candidate(q) /\ claim' \in [Run -> Candidates \cup {None}]
        /\ \A s \in Run : s # r => claim'[s] = claim[s]
    BY <1>1, <1>2, <1>6 DEF ReserveTypes, Candidates
  <2>3. ReserveTypes'
    BY <2>1, <2>2, <1>1 DEF ReserveTypes
  <2>4. \A y \in Calls : Knows(y) => Knows(y)'
    BY <2>2, <1>1, <1>6, KnowsOn DEF Knows
  <2>5. Knows(x)'
    BY <2>1, <2>2, <1>1 DEF Knows, Loaded
  <2>6. \A d \in Caller : Knows(caller[d])'
    <3>1. \A d \in Caller : caller'[d] = x \/ (caller'[d] = caller[d] /\ caller[d] \in Calls)
        BY <2>1, <1>1 DEF ReserveTypes
    <3>2. \A d \in Caller : Knows(caller[d])
        BY DEF ReserveInv
    <3>3. QED BY <3>1, <3>2, <2>4, <2>5 DEF Knows
  <2>7. Outcomes'
    <3> SUFFICES ASSUME NEW p \in Request, p.path = "conflict"
                 PROVE  Outcome(p.run)'
        BY DEF Outcomes
    <3>1. Outcome(p.run) /\ p.run \in Run
        BY RequestAssumption DEF ReserveInv, Outcomes
    <3>2. CASE p.run = r
        BY <3>2, <1>1, <1>6 DEF Outcome, HasOutcome
    <3>3. CASE p.run # r
        BY <3>1, <3>3, <2>2, <1>1 DEF Outcome
    <3>4. QED BY <3>2, <3>3
  <2>8. RiskWithinLimit'
    BY <1>1 DEF ReserveInv, RiskWithinLimit
  <2>9. QED BY <2>3, <2>6, <2>7, <2>8 DEF ReserveInv
<1>7. QED BY <1>3, <1>4, <1>5, <1>6

LEMMA LoadStateHolds ==
    ASSUME ReserveInv, NEW c \in Caller, LoadState(c)
    PROVE  ReserveInv'
<1>1. /\ caller[c].pc = "load" /\ UNCHANGED <<state, claim, decided, staleRow>>
      /\ caller' = [caller EXCEPT ![c].state = state, ![c].pc = "evaluate"]
      /\ ReserveTypes /\ Knows(caller[c]) /\ caller[c] \in Calls
    BY DEF LoadState, ReserveInv, ReserveTypes
<1>2. PICK x : x = [caller[c] EXCEPT !.state = state, !.pc = "evaluate"]
    OBVIOUS
<1>3. x = [pc |-> "evaluate", req |-> caller[c].req, attempt |-> caller[c].attempt, state |-> state,
           answer |-> caller[c].answer]
    BY <1>1, <1>2 DEF Calls
<1>4. x \in Calls
    BY <1>1, <1>3 DEF Calls, Loaded, ReserveTypes
<1>5. Earlier(state, state)
    BY DEF Earlier
<1>6. Knows(x)
    BY <1>1, <1>3, <1>5 DEF Knows, Loaded, ReserveTypes
<1>7. caller' = [caller EXCEPT ![c] = x] /\ staleRow' \subseteq Run
    BY <1>1, <1>2 DEF ReserveTypes
<1>8. QED BY <1>1, <1>4, <1>6, <1>7, CallerMoves

LEMMA EvaluateHolds ==
    ASSUME ReserveInv, NEW c \in Caller, EvaluateCandidate(c)
    PROVE  ReserveInv'
<1> DEFINE q == caller[c].req
           b == caller[c].state
<1>1. /\ caller[c].pc = "evaluate" /\ UNCHANGED <<state, claim, decided, staleRow>>
      /\ ReserveTypes /\ Knows(caller[c]) /\ staleRow' \subseteq Run
    BY DEF EvaluateCandidate, ReserveInv, ReserveTypes
<1>2. \/ Reply(c, "DUPLICATE_RUN") \/ Reply(c, "REJECTED") \/ Reconciled(c)
      \/ \E pc \in {"block", "reject"} :
            Proceed(c, pc) /\ q.path # "risk" /\ Evaluate(b, q) # "APPROVED"
      \/ /\ Proceed(c, "save") /\ b.order[q.run].status = "NONE" /\ Evaluate(b, q) = "APPROVED"
         /\ q.path # "risk" => decided[q.run] = <<>>
  <2>1. CASE q.path = "risk"
    BY <2>1 DEF EvaluateCandidate
  <2>2. CASE q.path # "risk"
    BY <2>2, ApprovedFits DEF EvaluateCandidate
  <2>3. QED BY <2>1, <2>2
<1>3. CASE Reply(c, "DUPLICATE_RUN") \/ Reply(c, "REJECTED")
    BY <1>1, <1>3, ReplyKnows
<1>4. CASE Reconciled(c)
    BY <1>1, <1>4, ReconciledHolds
<1>5. q \in Request /\ q.path \in {"risk", "conflict"}
    BY <1>1, RequestAssumption DEF Knows
<1>6. ASSUME NEW pc \in {"block", "reject"}, Proceed(c, pc), q.path # "risk", Evaluate(b, q) # "APPROVED"
      PROVE  ReserveInv'
  <2>1. PICK x \in Calls : /\ caller' = [caller EXCEPT ![c] = x]
                           /\ x.pc = pc /\ x.req = q /\ x.state = b /\ x.answer = caller[c].answer
    BY <1>1, <1>6, ProceedIs DEF Loaded
  <2>2. Knows(x)
    BY <2>1, <1>1, <1>5, <1>6 DEF Knows, Loaded
  <2>3. QED BY <2>1, <2>2, <1>1, CallerMoves
<1>7. CASE /\ Proceed(c, "save") /\ b.order[q.run].status = "NONE" /\ Evaluate(b, q) = "APPROVED"
           /\ q.path # "risk" => decided[q.run] = <<>>
  <2>1. PICK x \in Calls : /\ caller' = [caller EXCEPT ![c] = x]
                           /\ x.pc = "save" /\ x.req = q /\ x.state = b /\ x.answer = caller[c].answer
    BY <1>1, <1>7, ProceedIs DEF Loaded
  <2>2. Knows(x)
    BY <2>1, <1>1, <1>5, <1>7 DEF Knows, Loaded
  <2>3. QED BY <2>1, <2>2, <1>1, CallerMoves
<1>8. QED BY <1>2, <1>3, <1>4, <1>6, <1>7

LEMMA AfterDoubleStaleHolds ==
    ASSUME ReserveInv, NEW c \in Caller, AfterDoubleStale(c)
    PROVE  ReserveInv'
<1>1. /\ caller[c].pc = "stale" /\ UNCHANGED <<state, claim, decided>> /\ Knows(caller[c])
      /\ ReserveTypes
    BY DEF AfterDoubleStale, ReserveInv
<1>2. caller[c].req.run \in Run
    BY <1>1, RequestAssumption DEF Knows
<1>3. staleRow' \subseteq Run
    BY <1>1, <1>2 DEF AfterDoubleStale, ReserveTypes
<1>4. QED BY <1>1, <1>3, ReconciledHolds, ReplyKnows DEF AfterDoubleStale

LEMMA CallerDiesHolds ==
    ASSUME ReserveInv, NEW c \in Caller, CallerDies(c)
    PROVE  ReserveInv'
<1>1. Quiet \in Calls
    BY DEF Quiet, Calls
<1>2. Knows(Quiet)
    BY RequestAssumption DEF Quiet, Knows, Loaded
<1>3. QED BY <1>1, <1>2, CallerMoves DEF CallerDies, ReserveInv, ReserveTypes

-----------------------------------------------------------------------------
\* The callers when one of them writes: x is the writer's new call.
LEMMA CallersAfterWrite ==
    ASSUME ReserveInv, NEW c \in Caller, NEW x \in Calls, Knows(x)', caller' = [caller EXCEPT ![c] = x],
           claim' = claim, state' = state \/ GoesOn(state, state'),
           \A y \in Calls : Knows(y) /\ y.pc = "save" /\ y.req.path = "conflict" /\ decided'[y.req.run] # <<>>
                            => y.state # state'
    PROVE  \A d \in Caller : Knows(caller[d])'
<1>1. \A y \in Calls : Knows(y) => Knows(y)'
    BY KnowsOn
<1>2. \A d \in Caller : caller'[d] = x \/ (caller'[d] = caller[d] /\ caller[d] \in Calls /\ Knows(caller[d]))
    BY DEF ReserveInv, ReserveTypes
<1>3. QED BY <1>1, <1>2 DEF Knows

\* The first decision of a run, in a state that stays or goes on from the one loaded.
LEMMA DecisionRow ==
    ASSUME ReserveTypes, NEW r \in Run, decided[r] = <<>>, NEW d \in Decision,
           decided' = [decided EXCEPT ![r] = Append(@, d)]
    PROVE  /\ decided' \in [Run -> {<<>>} \cup {<<e>> : e \in Decision}]
           /\ decided'[r] = <<d>> /\ decided'[r] # <<>> /\ decided'[r][1] = d
           /\ \A s \in Run : s # r => decided'[s] = decided[s]
<1>1. Append(<<>>, d) = <<d>> /\ <<d>> # <<>> /\ <<d>>[1] = d
    OBVIOUS
<1>2. decided' = [decided EXCEPT ![r] = <<d>>]
    BY <1>1 DEF ReserveTypes
<1>3. QED BY <1>1, <1>2 DEF ReserveTypes

LEMMA CommitDecisionHolds ==
    ASSUME ReserveInv, NEW c \in Caller, CommitDecision(c)
    PROVE  ReserveInv'
<1> DEFINE q == caller[c].req
           r == q.run
<1>1. /\ caller[c].pc \in {"block", "reject"} /\ UNCHANGED <<state, claim, staleRow>>
      /\ ReserveTypes /\ Knows(caller[c]) /\ q \in Request /\ q.path = "conflict"
      /\ Evaluate(caller[c].state, q) # "APPROVED" /\ r \in Run
    BY RequestAssumption DEF CommitDecision, ReserveInv, Knows
<1>2. staleRow' \subseteq Run
    BY <1>1 DEF ReserveTypes
<1>3. PICK d : d = [decision |-> IF caller[c].pc = "block" THEN "BLOCKED" ELSE "RISK_REJECTED",
                    cand |-> Candidate(q)]
    OBVIOUS
<1>4. \/ Reconciled(c) /\ decided' = decided
      \/ Redo(c) /\ decided' = decided
      \/ /\ claim[r] = Candidate(q) /\ ~HasOutcome(r) /\ state = caller[c].state
         /\ decided' = [decided EXCEPT ![r] = Append(@, d)] /\ Reply(c, "REJECTED")
    BY <1>3 DEF CommitDecision
<1>5. CASE Reconciled(c) /\ decided' = decided
    BY <1>1, <1>2, <1>5, ReconciledHolds
<1>6. CASE Redo(c) /\ decided' = decided
    BY <1>1, <1>2, <1>6, RedoHolds
<1>7. CASE /\ claim[r] = Candidate(q) /\ ~HasOutcome(r) /\ state = caller[c].state
           /\ decided' = [decided EXCEPT ![r] = Append(@, d)] /\ Reply(c, "REJECTED")
  <2>1. d \in Decision /\ d.cand = Candidate(q) /\ d.decision # "RESERVED"
    BY <1>1, <1>3 DEF Decision, Candidates
  <2>2. decided[r] = <<>> /\ state.order[r].status = "NONE"
    BY <1>7 DEF HasOutcome
  <2>3. /\ decided' \in [Run -> {<<>>} \cup {<<e>> : e \in Decision}]
        /\ decided'[r] # <<>> /\ decided'[r][1] = d
        /\ \A s \in Run : s # r => decided'[s] = decided[s]
    BY <2>1, <2>2, <1>1, <1>7, DecisionRow
  <2>4. PICK x \in Calls : /\ caller' = [caller EXCEPT ![c] = x]
                           /\ x.pc = "idle" /\ x.req = q /\ x.answer = "REJECTED"
    BY <1>1, <1>7, ReplyIs
  <2>5. ReserveTypes'
    BY <2>3, <2>4, <1>1 DEF ReserveTypes
  <2>6. Knows(x)'
    BY <2>4, <1>1 DEF Knows, Loaded
  <2>7. ASSUME NEW y \in Calls, Knows(y), y.pc = "save", y.req.path = "conflict", decided'[y.req.run] # <<>>
        PROVE  y.state # state'
    <3>1. /\ y.req \in Request /\ claim[y.req.run] = Candidate(y.req) /\ y.req.run \in Run
          /\ Evaluate(y.state, y.req) = "APPROVED"
          /\ decided[y.req.run] # <<>> => y.state # state
        BY <2>7, RequestAssumption DEF Knows
    <3>2. CASE y.req.run = r
        BY <3>1, <3>2, <1>1, <1>7, SameVerdict
    <3>3. CASE y.req.run # r
        BY <3>1, <3>3, <2>3, <2>7, <1>1
    <3>4. QED BY <3>2, <3>3
  <2>8. \A e \in Caller : Knows(caller[e])'
    BY <2>4, <2>6, <2>7, <1>1, CallersAfterWrite
  <2>9. Outcomes'
    <3> SUFFICES ASSUME NEW p \in Request, p.path = "conflict"
                 PROVE  Outcome(p.run)'
        BY DEF Outcomes
    <3>1. Outcome(p.run) /\ p.run \in Run
        BY RequestAssumption DEF ReserveInv, Outcomes
    <3>2. CASE p.run = r
        BY <3>2, <2>1, <2>2, <2>3, <1>1, <1>7 DEF Outcome
    <3>3. CASE p.run # r
        BY <3>1, <3>3, <2>3, <1>1 DEF Outcome
    <3>4. QED BY <3>2, <3>3
  <2>10. RiskWithinLimit'
    BY <1>1 DEF ReserveInv, RiskWithinLimit
  <2>11. QED BY <2>5, <2>8, <2>9, <2>10 DEF ReserveInv
<1>8. QED BY <1>4, <1>5, <1>6, <1>7

\* The order is saved in the state its verdict is about.
LEMMA SaveOrderHolds ==
    ASSUME ReserveInv, NEW c \in Caller, SaveOrder(c)
    PROVE  ReserveInv'
<1> DEFINE q == caller[c].req
           r == q.run
<1>1. /\ caller[c].pc = "save" /\ UNCHANGED <<claim, staleRow>>
      /\ ReserveTypes /\ Knows(caller[c]) /\ q \in Request
      /\ r \in Run /\ q.sym \in Symbol /\ q.path \in {"risk", "conflict"}
      /\ q.path = "conflict" => claim[r] = Candidate(q)
    BY RequestAssumption DEF SaveOrder, ReserveInv, Knows
<1>2. staleRow' \subseteq Run
    BY <1>1 DEF ReserveTypes
<1>3. PICK d : d = [decision |-> "RESERVED", cand |-> Candidate(q)]
    OBVIOUS
<1>4. \/ Redo(c) /\ UNCHANGED <<state, decided>>
      \/ /\ state = caller[c].state /\ state' = [state EXCEPT !.order[r] = Reserved(q)]
         /\ decided' = IF q.path = "risk" THEN decided ELSE [decided EXCEPT ![r] = Append(@, d)]
         /\ Reply(c, "RESERVED")
    BY <1>3 DEF SaveOrder
<1>5. CASE Redo(c) /\ UNCHANGED <<state, decided>>
    BY <1>1, <1>2, <1>5, RedoHolds
<1>6. CASE /\ state = caller[c].state /\ state' = [state EXCEPT !.order[r] = Reserved(q)]
           /\ decided' = IF q.path = "risk" THEN decided ELSE [decided EXCEPT ![r] = Append(@, d)]
           /\ Reply(c, "RESERVED")
  <2>1. d \in Decision /\ d.cand = Candidate(q) /\ d.decision = "RESERVED"
    BY <1>1, <1>3 DEF Decision, Candidates
  <2>2. /\ state.order[r].status = "NONE" /\ Evaluate(state, q) = "APPROVED"
        /\ q.path = "conflict" => decided[r] = <<>>
    BY <1>1, <1>6 DEF Knows
  <2>3. PICK o : o = Reserved(q)
    OBVIOUS
  <2>4. o \in Orders /\ o.status = "PENDING" /\ o.sym = q.sym /\ o.setup = q.setup
    BY <2>3, <1>1 DEF Reserved, Orders, Setups
  <2>5. /\ state' \in PaperStates /\ state'.order[r] = o /\ state'.open = state.open
        /\ \A t \in Run : t # r => state'.order[t] = state.order[t]
    BY <2>3, <2>4, <1>1, <1>6 DEF ReserveTypes, PaperStates
  <2>6. GoesOn(state, state')
    BY <2>2, <2>4, <2>5, <1>1, OrderGoesOn DEF ReserveTypes, Before
  <2>7. /\ decided' \in [Run -> {<<>>} \cup {<<e>> : e \in Decision}]
        /\ q.path = "conflict" => decided'[r] # <<>> /\ decided'[r][1] = d
        /\ q.path = "risk" => decided' = decided
        /\ \A s \in Run : s # r => decided'[s] = decided[s]
    <3>1. CASE q.path = "risk"
        BY <3>1, <1>1, <1>6 DEF ReserveTypes
    <3>2. CASE q.path = "conflict"
      <4>1. decided' = [decided EXCEPT ![r] = Append(@, d)] /\ decided[r] = <<>>
        BY <3>2, <2>2, <1>6
      <4>2. QED BY <4>1, <3>2, <2>1, <1>1, DecisionRow
    <3>3. QED BY <3>1, <3>2, <1>1
  <2>8. PICK x \in Calls : /\ caller' = [caller EXCEPT ![c] = x]
                           /\ x.pc = "idle" /\ x.req = q /\ x.answer = "RESERVED"
    BY <1>1, <1>6, ReplyIs
  <2>9. ReserveTypes'
    BY <2>4, <2>5, <2>7, <2>8, <1>1 DEF ReserveTypes
  <2>10. Knows(x)'
    BY <2>8, <1>1 DEF Knows, Loaded
  <2>11. \A y \in Calls : Knows(y) /\ y.pc = "save" => y.state # state'
    BY <2>6 DEF Knows, Loaded, GoesOn
  <2>12. \A e \in Caller : Knows(caller[e])'
    BY <2>6, <2>8, <2>10, <2>11, <1>1, CallersAfterWrite
  <2>13. Outcomes'
    <3> SUFFICES ASSUME NEW p \in Request, p.path = "conflict"
                 PROVE  Outcome(p.run)'
        BY DEF Outcomes
    <3>1. Outcome(p.run) /\ p.run \in Run /\ (p.run = r => q.path = "conflict")
        BY <1>1, RequestAssumption DEF ReserveInv, Outcomes
    <3>2. CASE p.run = r
        BY <3>1, <3>2, <2>1, <2>4, <2>5, <2>7, <1>1 DEF Outcome, Candidate
    <3>3. CASE p.run # r
        BY <3>1, <3>3, <2>5, <2>7, <1>1 DEF Outcome
    <3>4. QED BY <3>2, <3>3
  <2>14. RiskWithinLimit'
    <3>1. /\ OpenRisk(state') = OpenRisk(state)
          /\ Cardinality(PendingRuns(state')) = Cardinality(PendingRuns(state)) + 1
        BY <2>2, <2>4, <2>5, <1>1, ReservationAdds DEF ReserveTypes
    <3>2. /\ ~SymbolExposed(state, q.sym)
          /\ ~(OpenRisk(state) + Reserve * Cardinality(PendingRuns(state)) + Reserve > Limit)
        BY <2>2, ApprovedFits
    <3>3. OpenRisk(state) \in Nat /\ Cardinality(PendingRuns(state)) \in Nat /\ Reserve \in Nat /\ Limit \in Nat
        BY <1>1, RisksAreNumbers, RiskAssumption DEF ReserveTypes
    <3>4. OpenRisk(state') + Reserve * Cardinality(PendingRuns(state')) <= Limit
        BY <3>1, <3>2, <3>3
    <3>5. \A t \in PendingRuns(state') : t = r \/ (t # r /\ t \in PendingRuns(state) /\ state'.order[t] = state.order[t])
        BY <2>5 DEF PendingRuns
    <3>6. ASSUME NEW t \in PendingRuns(state')
          PROVE  /\ state'.open[state'.order[t].sym] = None
                 /\ \A u \in PendingRuns(state') :
                        state'.order[u].sym = state'.order[t].sym => u = t
        BY <3>2, <3>5, <2>4, <2>5 DEF ReserveInv, RiskWithinLimit, SymbolExposed
    <3>7. QED BY <3>4, <3>6 DEF RiskWithinLimit
  <2>15. QED BY <2>9, <2>12, <2>13, <2>14 DEF ReserveInv
<1>7. QED BY <1>4, <1>5, <1>6

-----------------------------------------------------------------------------
\* The rest of the runtime: it moves orders that exist and closes positions.
LEMMA RuntimeMoves ==
    ASSUME ReserveInv, UNCHANGED <<claim, decided, staleRow, caller>>, GoesOn(state, state'),
           state' \in PaperStates, RiskWithinLimit',
           \A r \in Run : /\ (state'.order[r].status # "NONE") = (state.order[r].status # "NONE")
                          /\ state'.order[r].sym = state.order[r].sym
                          /\ state'.order[r].setup = state.order[r].setup
    PROVE  ReserveInv'
<1>1. ReserveTypes'
    BY DEF ReserveInv, ReserveTypes
<1>2. ASSUME NEW x \in Calls, Knows(x)
      PROVE  Knows(x)'
  <2>1. x.pc = "save" => x.state # state'
    BY <1>2 DEF Knows, Loaded, GoesOn
  <2>2. QED BY <1>2, <2>1, KnowsOn
<1>3. \A d \in Caller : Knows(caller[d])'
  <2>1. \A d \in Caller : caller'[d] = caller[d] /\ caller[d] \in Calls /\ Knows(caller[d])
    BY DEF ReserveInv, ReserveTypes
  <2>2. QED BY <2>1, <1>2 DEF Knows
<1>4. Outcomes'
  <2> SUFFICES ASSUME NEW p \in Request, p.path = "conflict"
               PROVE  Outcome(p.run)'
      BY DEF Outcomes
  <2>1. Outcome(p.run) /\ p.run \in Run
    BY RequestAssumption DEF ReserveInv, Outcomes
  <2>2. QED BY <2>1 DEF Outcome
<1>5. QED BY <1>1, <1>3, <1>4 DEF ReserveInv

\* An order leaves PENDING, and what is open grows by no more than it had reserved.
LEMMA PendingEnds ==
    ASSUME ReserveInv, NEW r \in Run, state.order[r].status = "PENDING", state' \in PaperStates,
           NEW o \in Orders, o.status # "PENDING", state'.order = [state.order EXCEPT ![r] = o],
           OpenRisk(state') <= OpenRisk(state) + Reserve,
           \A s \in Symbol : s # state.order[r].sym => state'.open[s] = state.open[s]
    PROVE  RiskWithinLimit'
<1>1. state \in PaperStates /\ \A t \in Run : t # r => state'.order[t] = state.order[t]
    BY DEF ReserveInv, ReserveTypes, PaperStates
<1>2. state'.order[r] = o
    BY <1>1 DEF PaperStates
<1>3. /\ PendingRuns(state') = PendingRuns(state) \ {r}
      /\ Cardinality(PendingRuns(state)) = Cardinality(PendingRuns(state')) + 1
  <2>1. PICK a, b : a = state /\ b = state'
    OBVIOUS
  <2>2. /\ a \in PaperStates /\ b \in PaperStates /\ a.order[r].status = "PENDING"
        /\ b.order[r].status # "PENDING" /\ \A t \in Run : t # r => b.order[t] = a.order[t]
    BY <2>1, <1>1, <1>2
  <2>3. /\ PendingRuns(b) = PendingRuns(a) \ {r}
        /\ Cardinality(PendingRuns(a)) = Cardinality(PendingRuns(b)) + 1
    BY <2>2, CancelReleases
  <2>4. QED BY <2>1, <2>3
<1>4. OpenRisk(state) \in Nat /\ Cardinality(PendingRuns(state')) \in Nat /\ Reserve \in Nat /\ Limit \in Nat
      /\ OpenRisk(state') \in Nat
    BY <1>1, RisksAreNumbers, RiskAssumption
<1>5. OpenRisk(state) + Reserve * (Cardinality(PendingRuns(state')) + 1) <= Limit
    BY <1>3 DEF ReserveInv, RiskWithinLimit
<1>6. OpenRisk(state') + Reserve * Cardinality(PendingRuns(state')) <= Limit
    BY <1>4, <1>5
<1>7. ASSUME NEW t \in PendingRuns(state')
      PROVE  /\ state'.open[state'.order[t].sym] = None
             /\ \A u \in PendingRuns(state') : state'.order[u].sym = state'.order[t].sym => u = t
  <2>1. /\ t \in PendingRuns(state) /\ t # r /\ r \in PendingRuns(state) /\ t \in Run
        /\ state'.order[t] = state.order[t]
    BY <1>1, <1>3 DEF PendingRuns
  <2>2. state.order[t].sym # state.order[r].sym /\ state.open[state.order[t].sym] = None
    BY <2>1 DEF ReserveInv, RiskWithinLimit
  <2>3. state.order[t].sym \in Symbol
    BY <2>1 DEF ReserveInv, ReserveTypes, PendingRuns
  <2>4. \A u \in PendingRuns(state') : u \in PendingRuns(state) /\ state'.order[u] = state.order[u]
    BY <1>1, <1>3 DEF PendingRuns
  <2>5. QED BY <2>1, <2>2, <2>3, <2>4 DEF ReserveInv, RiskWithinLimit
<1>8. QED BY <1>6, <1>7 DEF RiskWithinLimit

LEMMA FillHolds ==
    ASSUME ReserveInv, NEW r \in Run, Fill(r)
    PROVE  ReserveInv'
<1> DEFINE s == state.order[r].sym
<1>1. /\ state.order[r].status = "PENDING" /\ state \in PaperStates /\ s \in Symbol
      /\ UNCHANGED <<claim, decided, staleRow, caller>>
    BY DEF Fill, ReserveInv, ReserveTypes
<1>2. PICK risk \in FillRisk : state' = [state EXCEPT !.order[r].status = "FILLED", !.open[s] = risk]
    BY DEF Fill
<1>3. PICK o : o = [state.order[r] EXCEPT !.status = "FILLED"]
    OBVIOUS
<1>4. o \in Orders /\ o.status = "FILLED" /\ o.sym = s /\ o.setup = state.order[r].setup
    BY <1>1, <1>3 DEF PaperStates, Orders
<1>5. /\ state'.order = [state.order EXCEPT ![r] = o] /\ state'.open = [state.open EXCEPT ![s] = risk]
      /\ state' = [order |-> state'.order, open |-> state'.open]
    BY <1>1, <1>2, <1>3 DEF PaperStates
<1>6. /\ state' \in PaperStates /\ state'.order[r] = o
      /\ \A t \in Run : t # r => state'.order[t] = state.order[t]
      /\ \A x \in Symbol : x # s => state'.open[x] = state.open[x]
    BY <1>1, <1>4, <1>5 DEF PaperStates
<1>7. GoesOn(state, state')
    BY <1>1, <1>4, <1>6, OrderGoesOn DEF Before
<1>8. state.open[s] = None
    BY <1>1 DEF ReserveInv, RiskWithinLimit, PendingRuns
<1>9. OpenRisk(state') <= OpenRisk(state) + Reserve
    BY <1>1, <1>5, <1>6, <1>8, FillOpens
<1>10. RiskWithinLimit'
    BY <1>1, <1>4, <1>5, <1>6, <1>9, PendingEnds
<1>11. QED BY <1>1, <1>4, <1>6, <1>7, <1>10, RuntimeMoves

LEMMA CancelHolds ==
    ASSUME ReserveInv, NEW r \in Run, Cancel(r)
    PROVE  ReserveInv'
<1>1. /\ state.order[r].status = "PENDING" /\ state \in PaperStates
      /\ UNCHANGED <<claim, decided, staleRow, caller>>
      /\ state' = [state EXCEPT !.order[r].status = "CANCELLED"]
    BY DEF Cancel, ReserveInv, ReserveTypes
<1>2. PICK o : o = [state.order[r] EXCEPT !.status = "CANCELLED"]
    OBVIOUS
<1>3. o \in Orders /\ o.status = "CANCELLED" /\ o.sym = state.order[r].sym /\ o.setup = state.order[r].setup
    BY <1>1, <1>2 DEF PaperStates, Orders
<1>4. /\ state'.order = [state.order EXCEPT ![r] = o] /\ state'.open = state.open
      /\ state' = [order |-> state'.order, open |-> state'.open]
    BY <1>1, <1>2 DEF PaperStates
<1>5. /\ state' \in PaperStates /\ state'.order[r] = o
      /\ \A t \in Run : t # r => state'.order[t] = state.order[t]
    BY <1>1, <1>3, <1>4 DEF PaperStates
<1>6. GoesOn(state, state')
    BY <1>1, <1>3, <1>5, OrderGoesOn DEF Before
<1>7. OpenRisk(state') <= OpenRisk(state) + Reserve
  <2>1. OpenRisk(state') <= OpenRisk(state)
    BY <1>1, <1>4, <1>5, CloseReleases
  <2>2. QED BY <2>1, <1>1, <1>5, RisksAreNumbers, RiskAssumption
<1>8. RiskWithinLimit'
    BY <1>1, <1>3, <1>4, <1>5, <1>7, PendingEnds
<1>9. QED BY <1>1, <1>3, <1>5, <1>6, <1>8, RuntimeMoves

LEMMA ClosePositionHolds ==
    ASSUME ReserveInv, NEW s \in Symbol, ClosePosition(s)
    PROVE  ReserveInv'
<1>1. /\ state.open[s] # None /\ state \in PaperStates
      /\ UNCHANGED <<claim, decided, staleRow, caller>>
      /\ state' = [state EXCEPT !.open[s] = None]
    BY DEF ClosePosition, ReserveInv, ReserveTypes
<1>2. /\ state' \in PaperStates /\ state'.order = state.order
      /\ state'.open = [state.open EXCEPT ![s] = None]
      /\ \A x \in Symbol : state'.open[x] \in {state.open[x], None}
    BY <1>1 DEF PaperStates
<1>3. GoesOn(state, state')
    BY <1>1, <1>2, CloseGoesOn
<1>4. OpenRisk(state') <= OpenRisk(state) /\ OpenRisk(state') \in Nat /\ OpenRisk(state) \in Nat
    BY <1>1, <1>2, CloseReleases, RisksAreNumbers
<1>5. PendingRuns(state') = PendingRuns(state) /\ Cardinality(PendingRuns(state)) \in Nat
    BY <1>1, <1>2, RisksAreNumbers DEF PendingRuns
<1>6. OpenRisk(state') + Reserve * Cardinality(PendingRuns(state')) <= Limit
    BY <1>4, <1>5, RiskAssumption DEF ReserveInv, RiskWithinLimit
<1>7. \A r \in PendingRuns(state) : state.order[r].sym \in Symbol
    BY DEF PendingRuns, ReserveInv, ReserveTypes
<1>8. RiskWithinLimit'
    BY <1>2, <1>5, <1>6, <1>7 DEF ReserveInv, RiskWithinLimit
<1>9. QED BY <1>1, <1>2, <1>3, <1>8, RuntimeMoves

-----------------------------------------------------------------------------
LEMMA ReserveStarts ==
    ASSUME ReserveInit
    PROVE  ReserveInv
<1>1. PICK s \in Symbol, there \in BOOLEAN :
        state = [order |-> [r \in Run |-> IF r = Legacy /\ there
                                          THEN [status |-> "PENDING", sym |-> s, setup |-> None, known |-> FALSE]
                                          ELSE NoOrder],
                 open |-> [x \in Symbol |-> None]]
    BY DEF ReserveInit
<1>2. state \in PaperStates /\ \A r \in Run : state.order[r].status # "NONE" => state.order[r].sym \in Symbol
    BY <1>1 DEF PaperStates, Orders, NoOrder
<1>3. Quiet \in Calls /\ Knows(Quiet)
    BY RequestAssumption DEF Quiet, Calls, Knows, Loaded
<1>4. ReserveTypes
    BY <1>2, <1>3 DEF ReserveInit, ReserveTypes
<1>5. \A c \in Caller : Knows(caller[c])
    BY <1>3 DEF ReserveInit
<1>6. Outcomes
    BY <1>1, RequestAssumption DEF ReserveInit, Outcomes, Outcome, NoOrder
<1>7. RiskWithinLimit
  <2>1. PendingRuns(state) \subseteq {Legacy}
    BY <1>1 DEF PendingRuns, NoOrder
  <2>2. OpenUnits(state) = {}
    BY <1>1 DEF OpenUnits, OpenSymbols
  <2>3. OpenRisk(state) = 0
    BY <2>2, FS_EmptySet DEF OpenRisk
  <2>4. Cardinality(PendingRuns(state)) \in {0, 1}
    <3>1. IsFiniteSet({Legacy}) /\ Cardinality({Legacy}) = 1
        BY FS_Singleton
    <3>2. Cardinality(PendingRuns(state)) <= 1
        BY <3>1, <2>1, FS_Subset
    <3>3. Cardinality(PendingRuns(state)) \in Nat
        BY <1>2, RisksAreNumbers
    <3>4. QED BY <3>2, <3>3
  <2>5. OpenRisk(state) + Reserve * Cardinality(PendingRuns(state)) <= Limit
    BY <2>3, <2>4, RiskAssumption
  <2>6. \A r \in PendingRuns(state) : state.open[state.order[r].sym] = None
    BY <1>1, <1>2 DEF PendingRuns
  <2>7. QED BY <2>1, <2>5, <2>6 DEF RiskWithinLimit
<1>8. QED BY <1>4, <1>5, <1>6, <1>7 DEF ReserveInv

LEMMA ReserveGoesOn ==
    ASSUME ReserveInv, [ReserveNext]_reserveVars
    PROVE  ReserveInv'
<1>1. CASE UNCHANGED reserveVars
  <2>1. ReserveTypes' /\ RiskWithinLimit' /\ Outcomes'
    BY <1>1 DEF ReserveInv, reserveVars, ReserveTypes, RiskWithinLimit, Outcomes, Outcome
  <2>2. \A c \in Caller : Knows(caller[c])'
    BY <1>1 DEF ReserveInv, reserveVars, Knows
  <2>3. QED BY <2>1, <2>2 DEF ReserveInv
<1>2. ASSUME NEW r \in Run, Fill(r) \/ Cancel(r)
      PROVE  ReserveInv'
    BY <1>2, FillHolds, CancelHolds
<1>3. ASSUME NEW s \in Symbol, ClosePosition(s)
      PROVE  ReserveInv'
    BY <1>3, ClosePositionHolds
<1>4. ASSUME NEW c \in Caller,
             \/ Submit(c) \/ ClaimRun(c) \/ LoadState(c) \/ EvaluateCandidate(c)
             \/ CommitDecision(c) \/ SaveOrder(c) \/ AfterDoubleStale(c) \/ CallerDies(c)
      PROVE  ReserveInv'
    BY <1>4, SubmitHolds, ClaimRunHolds, LoadStateHolds, EvaluateHolds, CommitDecisionHolds,
       SaveOrderHolds, AfterDoubleStaleHolds, CallerDiesHolds
<1>5. QED BY <1>1, <1>2, <1>3, <1>4 DEF ReserveNext

\* Types, limit, outcomes and what every call relies on, in every reachable state, for any
\* callers and requests (reserve_and_submit, submit_with_conflict_control).
THEOREM ReserveInvariant == ReserveSpec => []ReserveInv
<1>1. ReserveInit => ReserveInv
    BY ReserveStarts
<1>2. ReserveInv /\ [ReserveNext]_reserveVars => ReserveInv'
    BY ReserveGoesOn
<1>3. QED BY <1>1, <1>2, PTL DEF ReserveSpec

\* Two submissions are never both admitted on a state that allowed one: open risk and
\* reservations stay within the limit and a symbol has one exposure (save_paper with
\* expected_state, risk_engine_v2.evaluate).
THEOREM RiskWithinLimitHolds == ReserveSpec => []RiskWithinLimit
<1>1. ReserveInv => RiskWithinLimit
    BY DEF ReserveInv
<1>2. QED BY <1>1, ReserveInvariant, PTL

\* A run stands for one candidate and has one outcome, though the save of its order does not
\* look at the journal again (conflict_path.py, P6.1E).
THEOREM OneOutcomeHolds == ReserveSpec => []OneOutcomePerRun
<1>1. ReserveInv => OneOutcomePerRun
  <2> SUFFICES ASSUME ReserveInv, NEW q \in Request, q.path = "conflict"
               PROVE  LET r == q.run
                          o == state.order[r] IN
                      /\ Len(decided[r]) <= 1
                      /\ o.status # "NONE" <=> decided[r] # <<>> /\ decided[r][1].decision = "RESERVED"
                      /\ decided[r] # <<>> => decided[r][1].cand = claim[r]
                      /\ o.status # "NONE" => [sym |-> o.sym, setup |-> o.setup] = claim[r]
                      /\ \A c \in Caller : caller[c].req = q /\ caller[c].answer \in {"RESERVED", "DUPLICATE_RUN"}
                                             => claim[r] = Candidate(q)
      BY DEF OneOutcomePerRun
  <2>1. q.run \in Run /\ Outcome(q.run)
    BY RequestAssumption DEF ReserveInv, Outcomes
  <2>2. decided[q.run] \in {<<>>} \cup {<<d>> : d \in Decision}
    BY <2>1 DEF ReserveInv, ReserveTypes
  <2>3. Len(decided[q.run]) <= 1
    <3>1. CASE decided[q.run] = <<>>
        BY <3>1
    <3>2. CASE \E d \in Decision : decided[q.run] = <<d>>
        BY <3>2
    <3>3. QED BY <3>1, <3>2, <2>2
  <2>4. \A c \in Caller : caller[c].req = q /\ caller[c].answer \in {"RESERVED", "DUPLICATE_RUN"}
                            => claim[q.run] = Candidate(q)
    BY DEF ReserveInv, Knows
  <2>5. QED BY <2>1, <2>3, <2>4 DEF Outcome
<1>2. QED BY <1>1, ReserveInvariant, PTL

-----------------------------------------------------------------------------
\* The account, a process's call of execute, and the types of the state.
Paper == [position : Slot \cup {Old, Nobody}, order : [Slot -> {"NONE", "PENDING", "FILLED"}],
          elsewhere : Nat]
OppositeCalls == [pc : {"idle", "prior", "close", "saveClose", "reserve", "saveReserve", "done", "failed",
                "abandon"},
          run : Slot \cup {Nobody}, attempt : {1, 2}, paper : Paper \cup {Nobody},
          verdict : {"NONE", "SKIPPED", "CONTINUE", "CLOSED", "SUBMITTED"}]
\* What the rows of a run decide, and what those of a candidate may be: at most one decision.
Decided == Seq({"ABANDONED", "SKIPPED", "SUBMITTED"})
Once == {<<>>, <<"ABANDONED">>, <<"SKIPPED">>, <<"SUBMITTED">>}
OppositeTypes ==
    /\ paper \in Paper
    /\ rows \in [Slot -> [close : BOOLEAN, decision : Decided]]
    /\ runs \in [Slot -> {"NEW", "RUNNING", "DONE", "FAILED"}]
    /\ exec \in [Process -> OppositeCalls]

\* A process in a call has begun its run, and no other process is in a call of that run.
Busy(p) == exec[p].pc \notin {"idle", "abandon"}
BegunOK(p) == Busy(p) => exec[p].run \in Slot /\ runs[exec[p].run] # "NEW"
ApartOK(p, q) == p # q /\ Busy(p) /\ Busy(q) => exec[p].run # exec[q].run

\* A call that may still write and has its run finds the run undecided; what it writes is what
\* it loaded for, for a candidate.
Undecided(p) == exec[p].pc \in {"close", "saveClose", "reserve", "saveReserve"}
                    /\ Owns(exec[p].run) => rows[exec[p].run].decision = <<>>
VerdictOK(p) == /\ exec[p].pc = "saveReserve" => exec[p].verdict \in {"SKIPPED", "SUBMITTED"}
                /\ exec[p].pc \in {"close", "saveClose", "reserve", "saveReserve"} => exec[p].run \notin Invalid

\* An order exists exactly with the decision that submitted it; what is no candidate has none,
\* and a candidate one decision.
OrderOK(r) == /\ paper.order[r] # "NONE" <=> rows[r].decision = <<"SUBMITTED">>
              /\ IF r \in Invalid THEN paper.order[r] = "NONE" ELSE rows[r].decision \in Once

\* The inductive invariant.
CallsOK == /\ \A p \in Process : BegunOK(p) /\ Undecided(p) /\ VerdictOK(p)
           /\ \A p, q \in Process : ApartOK(p, q)
OrdersOK == \A r \in Slot : OrderOK(r)
OppositeInv == OppositeTypes /\ CallsOK /\ OrdersOK

-----------------------------------------------------------------------------
\* A step of one process keeps what is said of the calls, if it keeps the runs begun, gives
\* nobody a run that is under way, and decides no run that another process has.
LEMMA CallStep ==
    ASSUME CallsOK, NEW p \in Process,
           \A q \in Process : q # p => exec'[q] = exec[q],
           Busy(p)' => /\ exec'[p].run \in Slot /\ runs'[exec'[p].run] # "NEW"
                       /\ \/ Busy(p) /\ exec'[p].run = exec[p].run
                          \/ runs[exec'[p].run] = "NEW",
           \A r \in Slot : runs[r] # "NEW" => runs'[r] # "NEW" /\ (Owns(r)' => Owns(r)),
           \A q \in Process : q # p /\ Busy(q) /\ Owns(exec[q].run)
                                    /\ rows[exec[q].run].decision = <<>> =>
               rows'[exec[q].run].decision = <<>>,
           Undecided(p)', VerdictOK(p)'
    PROVE  CallsOK'
<1>1. \A q \in Process : BegunOK(q)'
  <2> SUFFICES ASSUME NEW q \in Process
               PROVE  BegunOK(q)'
      OBVIOUS
  <2>1. CASE q = p
    BY <2>1 DEF BegunOK
  <2>2. CASE q # p
    BY <2>2 DEF CallsOK, BegunOK, Busy
  <2>3. QED BY <2>1, <2>2
<1>2. \A q \in Process : VerdictOK(q)'
  <2> SUFFICES ASSUME NEW q \in Process
               PROVE  VerdictOK(q)'
      OBVIOUS
  <2>1. CASE q = p
    BY <2>1
  <2>2. CASE q # p
    BY <2>2 DEF CallsOK, VerdictOK
  <2>3. QED BY <2>1, <2>2
<1>3. \A q \in Process : Undecided(q)'
  <2> SUFFICES ASSUME NEW q \in Process
               PROVE  Undecided(q)'
      OBVIOUS
  <2>1. CASE q = p
    BY <2>1
  <2>2. CASE q # p
    <3> SUFFICES ASSUME exec'[q].pc \in {"close", "saveClose", "reserve", "saveReserve"},
                        Owns(exec[q].run)'
                 PROVE  rows'[exec'[q].run].decision = <<>>
        BY <2>2 DEF Undecided
    <3>1. exec'[q] = exec[q]
        BY <2>2
    <3>2. Busy(q) /\ exec[q].run \in Slot /\ runs[exec[q].run] # "NEW"
        BY <3>1 DEF Busy, CallsOK, BegunOK
    <3>3. Owns(exec[q].run)
        BY <3>1, <3>2 DEF Owns
    <3>4. rows[exec[q].run].decision = <<>>
        BY <3>1, <3>3 DEF CallsOK, Undecided
    <3>5. QED BY <2>2, <3>1, <3>2, <3>3, <3>4
  <2>3. QED BY <2>1, <2>2
<1>4. \A u, v \in Process : ApartOK(u, v)'
  <2>1. \A q \in Process : q # p /\ Busy(q)' /\ Busy(p)' => exec'[p].run # exec'[q].run
    <3> SUFFICES ASSUME NEW q \in Process, q # p, Busy(q)', Busy(p)'
                 PROVE  exec'[p].run # exec'[q].run
        OBVIOUS
    <3>1. exec'[q] = exec[q] /\ Busy(q) /\ runs[exec[q].run] # "NEW"
        BY DEF Busy, CallsOK, BegunOK
    <3>2. CASE Busy(p) /\ exec'[p].run = exec[p].run
        BY <3>1, <3>2 DEF CallsOK, ApartOK
    <3>3. CASE runs[exec'[p].run] = "NEW"
        BY <3>1, <3>3
    <3>4. QED BY <3>2, <3>3
  <2>2. \A u, v \in Process : u # p /\ v # p => ApartOK(u, v)'
    BY DEF CallsOK, ApartOK, Busy
  <2>3. QED BY <2>1, <2>2 DEF ApartOK
<1>5. QED BY <1>1, <1>2, <1>3, <1>4 DEF CallsOK

\* The accounts and the rows are not touched.
LEMMA OrdersFrame ==
    ASSUME OrdersOK, UNCHANGED <<paper, rows>>
    PROVE  OrdersOK'
BY DEF OrdersOK, OrderOK

-----------------------------------------------------------------------------
LEMMA InitHolds ==
    ASSUME OppositeInit
    PROVE  OppositeInv
<1>1. OppositeTypes
    BY DEF OppositeInit, OppositeTypes, Paper, OppositeCalls, Away, Decided
<1>2. CallsOK
    BY DEF OppositeInit, CallsOK, BegunOK, ApartOK, Undecided, VerdictOK, Busy, Away
<1>3. OrdersOK
    BY DEF OppositeInit, OrdersOK, OrderOK, Once
<1>4. QED BY <1>1, <1>2, <1>3 DEF OppositeInv

LEMMA OthersWriteHolds ==
    ASSUME OppositeInv, OthersWrite
    PROVE  OppositeInv'
<1>. USE DEF OppositeInv
<1>1. UNCHANGED <<rows, runs, lock, exec>>
    BY DEF OthersWrite
<1>2. CallsOK'
    BY <1>1 DEF CallsOK, BegunOK, ApartOK, Undecided, VerdictOK, Busy, Owns
<1>3. paper \in Paper
    BY DEF OppositeTypes
<1>4. paper' \in Paper /\ \A r \in Slot : paper'.order[r] # "NONE" <=> paper.order[r] # "NONE"
  <2>1. CASE paper' = [paper EXCEPT !.position = Nobody]
    BY <1>3, <2>1 DEF Paper
  <2>2. CASE \E r \in Slot : /\ paper.order[r] = "PENDING"
                             /\ paper' = [paper EXCEPT !.position = r, !.order[r] = "FILLED"]
    <3>1. PICK r \in Slot : /\ paper.order[r] = "PENDING"
                            /\ paper' = [paper EXCEPT !.position = r, !.order[r] = "FILLED"]
        BY <2>2
    <3>2. PICK o : o = [paper.order EXCEPT ![r] = "FILLED"]
        OBVIOUS
    <3>3. /\ o \in [Slot -> {"NONE", "PENDING", "FILLED"}]
          /\ \A s \in Slot : o[s] # "NONE" <=> paper.order[s] # "NONE"
        BY <3>1, <3>2, <1>3 DEF Paper
    <3>4. paper' = [paper EXCEPT !.position = r, !.order = o]
        BY <3>1, <3>2, <1>3 DEF Paper
    <3>5. paper' \in Paper /\ paper'.order = o
        BY <3>3, <3>4, <1>3 DEF Paper
    <3>6. QED BY <3>3, <3>5
  <2>3. CASE paper' = [paper EXCEPT !.elsewhere = @ + 1]
    BY <1>3, <2>3 DEF Paper
  <2>4. QED BY <2>1, <2>2, <2>3 DEF OthersWrite
<1>5. OppositeTypes'
    BY <1>1, <1>4 DEF OppositeTypes
<1>6. OrdersOK'
    BY <1>1, <1>4 DEF OrdersOK, OrderOK
<1>7. QED BY <1>2, <1>5, <1>6

\* The call of a process is replaced by another one.
LEMMA CallTypes ==
    ASSUME OppositeTypes, NEW p \in Process, NEW c \in OppositeCalls, exec' = [exec EXCEPT ![p] = c]
    PROVE  /\ exec' \in [Process -> OppositeCalls] /\ exec'[p] = c
           /\ \A q \in Process : q # p => exec'[q] = exec[q]
BY DEF OppositeTypes

LEMMA BeginHolds ==
    ASSUME OppositeInv, NEW p \in Process, NEW r \in Slot, Begin(p, r)
    PROVE  OppositeInv'
<1>. USE DEF OppositeInv
<1>1. PICK c : c = [Away EXCEPT !.pc = "prior", !.run = r]
    OBVIOUS
<1>2. c \in OppositeCalls /\ c.pc = "prior" /\ c.run = r
    BY <1>1 DEF Away, OppositeCalls
<1>3. /\ exec' = [exec EXCEPT ![p] = c] /\ runs' = [runs EXCEPT ![r] = "RUNNING"] /\ lock' = r
      /\ UNCHANGED <<paper, rows>> /\ runs[r] = "NEW" /\ lock = Nobody
    BY <1>1 DEF Begin
<1>4. /\ exec' \in [Process -> OppositeCalls] /\ exec'[p] = c
      /\ \A q \in Process : q # p => exec'[q] = exec[q]
    BY <1>2, <1>3, CallTypes
<1>5. OppositeTypes'
    BY <1>3, <1>4 DEF OppositeTypes
<1>6. runs'[r] = "RUNNING" /\ \A s \in Slot : s # r => runs'[s] = runs[s]
    BY <1>3 DEF OppositeTypes
<1>7. \A s \in Slot : runs[s] # "NEW" => runs'[s] # "NEW" /\ (Owns(s)' => Owns(s))
    BY <1>3, <1>6 DEF Owns
<1>8. Undecided(p)' /\ VerdictOK(p)'
    BY <1>2, <1>4 DEF Undecided, VerdictOK
<1>9. CallsOK'
    BY <1>2, <1>3, <1>4, <1>6, <1>7, <1>8, CallStep
<1>10. QED BY <1>3, <1>5, <1>9, OrdersFrame

-----------------------------------------------------------------------------
\* A step of a call under way, in which the process keeps its run or lets it go.
LEMMA GoOn ==
    ASSUME OppositeInv, NEW p \in Process, NEW c \in OppositeCalls, exec' = [exec EXCEPT ![p] = c],
           UNCHANGED <<paper, rows, runs, lock>>,
           c.pc \notin {"idle", "abandon"} => Busy(p) /\ c.run = exec[p].run,
           c.pc \in {"close", "saveClose", "reserve", "saveReserve"} /\ Owns(c.run) =>
               rows[c.run].decision = <<>>,
           c.pc \in {"close", "saveClose", "reserve", "saveReserve"} => c.run \notin Invalid,
           c.pc = "saveReserve" => c.verdict \in {"SKIPPED", "SUBMITTED"}
    PROVE  OppositeInv'
<1>. USE DEF OppositeInv
<1>1. /\ exec' \in [Process -> OppositeCalls] /\ exec'[p] = c
      /\ \A q \in Process : q # p => exec'[q] = exec[q]
    BY CallTypes
<1>2. OppositeTypes'
    BY <1>1 DEF OppositeTypes
<1>3. \A s \in Slot : runs[s] # "NEW" => runs'[s] # "NEW" /\ (Owns(s)' => Owns(s))
    BY DEF Owns
<1>4. Undecided(p)' /\ VerdictOK(p)'
    BY <1>1 DEF Undecided, VerdictOK, Owns
<1>5. Busy(p)' => /\ exec'[p].run \in Slot /\ runs'[exec'[p].run] # "NEW"
                  /\ Busy(p) /\ exec'[p].run = exec[p].run
    BY <1>1 DEF Busy, CallsOK, BegunOK
<1>6. CallsOK'
    BY <1>1, <1>3, <1>4, <1>5, CallStep
<1>7. QED BY <1>2, <1>6, OrdersFrame

\* Where a step of the code goes.
LEMMA GoesIs ==
    ASSUME OppositeTypes, NEW p \in Process, NEW pc, NEW n \in {1, 2}, Goes(p, pc, n),
           pc \in {"idle", "prior", "close", "saveClose", "reserve", "saveReserve", "done", "failed",
                   "abandon"}
    PROVE  \E c \in OppositeCalls : exec' = [exec EXCEPT ![p] = c] /\ c.pc = pc /\ c.run = exec[p].run
<1>1. exec[p].run \in Slot \cup {Nobody}
    BY DEF OppositeTypes, OppositeCalls
<1>2. PICK c : c = [Away EXCEPT !.pc = pc, !.run = exec[p].run, !.attempt = n]
    OBVIOUS
<1>3. c \in OppositeCalls /\ c.pc = pc /\ c.run = exec[p].run
    BY <1>1, <1>2 DEF Away, OppositeCalls
<1>4. exec' = [exec EXCEPT ![p] = c]
    BY <1>2 DEF Goes
<1>5. QED BY <1>3, <1>4

LEMMA StepIs ==
    ASSUME OppositeTypes, NEW p \in Process, NEW pc, Moves(p, pc),
           pc \in {"idle", "prior", "close", "saveClose", "reserve", "saveReserve", "done", "failed",
                   "abandon"}
    PROVE  \E c \in OppositeCalls : exec' = [exec EXCEPT ![p] = c] /\ c.pc = pc /\ c.run = exec[p].run
BY GoesIs DEF Moves

\* Abandoning leaves the runs alone that some process has, and opens nothing.
LEMMA AbandonedRows ==
    ASSUME OppositeInv, NEW given, Abandoned(given), paper' = paper
    PROVE  /\ rows' \in [Slot -> [close : BOOLEAN, decision : Decided]]
           /\ \A r \in Slot : Owns(r) /\ r # given => rows'[r] = rows[r]
           /\ OrdersOK'
<1>1. \A r \in Slot : \/ rows'[r] = rows[r]
                      \/ /\ rows'[r] = [rows[r] EXCEPT !.decision = <<"ABANDONED">>]
                         /\ rows[r].decision = <<>> /\ (runs[r] # "RUNNING" \/ r = given)
    BY DEF Abandoned, Incomplete
<1>2. rows' = [r \in Slot |-> rows'[r]]
    BY DEF Abandoned
<1>3. \A r \in Slot : rows[r] \in [close : BOOLEAN, decision : Decided]
    BY DEF OppositeInv, OppositeTypes
<1>4. \A r \in Slot : rows'[r] \in [close : BOOLEAN, decision : Decided]
  <2>1. <<"ABANDONED">> \in Decided
    BY DEF Decided
  <2>2. QED BY <2>1, <1>1, <1>3
<1>5. rows' \in [Slot -> [close : BOOLEAN, decision : Decided]]
    BY <1>2, <1>4
<1>6. \A r \in Slot : Owns(r) /\ r # given => rows'[r] = rows[r]
    BY <1>1 DEF Owns
<1>7. \A r \in Slot : \/ rows'[r].decision = rows[r].decision
                      \/ rows'[r].decision = <<"ABANDONED">> /\ rows[r].decision = <<>>
    BY <1>1, <1>3
<1>8. <<>> # <<"SUBMITTED">> /\ <<"ABANDONED">> # <<"SUBMITTED">> /\ <<"ABANDONED">> \in Once
    BY DEF Once
<1>9. OrdersOK'
    BY <1>7, <1>8 DEF OppositeInv, OrdersOK, OrderOK
<1>10. QED BY <1>5, <1>6, <1>9

-----------------------------------------------------------------------------
\* Loading for one of the two writes.
LEMMA LoadHolds ==
    ASSUME OppositeInv, NEW p \in Process, exec[p].pc \in {"close", "reserve"},
           NEW v \in {"SKIPPED", "CONTINUE", "CLOSED", "SUBMITTED"},
           exec[p].pc = "reserve" => v \in {"SKIPPED", "SUBMITTED"},
           exec' = [exec EXCEPT ![p].paper = paper, ![p].verdict = v,
                        ![p].pc = IF exec[p].pc = "close" THEN "saveClose" ELSE "saveReserve"],
           UNCHANGED <<paper, rows, runs, lock>>
    PROVE  OppositeInv'
<1>1. exec[p] \in OppositeCalls /\ paper \in Paper
    BY DEF OppositeInv, OppositeTypes
<1>2. PICK pc : pc = IF exec[p].pc = "close" THEN "saveClose" ELSE "saveReserve"
    OBVIOUS
<1>3. pc \in {"saveClose", "saveReserve"} /\ (pc = "saveReserve" => v \in {"SKIPPED", "SUBMITTED"})
    BY <1>2
<1>4. PICK c : c = [exec[p] EXCEPT !.paper = paper, !.verdict = v, !.pc = pc]
    OBVIOUS
<1>5. c \in OppositeCalls /\ c.pc = pc /\ c.run = exec[p].run /\ c.verdict = v
    BY <1>1, <1>3, <1>4 DEF OppositeCalls
<1>6. exec' = [exec EXCEPT ![p] = c]
    BY <1>2, <1>4 DEF OppositeInv, OppositeTypes
<1>7. Busy(p) /\ (Owns(exec[p].run) => rows[exec[p].run].decision = <<>>) /\ exec[p].run \notin Invalid
    BY DEF OppositeInv, CallsOK, Busy, Undecided, VerdictOK
<1>8. QED BY <1>3, <1>5, <1>6, <1>7, GoOn

LEMMA LoadCloseHolds ==
    ASSUME OppositeInv, NEW p \in Process, LoadClose(p)
    PROVE  OppositeInv'
<1>1. exec[p].pc = "close" /\ UNCHANGED <<paper, rows, runs, lock>>
    BY DEF LoadClose
<1>2. PICK v \in {"SKIPPED", "CONTINUE", "CLOSED", "SUBMITTED"} :
        exec' = [exec EXCEPT ![p].paper = paper, ![p].verdict = v,
                     ![p].pc = IF exec[p].pc = "close" THEN "saveClose" ELSE "saveReserve"]
    BY DEF LoadClose, Load
<1>3. QED BY <1>1, <1>2, LoadHolds

LEMMA LoadReserveHolds ==
    ASSUME OppositeInv, NEW p \in Process, LoadReserve(p)
    PROVE  OppositeInv'
<1>1. exec[p].pc = "reserve" /\ UNCHANGED <<paper, rows, runs, lock>>
    BY DEF LoadReserve
<1>2. PICK v \in {"SKIPPED", "SUBMITTED"} :
        exec' = [exec EXCEPT ![p].paper = paper, ![p].verdict = v,
                     ![p].pc = IF exec[p].pc = "close" THEN "saveClose" ELSE "saveReserve"]
    BY DEF LoadReserve, Load
<1>3. QED BY <1>1, <1>2, LoadHolds

\* The next attempt, or the end of the call.
LEMMA NextPc ==
    ASSUME OppositeInv, NEW p \in Process,
           exec[p].pc \in {"saveClose", "saveReserve"}, UNCHANGED <<paper, rows, runs, lock>>,
           NEW pc \in {"close", "reserve", "done"}, NEW n \in {1, 2}, Goes(p, pc, n)
    PROVE  OppositeInv'
<1>1. PICK c \in OppositeCalls : exec' = [exec EXCEPT ![p] = c] /\ c.pc = pc /\ c.run = exec[p].run
    BY GoesIs DEF OppositeInv
<1>2. Busy(p) /\ (Owns(exec[p].run) => rows[exec[p].run].decision = <<>>) /\ exec[p].run \notin Invalid
    BY DEF OppositeInv, CallsOK, Busy, Undecided, VerdictOK
<1>3. QED BY <1>1, <1>2, GoOn, ZenonT(60)

LEMMA AgainHolds ==
    ASSUME OppositeInv, NEW p \in Process, NEW pc \in {"close", "reserve"}, Again(p, pc),
           exec[p].pc \in {"saveClose", "saveReserve"}, UNCHANGED <<paper, rows, runs, lock>>
    PROVE  OppositeInv'
<1>1. PICK to \in {"close", "reserve", "done"}, n \in {1, 2} : Goes(p, to, n)
    BY DEF Again, Moves
<1>2. QED BY <1>1, NextPc

\* A write of a process that has its run: the row of that run changes, and nobody else has it.
LEMMA OwnWrite ==
    ASSUME OppositeInv, NEW p \in Process, Busy(p), NEW c \in OppositeCalls, exec' = [exec EXCEPT ![p] = c],
           c.run = exec[p].run, c.pc \in {"reserve", "done"}, UNCHANGED <<runs, lock>>,
           NEW row \in [close : BOOLEAN, decision : Decided],
           rows' = [rows EXCEPT ![exec[p].run] = row],
           c.pc = "reserve" => row.decision = <<>> /\ c.run \notin Invalid,
           paper' \in Paper,
           \A s \in Slot : s # exec[p].run => paper'.order[s] = paper.order[s],
           paper'.order[exec[p].run] # "NONE" <=> row.decision = <<"SUBMITTED">>,
           IF exec[p].run \in Invalid THEN paper'.order[exec[p].run] = "NONE" ELSE row.decision \in Once
    PROVE  OppositeInv'
<1>. USE DEF OppositeInv
<1>1. /\ exec' \in [Process -> OppositeCalls] /\ exec'[p] = c
      /\ \A q \in Process : q # p => exec'[q] = exec[q]
    BY CallTypes
<1>2. exec[p].run \in Slot /\ runs[exec[p].run] # "NEW"
    BY DEF CallsOK, BegunOK
<1>3. /\ rows' \in [Slot -> [close : BOOLEAN, decision : Decided]] /\ rows'[exec[p].run] = row
      /\ \A s \in Slot : s # exec[p].run => rows'[s] = rows[s]
    BY <1>2 DEF OppositeTypes
<1>4. OppositeTypes'
    BY <1>1, <1>3 DEF OppositeTypes
<1>5. \A q \in Process : q # p /\ Busy(q) => exec[q].run \in Slot /\ exec[q].run # exec[p].run
    BY DEF CallsOK, BegunOK, ApartOK
<1>6. \A q \in Process : q # p /\ Busy(q) /\ Owns(exec[q].run)
                               /\ rows[exec[q].run].decision = <<>> =>
          rows'[exec[q].run].decision = <<>>
    BY <1>3, <1>5
<1>7. \A s \in Slot : runs[s] # "NEW" => runs'[s] # "NEW" /\ (Owns(s)' => Owns(s))
    BY DEF Owns
<1>8. Undecided(p)' /\ VerdictOK(p)'
    BY <1>1, <1>3 DEF Undecided, VerdictOK
<1>9. Busy(p)' => /\ exec'[p].run \in Slot /\ runs'[exec'[p].run] # "NEW"
                  /\ Busy(p) /\ exec'[p].run = exec[p].run
    BY <1>1, <1>2
<1>10. CallsOK'
    BY <1>1, <1>6, <1>7, <1>8, <1>9, CallStep
<1>11. OrdersOK'
  <2> SUFFICES ASSUME NEW s \in Slot
               PROVE  OrderOK(s)'
      BY DEF OrdersOK
  <2>1. CASE s = exec[p].run
    BY <2>1, <1>3 DEF OrderOK
  <2>2. CASE s # exec[p].run
    BY <2>2, <1>3 DEF OrdersOK, OrderOK
  <2>3. QED BY <2>1, <2>2
<1>12. QED BY <1>4, <1>10, <1>11

\* The decision of an undecided run is its first.
LEMMA FirstDecision ==
    ASSUME OppositeTypes, NEW r \in Slot, rows[r].decision = <<>>,
           NEW d \in {"SKIPPED", "SUBMITTED"}, Decide(r, d)
    PROVE  \E row \in [close : BOOLEAN, decision : Decided] :
               rows' = [rows EXCEPT ![r] = row] /\ row.decision = <<d>> /\ row.decision \in Once
<1>1. rows[r] \in [close : BOOLEAN, decision : Decided]
    BY DEF OppositeTypes
<1>2. Append(<<>>, d) = <<d>>
    OBVIOUS
<1>3. <<d>> \in Decided /\ <<d>> \in Once
    BY DEF Decided, Once
<1>4. PICK row : row = [rows[r] EXCEPT !.decision = <<d>>]
    OBVIOUS
<1>5. row \in [close : BOOLEAN, decision : Decided] /\ row.decision = <<d>> /\ row.decision \in Once
    BY <1>1, <1>3, <1>4
<1>6. rows' = [rows EXCEPT ![r] = row]
    BY <1>1, <1>2, <1>4 DEF Decide, OppositeTypes
<1>7. QED BY <1>5, <1>6

\* What a call finds of its run.
LEMMA PriorHolds ==
    ASSUME OppositeInv, NEW p \in Process, Prior(p)
    PROVE  OppositeInv'
<1>. USE DEF OppositeInv
<1> DEFINE r == exec[p].run
<1>1. Busy(p) /\ UNCHANGED <<paper, runs, lock>>
    BY DEF Prior, Busy
<1>2. \/ Moves(p, "failed") /\ rows' = rows
      \/ Moves(p, "done") /\ rows' = rows
      \/ Moves(p, "done") /\ Owns(r) /\ r \in Invalid /\ Decide(r, "SKIPPED")
      \/ Moves(p, "done") /\ Owns(r) /\ Abandoned(r)
      \/ Moves(p, "close") /\ rows' = rows /\ r \notin Invalid /\ rows[r].decision = <<>>
    BY DEF Prior
<1>3. CASE Moves(p, "failed") /\ rows' = rows
    BY <1>1, <1>3, StepIs, GoOn
<1>4. CASE Moves(p, "done") /\ rows' = rows
    BY <1>1, <1>4, StepIs, GoOn
<1>5. CASE Moves(p, "close") /\ rows' = rows /\ r \notin Invalid /\ rows[r].decision = <<>>
    BY <1>1, <1>5, StepIs, GoOn
<1>6. CASE Moves(p, "done") /\ Owns(r) /\ Abandoned(r)
  <2>1. PICK c \in OppositeCalls : exec' = [exec EXCEPT ![p] = c] /\ c.pc = "done" /\ c.run = r
    BY <1>6, StepIs
  <2>2. /\ exec' \in [Process -> OppositeCalls] /\ exec'[p] = c
        /\ \A q \in Process : q # p => exec'[q] = exec[q]
    BY <2>1, CallTypes
  <2>3. PICK g : g = r
    OBVIOUS
  <2>4. /\ rows' \in [Slot -> [close : BOOLEAN, decision : Decided]]
        /\ \A s \in Slot : Owns(s) /\ s # g => rows'[s] = rows[s]
        /\ OrdersOK'
    BY <1>1, <1>6, <2>3, AbandonedRows
  <2>5. OppositeTypes'
    BY <1>1, <2>2, <2>4 DEF OppositeTypes
  <2>6. \A q \in Process : q # p /\ Busy(q) /\ Owns(exec[q].run)
                                 /\ rows[exec[q].run].decision = <<>> =>
            rows'[exec[q].run].decision = <<>>
    <3> SUFFICES ASSUME NEW q \in Process, q # p, Busy(q), Owns(exec[q].run)
                 PROVE  rows'[exec[q].run] = rows[exec[q].run]
        OBVIOUS
    <3>1. exec[q].run \in Slot /\ exec[q].run # g
        BY <1>1, <2>3 DEF CallsOK, BegunOK, ApartOK
    <3>2. QED BY <3>1, <2>4
  <2>7. \A s \in Slot : runs[s] # "NEW" => runs'[s] # "NEW" /\ (Owns(s)' => Owns(s))
    BY <1>1 DEF Owns
  <2>8. Undecided(p)' /\ VerdictOK(p)'
    BY <2>1, <2>2 DEF Undecided, VerdictOK
  <2>9. Busy(p)' => /\ exec'[p].run \in Slot /\ runs'[exec'[p].run] # "NEW"
                    /\ Busy(p) /\ exec'[p].run = exec[p].run
    BY <1>1, <2>1, <2>2 DEF CallsOK, BegunOK
  <2>10. CallsOK'
    BY <2>2, <2>6, <2>7, <2>8, <2>9, CallStep
  <2>11. QED BY <2>4, <2>5, <2>10
<1>7. CASE Moves(p, "done") /\ Owns(r) /\ r \in Invalid /\ Decide(r, "SKIPPED")
  <2>1. PICK c \in OppositeCalls : exec' = [exec EXCEPT ![p] = c] /\ c.pc = "done" /\ c.run = exec[p].run
    BY <1>7, StepIs
  <2>2. r \in Slot /\ paper \in Paper /\ paper.order[r] = "NONE"
        /\ rows[r] \in [close : BOOLEAN, decision : Decided] /\ rows[r].decision # <<"SUBMITTED">>
    BY <1>1, <1>7 DEF OppositeTypes, CallsOK, BegunOK, OrdersOK, OrderOK
  <2>3. PICK d : d = Append(rows[r].decision, "SKIPPED")
    OBVIOUS
  <2>4. d \in Decided /\ d # <<"SUBMITTED">>
    <3>1. rows[r].decision \in Seq({"ABANDONED", "SKIPPED", "SUBMITTED"})
        BY <2>2 DEF Decided
    <3>2. PICK s : s = rows[r].decision
        OBVIOUS
    <3>3. Append(s, "SKIPPED") \in Seq({"ABANDONED", "SKIPPED", "SUBMITTED"})
        BY <3>1, <3>2
    <3>4. Append(s, "SKIPPED")[Len(s) + 1] = "SKIPPED" /\ Len(Append(s, "SKIPPED")) = Len(s) + 1
      <4>1. "SKIPPED" \in {"ABANDONED", "SKIPPED", "SUBMITTED"}
        OBVIOUS
      <4>2. s \in Seq({"ABANDONED", "SKIPPED", "SUBMITTED"})
        BY <3>1, <3>2
      <4>3. QED BY <4>1, <4>2, AppendProperties
    <3>5. Append(s, "SKIPPED") # <<"SUBMITTED">>
      <4>1. SUFFICES ASSUME Append(s, "SKIPPED") = <<"SUBMITTED">>
                     PROVE  FALSE
        OBVIOUS
      <4>2. Len(s) \in Nat /\ Len(<<"SUBMITTED">>) = 1 /\ <<"SUBMITTED">>[1] = "SUBMITTED"
        BY <3>1, <3>2
      <4>3. QED BY <3>4, <4>1, <4>2
    <3>6. QED BY <2>3, <3>2, <3>3, <3>5 DEF Decided
  <2>5. PICK row : row = [rows[r] EXCEPT !.decision = d]
    OBVIOUS
  <2>6. row \in [close : BOOLEAN, decision : Decided] /\ row.decision = d
    BY <2>2, <2>4, <2>5
  <2>7. rows' = [rows EXCEPT ![r] = row]
    BY <1>7, <2>2, <2>3, <2>5 DEF Decide, OppositeTypes
  <2>8. QED BY <1>1, <1>7, <2>1, <2>2, <2>4, <2>6, <2>7, OwnWrite
<1>8. QED BY <1>2, <1>3, <1>4, <1>5, <1>6, <1>7

\* The close, with its row, or the decision against it.
LEMMA SaveCloseHolds ==
    ASSUME OppositeInv, NEW p \in Process, SaveClose(p)
    PROVE  OppositeInv'
<1> DEFINE r == exec[p].run
           v == exec[p].verdict
<1>1. exec[p].pc = "saveClose" /\ UNCHANGED <<runs, lock>>
    BY DEF SaveClose
<1>2. Busy(p) /\ r \in Slot /\ (Owns(r) => rows[r].decision = <<>>) /\ exec[p] \in OppositeCalls
      /\ paper \in Paper /\ OppositeTypes /\ r \notin Invalid
    BY <1>1 DEF OppositeInv, OppositeTypes, CallsOK, BegunOK, Undecided, VerdictOK, Busy
<1>3. (paper.order[r] # "NONE" <=> rows[r].decision = <<"SUBMITTED">>) /\ <<>> # <<"SUBMITTED">>
    BY <1>2 DEF OppositeInv, OrdersOK, OrderOK
<1>4. \/ Moves(p, "reserve") /\ UNCHANGED <<paper, rows>>
      \/ Moves(p, "failed") /\ UNCHANGED <<paper, rows>>
      \/ Again(p, "close") /\ UNCHANGED <<paper, rows>>
      \/ /\ Owns(r) /\ paper' = [paper EXCEPT !.position = Nobody]
         /\ rows' = [rows EXCEPT ![r].close = TRUE]
         /\ Moves(p, "reserve")
      \/ Owns(r) /\ Decide(r, "SKIPPED") /\ Moves(p, "done") /\ paper' = paper
    BY DEF SaveClose
<1>5. CASE Moves(p, "reserve") /\ UNCHANGED <<paper, rows>>
    BY <1>1, <1>5, NextPc DEF Moves
<1>6. CASE Moves(p, "failed") /\ UNCHANGED <<paper, rows>>
  <2>1. PICK c \in OppositeCalls : exec' = [exec EXCEPT ![p] = c] /\ c.pc = "failed" /\ c.run = exec[p].run
    BY <1>2, <1>6, StepIs
  <2>2. QED BY <2>1, <1>1, <1>2, <1>6, GoOn
<1>7. CASE Again(p, "close") /\ UNCHANGED <<paper, rows>>
    BY <1>1, <1>7, AgainHolds
<1>8. CASE /\ Owns(r) /\ paper' = [paper EXCEPT !.position = Nobody]
           /\ rows' = [rows EXCEPT ![r].close = TRUE]
           /\ Moves(p, "reserve")
  <2>1. PICK c \in OppositeCalls : exec' = [exec EXCEPT ![p] = c] /\ c.pc = "reserve" /\ c.run = exec[p].run
    BY <1>2, <1>8, StepIs
  <2>4. PICK row : row = [rows[r] EXCEPT !.close = TRUE]
    OBVIOUS
  <2>5. row \in [close : BOOLEAN, decision : Decided] /\ row.decision = rows[r].decision
    BY <2>4, <1>2 DEF OppositeTypes
  <2>6. rows' = [rows EXCEPT ![r] = row]
    BY <2>4, <1>8, <1>2 DEF OppositeTypes
  <2>7. paper' \in Paper /\ paper'.order = paper.order
    BY <1>2, <1>8 DEF Paper
  <2>8. row.decision = <<>> /\ row.decision \in Once
    BY <2>5, <1>2, <1>8 DEF Once
  <2>9. QED BY <1>1, <1>2, <1>3, <2>1, <2>5, <2>6, <2>7, <2>8, OwnWrite
<1>9. CASE Owns(r) /\ Decide(r, "SKIPPED") /\ Moves(p, "done") /\ paper' = paper
  <2>1. PICK c \in OppositeCalls : exec' = [exec EXCEPT ![p] = c] /\ c.pc = "done" /\ c.run = exec[p].run
    BY <1>2, <1>9, StepIs
  <2>2. PICK s : s = r
    OBVIOUS
  <2>3. PICK row \in [close : BOOLEAN, decision : Decided] :
          rows' = [rows EXCEPT ![s] = row] /\ row.decision = <<"SKIPPED">> /\ row.decision \in Once
    BY <2>2, <1>2, <1>9, FirstDecision
  <2>4. <<"SKIPPED">> # <<"SUBMITTED">>
    OBVIOUS
  <2>5. QED BY <1>1, <1>2, <1>3, <1>9, <2>1, <2>2, <2>3, <2>4, OwnWrite
<1>10. QED BY <1>4, <1>5, <1>6, <1>7, <1>8, <1>9

\* The order with its decision, or the decision against it.
LEMMA SaveReserveHolds ==
    ASSUME OppositeInv, NEW p \in Process, SaveReserve(p)
    PROVE  OppositeInv'
<1> DEFINE r == exec[p].run
           v == exec[p].verdict
<1>1. exec[p].pc = "saveReserve" /\ UNCHANGED <<runs, lock>>
    BY DEF SaveReserve
<1>2. Busy(p) /\ r \in Slot /\ (Owns(r) => rows[r].decision = <<>>) /\ paper \in Paper
      /\ OppositeTypes /\ v \in {"SKIPPED", "SUBMITTED"} /\ r \notin Invalid
    BY <1>1 DEF OppositeInv, OppositeTypes, CallsOK, BegunOK, Undecided, VerdictOK, Busy
<1>3. (paper.order[r] # "NONE" <=> rows[r].decision = <<"SUBMITTED">>) /\ <<>> # <<"SUBMITTED">>
    BY <1>2 DEF OppositeInv, OrdersOK, OrderOK
<1>4. \/ Moves(p, "failed") /\ UNCHANGED <<paper, rows>>
      \/ Again(p, "reserve") /\ UNCHANGED <<paper, rows>>
      \/ /\ Owns(r) /\ Decide(r, v) /\ Moves(p, "done")
         /\ paper' = IF v = "SUBMITTED" THEN [paper EXCEPT !.order[r] = "PENDING"] ELSE paper
    BY DEF SaveReserve
<1>5. CASE Moves(p, "failed") /\ UNCHANGED <<paper, rows>>
  <2>1. PICK c \in OppositeCalls : exec' = [exec EXCEPT ![p] = c] /\ c.pc = "failed" /\ c.run = exec[p].run
    BY <1>2, <1>5, StepIs
  <2>2. QED BY <2>1, <1>1, <1>2, <1>5, GoOn
<1>6. CASE Again(p, "reserve") /\ UNCHANGED <<paper, rows>>
    BY <1>1, <1>6, AgainHolds
<1>7. CASE /\ Owns(r) /\ Decide(r, v) /\ Moves(p, "done")
           /\ paper' = IF v = "SUBMITTED" THEN [paper EXCEPT !.order[r] = "PENDING"] ELSE paper
  <2>1. PICK c \in OppositeCalls : exec' = [exec EXCEPT ![p] = c] /\ c.pc = "done" /\ c.run = exec[p].run
    BY <1>2, <1>7, StepIs
  <2>2. PICK s, d : s = r /\ d = v
    OBVIOUS
  <2>3. PICK row \in [close : BOOLEAN, decision : Decided] :
          rows' = [rows EXCEPT ![s] = row] /\ row.decision = <<d>> /\ row.decision \in Once
    BY <2>2, <1>2, <1>7, FirstDecision
  <2>4. <<d>> = <<"SUBMITTED">> <=> d = "SUBMITTED"
    OBVIOUS
  <2>5. paper' \in Paper /\ (\A t \in Slot : t # r => paper'.order[t] = paper.order[t])
        /\ (paper'.order[r] # "NONE" <=> d = "SUBMITTED")
    <3>1. CASE d = "SUBMITTED"
      <4>1. PICK o : o = [paper.order EXCEPT ![r] = "PENDING"]
        OBVIOUS
      <4>2. /\ o \in [Slot -> {"NONE", "PENDING", "FILLED"}] /\ o[r] = "PENDING"
            /\ \A t \in Slot : t # r => o[t] = paper.order[t]
        BY <4>1, <1>2 DEF Paper
      <4>3. paper' = [paper EXCEPT !.order = o]
        BY <4>1, <3>1, <2>2, <1>2, <1>7 DEF Paper
      <4>4. paper' \in Paper /\ paper'.order = o
        BY <4>2, <4>3, <1>2 DEF Paper
      <4>5. QED BY <4>2, <4>4, <3>1
    <3>2. CASE d # "SUBMITTED"
        BY <3>2, <2>2, <1>2, <1>3, <1>7
    <3>3. QED BY <3>1, <3>2
  <2>6. QED BY <1>1, <1>2, <2>1, <2>2, <2>3, <2>4, <2>5, OwnWrite
<1>8. QED BY <1>4, <1>5, <1>6, <1>7

-----------------------------------------------------------------------------
\* A process lets its call go; a run that ends is nobody's from then on.
LEMMA EndRunHolds ==
    ASSUME OppositeInv, NEW p \in Process, EndRun(p)
    PROVE  OppositeInv'
<1>. USE DEF OppositeInv
<1>1. PICK c : c = Away
    OBVIOUS
<1>2. c \in OppositeCalls /\ c.pc = "idle"
    BY <1>1 DEF Away, OppositeCalls
<1>3. exec' = [exec EXCEPT ![p] = c] /\ UNCHANGED <<paper, rows>>
    BY <1>1 DEF EndRun
<1>4. /\ exec' \in [Process -> OppositeCalls] /\ exec'[p] = c
      /\ \A q \in Process : q # p => exec'[q] = exec[q]
    BY <1>2, <1>3, CallTypes
<1>5. /\ runs' \in [Slot -> {"NEW", "RUNNING", "DONE", "FAILED"}]
      /\ \A s \in Slot : runs'[s] = runs[s] \/ runs'[s] = "DONE"
      /\ lock' = lock \/ lock' = Nobody
    BY DEF EndRun, OppositeTypes
<1>6. \A s \in Slot : runs[s] # "NEW" => runs'[s] # "NEW" /\ (Owns(s)' => Owns(s))
    BY <1>5, OppositeAssumption DEF Owns
<1>7. OppositeTypes'
    BY <1>3, <1>4, <1>5 DEF OppositeTypes
<1>8. Undecided(p)' /\ VerdictOK(p)' /\ ~Busy(p)'
    BY <1>2, <1>4 DEF Undecided, VerdictOK, Busy
<1>9. CallsOK'
    BY <1>3, <1>4, <1>6, <1>8, CallStep
<1>10. QED BY <1>3, <1>7, <1>9, OrdersFrame

LEMMA CallFailsHolds ==
    ASSUME OppositeInv, NEW p \in Process, CallFails(p)
    PROVE  OppositeInv'
<1>1. Busy(p) /\ UNCHANGED <<paper, rows, runs, lock>> /\ exec[p].run \in Slot
    BY DEF CallFails, Busy, OppositeInv, CallsOK, BegunOK
<1>2. PICK c : /\ c = [Away EXCEPT !.pc = "prior", !.run = exec[p].run] \/ c = Away
               /\ exec' = [exec EXCEPT ![p] = c]
    BY DEF CallFails
<1>3. c \in OppositeCalls /\ ((c.pc = "prior" /\ c.run = exec[p].run) \/ c.pc = "idle")
  <2>1. CASE c = [Away EXCEPT !.pc = "prior", !.run = exec[p].run]
    BY <2>1, <1>1 DEF Away, OppositeCalls
  <2>2. CASE c = Away
    BY <2>2 DEF Away, OppositeCalls
  <2>3. QED BY <2>1, <2>2, <1>2
<1>4. QED BY <1>1, <1>2, <1>3, GoOn

LEMMA RecoverRunsHolds ==
    ASSUME OppositeInv, NEW p \in Process, RecoverRuns(p)
    PROVE  OppositeInv'
<1>. USE DEF OppositeInv
<1>1. PICK stale \in SUBSET {r \in Slot : runs[r] = "RUNNING"} :
        /\ runs' = [r \in Slot |-> IF r \in stale THEN "FAILED" ELSE runs[r]]
        /\ lock' = IF lock \in stale THEN Nobody ELSE lock
    BY DEF RecoverRuns
<1>2. PICK c \in OppositeCalls : exec' = [exec EXCEPT ![p] = c] /\ c.pc = "abandon"
  <2>1. Moves(p, "abandon")
    BY DEF RecoverRuns
  <2>2. QED BY <2>1, StepIs
<1>3. UNCHANGED <<paper, rows>>
    BY DEF RecoverRuns
<1>4. /\ exec' \in [Process -> OppositeCalls] /\ exec'[p] = c
      /\ \A q \in Process : q # p => exec'[q] = exec[q]
    BY <1>2, CallTypes
<1>5. /\ runs' \in [Slot -> {"NEW", "RUNNING", "DONE", "FAILED"}]
      /\ \A s \in Slot : runs'[s] = runs[s] \/ runs'[s] = "FAILED"
      /\ lock' = lock \/ lock' = Nobody
    BY <1>1 DEF OppositeTypes
<1>6. \A s \in Slot : runs[s] # "NEW" => runs'[s] # "NEW" /\ (Owns(s)' => Owns(s))
    BY <1>5, OppositeAssumption DEF Owns
<1>7. OppositeTypes'
    BY <1>3, <1>4, <1>5 DEF OppositeTypes
<1>8. Undecided(p)' /\ VerdictOK(p)' /\ ~Busy(p)'
    BY <1>2, <1>4 DEF Undecided, VerdictOK, Busy
<1>9. CallsOK'
    BY <1>3, <1>4, <1>6, <1>8, CallStep
<1>10. QED BY <1>3, <1>7, <1>9, OrdersFrame

LEMMA AbandonIncompleteHolds ==
    ASSUME OppositeInv, NEW p \in Process, AbandonIncomplete(p)
    PROVE  OppositeInv'
<1>. USE DEF OppositeInv
<1>1. Moves(p, "idle") /\ Abandoned(Nobody) /\ UNCHANGED <<paper, runs, lock>>
    BY DEF AbandonIncomplete
<1>2. PICK c \in OppositeCalls : exec' = [exec EXCEPT ![p] = c] /\ c.pc = "idle"
    BY <1>1, StepIs
<1>3. /\ exec' \in [Process -> OppositeCalls] /\ exec'[p] = c
      /\ \A q \in Process : q # p => exec'[q] = exec[q]
    BY <1>2, CallTypes
<1>4. /\ rows' \in [Slot -> [close : BOOLEAN, decision : Decided]]
      /\ \A s \in Slot : Owns(s) /\ s # Nobody => rows'[s] = rows[s]
      /\ OrdersOK'
    BY <1>1, AbandonedRows
<1>5. OppositeTypes'
    BY <1>1, <1>3, <1>4 DEF OppositeTypes
<1>6. \A q \in Process : q # p /\ Busy(q) /\ Owns(exec[q].run)
                               /\ rows[exec[q].run].decision = <<>> =>
          rows'[exec[q].run].decision = <<>>
    BY <1>4, OppositeAssumption DEF CallsOK, BegunOK
<1>7. \A s \in Slot : runs[s] # "NEW" => runs'[s] # "NEW" /\ (Owns(s)' => Owns(s))
    BY <1>1 DEF Owns
<1>8. Undecided(p)' /\ VerdictOK(p)' /\ ~Busy(p)'
    BY <1>2, <1>3 DEF Undecided, VerdictOK, Busy
<1>9. CallsOK'
    BY <1>3, <1>6, <1>7, <1>8, CallStep
<1>10. QED BY <1>4, <1>5, <1>9

-----------------------------------------------------------------------------
LEMMA OppositeNextHolds ==
    ASSUME OppositeInv, [OppositeNext]_oppositeVars
    PROVE  OppositeInv'
<1>1. CASE UNCHANGED oppositeVars
  <2>1. OppositeTypes'
    BY <1>1 DEF OppositeInv, OppositeTypes, oppositeVars
  <2>2. CallsOK'
    BY <1>1 DEF OppositeInv, CallsOK, BegunOK, ApartOK, Undecided, VerdictOK, Busy, Owns, oppositeVars
  <2>3. OrdersOK'
    BY <1>1, OrdersFrame DEF OppositeInv, oppositeVars
  <2>4. QED BY <2>1, <2>2, <2>3 DEF OppositeInv
<1>2. CASE OthersWrite
    BY <1>2, OthersWriteHolds
<1>3. ASSUME NEW p \in Process,
             \/ \E r \in Slot : Begin(p, r)
             \/ Prior(p) \/ LoadClose(p) \/ SaveClose(p) \/ LoadReserve(p) \/ SaveReserve(p)
             \/ EndRun(p) \/ CallFails(p) \/ RecoverRuns(p) \/ AbandonIncomplete(p)
      PROVE  OppositeInv'
    BY <1>3, BeginHolds, PriorHolds, LoadCloseHolds, SaveCloseHolds, LoadReserveHolds,
       SaveReserveHolds, EndRunHolds, CallFailsHolds, RecoverRunsHolds, AbandonIncompleteHolds
<1>4. QED BY <1>1, <1>2, <1>3 DEF OppositeNext

\* Types, the calls under way and the orders of the decided runs, in every reachable state, for
\* any processes, runs and bounds: no run is worked on by two processes, and a call that still
\* has its run finds it undecided, whoever abandoned what in between (execute,
\* abandon_incomplete).
THEOREM OppositeInvariant ==
    OppositeSpec => []OppositeInv
<1>1. OppositeInit => OppositeInv
    BY InitHolds
<1>2. OppositeInv /\ [OppositeNext]_oppositeVars => OppositeInv'
    BY OppositeNextHolds
<1>3. QED BY <1>1, <1>2, PTL DEF OppositeSpec

\* A reversal that was abandoned after its close never opens an order, even if the process that
\* was taken for dead goes on; the run of a candidate has one decision, and a run an order only
\* with the decision that submitted it.
THEOREM AbandonedStaysFlatHolds ==
    OppositeSpec => []AbandonedStaysFlat
<1>1. OppositeInv => AbandonedStaysFlat
  <2> SUFFICES ASSUME OppositeInv, NEW r \in Slot
               PROVE  /\ r \notin Invalid => Len(rows[r].decision) <= 1
                      /\ paper.order[r] # "NONE" <=> rows[r].decision = <<"SUBMITTED">>
      BY DEF AbandonedStaysFlat
  <2>1. r \notin Invalid => rows[r].decision \in Once
    BY DEF OppositeInv, OrdersOK, OrderOK
  <2>2. \A d \in Once : Len(d) <= 1
    <3>1. Len(<<>>) = 0 /\ \A x : Len(<<x>>) = 1
        OBVIOUS
    <3>2. \A d \in Once : d = <<>> \/ \E x : d = <<x>>
        BY DEF Once
    <3>3. \A d \in Once : Len(d) = 0 \/ Len(d) = 1
        BY <3>1, <3>2
    <3>4. 0 <= 1 /\ 1 <= 1
        OBVIOUS
    <3>5. QED BY <3>3, <3>4, Zenon
  <2>3. OrderOK(r)
    BY DEF OppositeInv, OrdersOK
  <2>4. QED BY <2>1, <2>2, <2>3 DEF OrderOK
<1>2. QED BY <1>1, OppositeInvariant, PTL

-----------------------------------------------------------------------------
\* Each of the three takes its own steps or none.
LEMMA LimitsApart ==
    ASSUME [LimitsNext]_limitsVars
    PROVE  [LossNext]_lossVars /\ [ReserveNext]_reserveVars /\ [OppositeNext]_oppositeVars
BY DEF LimitsNext, limitsVars

\* No interleaving of entries, reversals, midnights, failed writes, takeovers and restarts puts
\* more at risk than the limits allow, for any constants: the references of the loss limits are
\* trading alone, a halt that is due holds, submissions never pass the risk limit together, a
\* run has one outcome and an abandoned reversal stays flat.
THEOREM RiskLimitsHold == LimitsSpec => []RiskLimitsKept
<1>1. LimitsSpec => LossSpec /\ ReserveSpec /\ OppositeSpec
  BY LimitsApart, PTL DEF LimitsSpec, LimitsInit, LossSpec, ReserveSpec, OppositeSpec
<1>2. ReferenceKept /\ HaltHolds /\ RiskWithinLimit /\ OneOutcomePerRun /\ AbandonedStaysFlat
        => RiskLimitsKept
  BY DEF RiskLimitsKept
<1> QED BY <1>1, <1>2, ReferenceKeptHolds, HaltHoldsAlways, RiskWithinLimitHolds, OneOutcomeHolds,
        AbandonedStaysFlatHolds, PTL
=============================================================================
