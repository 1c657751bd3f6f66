------------------------- MODULE PullbackTrade_proof -------------------------
(***************************************************************************)
(* Proofs about PullbackTrade, for any size of the order, week, GTD and    *)
(* bounds: the row and the broker agree on what is left while nothing was  *)
(* sent twice, no limit fills in the entry ban, and the stop only tightens.*)
(***************************************************************************)
EXTENDS PullbackTrade, SequenceTheorems, TLAPS

Sides == {"LONG", "SHORT"}
Partials == [kind : {"PARTIAL"}, stage : {"HALF", "ONE"}, units : {Third}, left : Int]
Stops == [kind : {"STOP"}, stage : {"TRAIL"}, stop : Int]
Marks == [kind : {"MARK"}, stage : {"TRAIL"}]
Plain == [kind : {"CANCEL", "CLOSE"}]
Steps == Partials \cup Stops \cup Marks \cup Plain
BrokerTrades == [state : {"none", "resting", "open", "gone", "closed"}, side : Sides, units : Int, stop : Int,
                 target : Int, filled : Nat, expires : Int, by : {"none", "partial", "close", "level"}]
TradeRows == [status : {"none", "PENDING_LIMIT", "OPEN", "CANCELLED", "CLOSED", "CLOSED_AT_BROKER"}, side : Sides,
              stage : {"NONE", "HALF", "ONE", "TRAIL"}, left : Int, stop : Int,
              action : {"none", "PARTIAL", "STOP", "CANCEL", "CLOSE"}, expires : Int, opened : Nat]
PullbackTypes ==
    /\ time \in Nat /\ px \in Int /\ trade \in BrokerTrades /\ row \in TradeRows
    /\ job \in Seq(Steps) /\ lost \in Steps \cup {NoRequest} /\ resent \in BOOLEAN

\* The units left at each stage of the scale-out; a stage is only reached by its partials.
LeftAt(stage) ==
    CASE stage = "NONE" -> Units
      [] stage = "HALF" -> Units - Third
      [] OTHER -> IF Third = 0 THEN Units
                  ELSE IF Units - 2 * Third >= 1 THEN Units - 2 * Third ELSE Units - Third
ScaledTo(stage, left) ==
    /\ left = LeftAt(stage)
    /\ stage = "HALF" => Third >= 1
    /\ stage = "ONE" => Third >= 1 /\ Units - 2 * Third >= 1

\* A step follows what is there before it: a partial takes a third and leaves some.
Follows(stage, left, step) ==
    \/ /\ step \in Partials /\ step.left = left - Third /\ CanPartial(left)
       /\ <<stage, step.stage>> \in {<<"NONE", "HALF">>, <<"HALF", "ONE">>}
    \/ step \in Stops \cup Marks /\ left = LeftAt("TRAIL")
    \/ step \in Plain
JobFollows(stage, left, j) ==
    /\ Len(j) > 0 => Follows(stage, left, j[1])
    /\ \A i \in 2..Len(j) : j[i - 1] \in Partials /\ j[i] \notin Plain /\ Follows(j[i - 1].stage, j[i - 1].left, j[i])

RowOK ==
    /\ ScaledTo(row.stage, row.left)
    /\ row.status = "none" => /\ trade.state = "none" /\ lost = NoRequest /\ job = <<>>
                              /\ row.action = "none" /\ row.left = Units
    /\ trade.state = "resting" => row.status = "PENDING_LIMIT"
    /\ trade.state = "open" => row.status \in {"PENDING_LIMIT", "OPEN"}
    /\ row.status = "PENDING_LIMIT" => row.action \in {"none", "CANCEL"}
JobOK ==
    /\ JobFollows(row.stage, row.left, job)
    /\ job # <<>> => row.action = "none" /\ (job[1].kind # "CANCEL" => row.status = "OPEN")

\* What is lost is what the row is latched on, and nothing happened since it was sent.
LostOK ==
    /\ trade.state \in {"none", "resting"} => lost.kind \in {"none", "CANCEL"}
    /\ ~resent /\ trade.state = "open" =>
         /\ lost.kind = "STOP" => /\ row.status = "OPEN" /\ row.action = "STOP"
                                  /\ ~Tighter(trade.side, trade.stop, lost.stop)
         /\ lost.kind = "PARTIAL" => /\ row.status = "OPEN" /\ row.action = "PARTIAL"
                                     /\ trade.units = row.left /\ CanPartial(row.left)
UnitsOK ==
    ~resent => /\ trade.by # "partial"
               /\ trade.state \in {"resting", "open"} /\ row.action # "PARTIAL" => trade.units = row.left
FillOK ==
    /\ trade.state = "resting" => \A t \in time..(trade.expires - 1) : ~InBan(t)
    /\ trade.state \in {"open", "closed"} => ~InBan(trade.filled)

PullbackInv == PullbackTypes /\ RowOK /\ JobOK /\ LostOK /\ UnitsOK /\ FillOK

-----------------------------------------------------------------------------
\* A third of the order, and thrice that is not more than the order.
LEMMA ThirdFacts == Third \in Nat /\ 3 * Third <= Units /\ Units \in Nat \ {0}
BY PullbackAssumption DEF Third

\* The kind of a step says what it carries.
LEMMA StepKinds ==
    ASSUME NEW s \in Steps
    PROVE  /\ s.kind \in {"PARTIAL", "STOP", "MARK", "CANCEL", "CLOSE"}
           /\ s.kind = "PARTIAL" <=> s \in Partials
           /\ s.kind = "STOP" <=> s \in Stops
           /\ s.kind = "MARK" <=> s \in Marks
           /\ s.kind \in {"CANCEL", "CLOSE"} <=> s \in Plain
           /\ s.kind # "none"
BY DEF Steps, Partials, Stops, Marks, Plain

\* Remainders: what is less than the divisor is the remainder of its sum with a multiple.
LEMMA ModOf == ASSUME NEW t \in Nat, NEW w \in Nat \ {0} PROVE t % w \in 0..(w - 1)
OBVIOUS
LEMMA DivOf ==
    ASSUME NEW t \in Nat, NEW w \in Nat \ {0} PROVE t \div w \in Nat /\ t = w * (t \div w) + (t % w)
OBVIOUS
LEMMA AtLeastOnce == ASSUME NEW x \in Int, NEW w \in Nat \ {0}, x >= 1 PROVE w * x >= w
OBVIOUS
LEMMA AtMostMinusOnce == ASSUME NEW x \in Int, NEW w \in Nat \ {0}, x <= -1 PROVE w * x <= -w
OBVIOUS
LEMMA Distributes == ASSUME NEW q \in Int, NEW p \in Int, NEW w \in Nat \ {0} PROVE w * (q - p) = w * q - w * p
OBVIOUS
LEMMA ModOfSum ==
    ASSUME NEW q \in Nat, NEW w \in Nat \ {0}, NEW k \in 0..(w - 1) PROVE (w * q + k) % w = k
<1> DEFINE t == w * q + k
           p == t \div w
           r == t % w
<1>1. t \in Nat  OBVIOUS
<1>2. p \in Nat /\ r \in 0..(w - 1) /\ t = w * p + r  BY <1>1, ModOf, DivOf
<1> HIDE DEF p, r
<1>3. w * q \in Nat /\ w * p \in Nat  BY <1>2
<1>4. w * (q - p) = r - k  BY <1>2, <1>3, Distributes
<1>5. q = p
  <2>1. q - p < 1  BY <1>2, <1>4, AtLeastOnce
  <2>2. q - p > -1  BY <1>2, <1>4, AtMostMinusOnce
  <2> QED  BY <1>2, <2>1, <2>2
<1>6. r = k  BY <1>2, <1>3, <1>5
<1> QED  BY <1>6 DEF r

\* The moments up to a limit's GTD are before the entry ban.
LEMMA ModFacts ==
    ASSUME NEW t \in Nat, NEW k \in 0..(Week - 1)
    PROVE  /\ t % Week \in 0..(Week - 1)
           /\ WeekStart(t) \in Nat
           /\ (WeekStart(t) + k) % Week = k
<1>1. t % Week \in 0..(Week - 1) /\ t \div Week \in Nat /\ t = Week * (t \div Week) + (t % Week)
  BY PullbackAssumption, ModOf, DivOf
<1>2. WeekStart(t) = Week * (t \div Week)
  <2>1. Week * (t \div Week) \in Nat  BY <1>1, PullbackAssumption
  <2> QED  BY <2>1, <1>1 DEF WeekStart
<1>3. WeekStart(t) \in Nat  BY <1>1, <1>2, PullbackAssumption
<1>4. (Week * (t \div Week) + k) % Week = k  BY <1>1, ModOfSum, PullbackAssumption
<1> QED  BY <1>1, <1>2, <1>3, <1>4

LEMMA ExpiryBeforeBan ==
    ASSUME NEW t \in Nat, ~InBan(t)
    PROVE  /\ LimitExpiry(t) \in Nat
           /\ \A u \in t..(LimitExpiry(t) - 1) : ~InBan(u)
<1> DEFINE w == WeekStart(t)
           m == t % Week
<1>1. m \in 0..(Week - 1) /\ w \in Nat /\ t = w + m
  <2>1. 0 \in 0..(Week - 1)  BY PullbackAssumption
  <2>2. m \in 0..(Week - 1) /\ w \in Nat  BY <2>1, ModFacts
  <2> QED  BY <2>2, PullbackAssumption DEF WeekStart
<1>2. LimitExpiry(t) \in Nat /\ LimitExpiry(t) <= w + BanFrom
  BY <1>1, PullbackAssumption DEF LimitExpiry, NextBan, InBan
<1>3. ASSUME NEW u \in t..(LimitExpiry(t) - 1) PROVE ~InBan(u)
  <2>0. PICK k \in Int : k = u - w
    BY <1>1, <1>2
  <2>1. k \in 0..(Week - 1) /\ k < BanFrom /\ u = w + k
    BY <1>1, <1>2, <2>0, PullbackAssumption
  <2>2. (w + k) % Week = k
    BY <2>1, ModFacts
  <2> QED  BY <2>1, <2>2, PullbackAssumption DEF InBan
<1> QED  BY <1>2, <1>3

-----------------------------------------------------------------------------
\* A trail stop is a price.
LEMMA TrailIsPrice == ASSUME NEW side \in Sides, NEW p \in Int PROVE TrailStop(side, p) \in Int
BY DEF TrailStop, R

\* Up to three steps one after the other.
LEMMA TwoSteps == ASSUME NEW x, NEW y PROVE <<x>> \o <<y>> = <<x, y>>
<1> DEFINE S == {x, y}
           s == <<x>> \o <<y>>
           t == <<x, y>>
<1>1. /\ <<x>> \in Seq(S) /\ Len(<<x>>) = 1 /\ <<x>>[1] = x
      /\ <<y>> \in Seq(S) /\ Len(<<y>>) = 1 /\ <<y>>[1] = y
      /\ t \in Seq(S) /\ Len(t) = 2 /\ t[1] = x /\ t[2] = y
  OBVIOUS
<1>2. s \in Seq(S) /\ Len(s) = 2 /\ s[1] = x /\ s[2] = y
  BY <1>1, ConcatProperties
<1> HIDE DEF s, t
<1>3. \A i \in 1..Len(s) : s[i] = t[i]
  BY <1>1, <1>2
<1> HIDE DEF S
<1>4. s = t
  BY <1>1, <1>2, <1>3, SeqEqual
<1> QED  BY <1>4 DEF s, t
LEMMA ThreeSteps == ASSUME NEW x, NEW y, NEW z PROVE <<x, y>> \o <<z>> = <<x, y, z>>
<1> DEFINE S == {x, y, z}
           r == <<x, y>>
           s == r \o <<z>>
           t == <<x, y, z>>
<1>1. /\ r \in Seq(S) /\ Len(r) = 2 /\ r[1] = x /\ r[2] = y
      /\ <<z>> \in Seq(S) /\ Len(<<z>>) = 1 /\ <<z>>[1] = z
      /\ t \in Seq(S) /\ Len(t) = 3 /\ t[1] = x /\ t[2] = y /\ t[3] = z
  OBVIOUS
<1> HIDE DEF r
<1>2. s \in Seq(S) /\ Len(s) = 3 /\ s[1] = x /\ s[2] = y /\ s[3] = z
  BY <1>1, ConcatProperties
<1> HIDE DEF s, t
<1>3. \A i \in 1..Len(s) : s[i] = t[i]
  BY <1>1, <1>2
<1> HIDE DEF S
<1>4. s = t
  BY <1>1, <1>2, <1>3, SeqEqual
<1> QED  BY <1>4 DEF r, s, t
LEMMA Concats ==
    ASSUME NEW x, NEW y, NEW z
    PROVE  /\ <<>> \o <<>> = <<>> /\ <<x>> \o <<>> = <<x>> /\ <<>> \o <<x>> = <<x>>
           /\ <<x>> \o <<y>> = <<x, y>> /\ <<x, y>> \o <<>> = <<x, y>> /\ <<x, y>> \o <<z>> = <<x, y, z>>
<1>1. <<>> \o <<>> = <<>> /\ <<x>> \o <<>> = <<x>> /\ <<>> \o <<x>> = <<x>> /\ <<x, y>> \o <<>> = <<x, y>>
  OBVIOUS
<1> QED  BY <1>1, TwoSteps, ThreeSteps

\* The steps that are due follow the row, each the one before it (management_steps).
LEMMA ManagementFollows ==
    ASSUME NEW side \in Sides, NEW stage \in {"NONE", "HALF", "ONE", "TRAIL"}, NEW left \in Int,
           NEW price \in Int, NEW stop \in Int, ScaledTo(stage, left),
           NEW j, j = ManagementSteps(side, stage, left, price, stop)
    PROVE  /\ j \in Seq(Partials \cup Stops \cup Marks)
           /\ JobFollows(stage, left, j)
<1> DEFINE new == TrailStop(side, price)
           half == stage = "NONE" /\ Reached(side, price, Level(side, 1)) /\ CanPartial(left)
           stage1 == IF half THEN "HALF" ELSE stage
           left1 == IF half THEN left - Third ELSE left
           one == stage1 = "HALF" /\ Reached(side, price, Level(side, R)) /\ CanPartial(left1)
           stage2 == IF one THEN "ONE" ELSE stage1
           left2 == IF one THEN left1 - Third ELSE left1
           ready == /\ Reached(side, price, Level(side, R))
                    /\ \/ stage2 = "ONE"
                       \/ stage2 = "NONE" /\ Third < 1
                       \/ stage2 = "HALF" /\ ~CanPartial(left2)
           stopStep == IF Tighter(side, new, stop) THEN [kind |-> "STOP", stage |-> "TRAIL", stop |-> new]
                       ELSE [kind |-> "MARK", stage |-> "TRAIL"]
           p1 == Partial("HALF", left1)
           p2 == Partial("ONE", left2)
           T == Partials \cup Stops \cup Marks
<1>1. new \in Int
  BY TrailIsPrice
<1>2. stopStep \in Stops \cup Marks /\ [kind |-> "STOP", stage |-> "TRAIL", stop |-> new] \in Stops
  BY <1>1 DEF Stops, Marks
<1>3. Third \in Nat /\ 3 * Third <= Units /\ Units \in Nat
  BY ThirdFacts
<1>4. CASE stage = "TRAIL"
  <2>1. left = LeftAt("TRAIL")
    BY <1>4 DEF ScaledTo
  <2>2. CASE Tighter(side, new, stop)
    <3> DEFINE s == [kind |-> "STOP", stage |-> "TRAIL", stop |-> new]
    <3>1. j = <<s>>
      BY <1>4, <2>2 DEF ManagementSteps
    <3>2. s \in Stops
      BY <1>2
    <3> HIDE DEF s
    <3> QED  BY <3>1, <3>2, <2>1 DEF JobFollows, Follows
  <2>3. CASE ~Tighter(side, new, stop)
    <3>1. j = <<>>
      BY <1>4, <2>3 DEF ManagementSteps
    <3> QED  BY <3>1 DEF JobFollows
  <2> QED  BY <2>2, <2>3
<1>5. CASE stage # "TRAIL"
  <2>1. j = (IF half THEN <<p1>> ELSE <<>>) \o (IF one THEN <<p2>> ELSE <<>>) \o (IF ready THEN <<stopStep>> ELSE <<>>)
    BY <1>5 DEF ManagementSteps
  <2>2. half => /\ p1 \in Partials /\ Follows(stage, left, p1) /\ p1.stage = "HALF" /\ p1.left = left1
                /\ p1 \notin Plain
    BY <1>3, <1>5 DEF Partial, Partials, Follows, Plain
  <2>3. ScaledTo(stage1, left1)
    BY <1>3, <1>5 DEF ScaledTo, LeftAt, CanPartial
  <2>4. one => /\ p2 \in Partials /\ Follows(stage1, left1, p2) /\ p2.stage = "ONE" /\ p2.left = left2
               /\ p2 \notin Plain
    BY <1>3, <1>5 DEF Partial, Partials, Follows, Plain
  <2>5. ScaledTo(stage2, left2)
    BY <2>3, <1>3, <1>5 DEF ScaledTo, LeftAt, CanPartial
  <2>6. ready => Follows(stage2, left2, stopStep) /\ stopStep \notin Plain
    <3>1. stopStep \notin Plain
      BY <1>2 DEF Stops, Marks, Plain
    <3>2. ready => left2 = LeftAt("TRAIL")
      BY <2>5, <1>3, <1>5 DEF ScaledTo, LeftAt, CanPartial
    <3> QED  BY <1>2, <3>1, <3>2 DEF Follows
  <2> HIDE DEF half, one, ready, p1, p2, stopStep
  <2>7. /\ ~half => stage1 = stage /\ left1 = left
        /\ half => stage1 = "HALF"
        /\ ~one => stage2 = stage1 /\ left2 = left1
        /\ one => stage2 = "ONE"
    OBVIOUS
  <2> HIDE DEF stage1, stage2, left1, left2
  <2>8. CASE half /\ one /\ ready
    <3>1. j = <<p1, p2, stopStep>>  BY <2>1, <2>8, Concats
    <3> QED  BY <3>1, <2>2, <2>4, <2>6, <2>7, <2>8, <1>2 DEF JobFollows
  <2>9. CASE half /\ one /\ ~ready
    <3>1. j = <<p1, p2>>  BY <2>1, <2>9, Concats
    <3> QED  BY <3>1, <2>2, <2>4, <2>7, <2>9 DEF JobFollows
  <2>10. CASE half /\ ~one /\ ready
    <3>1. j = <<p1, stopStep>>  BY <2>1, <2>10, Concats
    <3> QED  BY <3>1, <2>2, <2>6, <2>7, <2>10, <1>2 DEF JobFollows
  <2>11. CASE half /\ ~one /\ ~ready
    <3>1. j = <<p1>>  BY <2>1, <2>11, Concats
    <3> QED  BY <3>1, <2>2, <2>11 DEF JobFollows
  <2>12. CASE ~half /\ one /\ ready
    <3>1. j = <<p2, stopStep>>  BY <2>1, <2>12, Concats
    <3> QED  BY <3>1, <2>4, <2>6, <2>7, <2>12, <1>2 DEF JobFollows
  <2>13. CASE ~half /\ one /\ ~ready
    <3>1. j = <<p2>>  BY <2>1, <2>13, Concats
    <3> QED  BY <3>1, <2>4, <2>7, <2>13 DEF JobFollows
  <2>14. CASE ~half /\ ~one /\ ready
    <3>1. j = <<stopStep>>  BY <2>1, <2>14, Concats
    <3> QED  BY <3>1, <2>6, <2>7, <2>14, <1>2 DEF JobFollows
  <2>15. CASE ~half /\ ~one /\ ~ready
    <3>1. j = <<>>  BY <2>1, <2>15, Concats
    <3> QED  BY <3>1 DEF JobFollows
  <2> QED  BY <2>8, <2>9, <2>10, <2>11, <2>12, <2>13, <2>14, <2>15
<1> QED  BY <1>4, <1>5

-----------------------------------------------------------------------------
\* What a request that arrives may change at the broker.
LEMMA ArrivesFrame ==
    ASSUME NEW b \in BrokerTrades, NEW s \in Steps \cup {NoRequest}, NEW c, c = Arrives(s, b)
    PROVE  /\ c \in BrokerTrades
           /\ c.side = b.side /\ c.filled = b.filled /\ c.expires = b.expires
           /\ \/ c.state = b.state
              \/ b.state = "resting" /\ c.state = "gone"
              \/ b.state = "open" /\ c.state = "closed"
           /\ s.kind = "CANCEL" => c.state # "resting"
           /\ s.kind = "CLOSE" => c.state # "open"
           /\ c.state = "open" /\ s.kind # "STOP" => c.stop = b.stop
           /\ c.state = "open" /\ s.kind = "STOP" => c.stop = s.stop
           /\ s.kind # "PARTIAL" => c.units = b.units /\ (c.by = "partial" => b.by = "partial")
           /\ b.state = "open" /\ s.kind = "PARTIAL" /\ b.units > Third =>
                c.state = "open" /\ c.units = b.units - Third /\ c.by = b.by
           /\ b.state # "open" /\ s.kind # "CANCEL" => c = b
<1>1. NoRequest.kind = "none" /\ Third \in Nat
  BY ThirdFacts DEF NoRequest
<1>2. CASE s = NoRequest
  <2>1. c = b  BY <1>1, <1>2 DEF Arrives
  <2> QED  BY <2>1, <1>1, <1>2
<1>3. CASE s \in Steps
  <2>1. s.kind = "CANCEL" => c = IF b.state = "resting" THEN [b EXCEPT !.state = "gone"] ELSE b
    BY DEF Arrives
  <2>2. s.kind # "CANCEL" /\ b.state # "open" => c = b
    BY DEF Arrives
  <2>3. s.kind = "PARTIAL" /\ b.state = "open" =>
          /\ s.units = Third
          /\ c = IF s.units > b.units THEN b
                 ELSE IF s.units = b.units THEN [b EXCEPT !.state = "closed", !.by = "partial", !.units = 0]
                 ELSE [b EXCEPT !.units = b.units - s.units]
    BY <1>3, StepKinds DEF Arrives, Partials
  <2>4. s.kind = "STOP" /\ b.state = "open" => s.stop \in Int /\ c = [b EXCEPT !.stop = s.stop]
    BY <1>3, StepKinds DEF Arrives, Stops
  <2>5. s.kind = "CLOSE" /\ b.state = "open" => c = [b EXCEPT !.state = "closed", !.by = "close"]
    BY DEF Arrives
  <2>6. s.kind = "MARK" => c = b
    BY DEF Arrives
  <2>7. CASE s.kind = "CANCEL"  BY <2>1, <2>7 DEF BrokerTrades
  <2>8. CASE b.state # "open" /\ s.kind # "CANCEL"  BY <2>2, <2>8
  <2>9. CASE s.kind = "PARTIAL" /\ b.state = "open"
    <3>1. CASE s.units > b.units
      <4>1. c = b /\ ~(b.units > Third)  BY <1>1, <2>3, <2>9, <3>1 DEF BrokerTrades
      <4> QED  BY <4>1, <2>9
    <3>2. CASE s.units = b.units
      <4>1. ~(s.units > b.units) /\ ~(b.units > Third)  BY <1>1, <2>3, <2>9, <3>2 DEF BrokerTrades
      <4>2. c = [b EXCEPT !.state = "closed", !.by = "partial", !.units = 0]  BY <2>3, <2>9, <3>2, <4>1
      <4>3. /\ c \in BrokerTrades /\ c.side = b.side /\ c.filled = b.filled /\ c.expires = b.expires
            /\ c.state = "closed"
        <5>1. PICK z \in Int : z = 0
          OBVIOUS
        <5>2. c = [b EXCEPT !.state = "closed", !.by = "partial", !.units = z]
          BY <4>2, <5>1
        <5> QED  BY <5>2 DEF BrokerTrades
      <4> QED  BY <4>1, <4>3, <2>9
    <3>3. CASE ~(s.units > b.units) /\ s.units # b.units  BY <1>1, <2>3, <2>9, <3>3 DEF BrokerTrades
    <3> QED  BY <3>1, <3>2, <3>3
  <2>10. CASE s.kind = "STOP" /\ b.state = "open"  BY <2>4, <2>10 DEF BrokerTrades
  <2>11. CASE s.kind = "CLOSE" /\ b.state = "open"  BY <2>5, <2>11 DEF BrokerTrades
  <2>12. CASE s.kind = "MARK"  BY <2>6, <2>12
  <2> QED  BY <1>3, <2>7, <2>8, <2>9, <2>10, <2>11, <2>12, StepKinds
<1> QED  BY <1>2, <1>3

\* What a price may change at the broker.
LEMMA AtPriceFrame ==
    ASSUME NEW b \in BrokerTrades, NEW p \in Int, NEW t \in Nat, NEW c, c = AtPrice(b, p, t)
    PROVE  /\ c \in BrokerTrades
           /\ c.side = b.side /\ c.stop = b.stop /\ c.units = b.units /\ c.expires = b.expires
           /\ c.by \in {b.by, "level"}
           /\ \/ c = b
              \/ b.state = "resting" /\ c.state = "gone"
              \/ b.state = "resting" /\ t < b.expires /\ c.state = "open" /\ c.filled = t
              \/ b.state = "open" /\ c.state = "closed" /\ c.filled = b.filled
<1>1. CASE b.state = "resting"
  <2>1. c = IF t >= b.expires THEN [b EXCEPT !.state = "gone"]
            ELSE IF ~Tighter(b.side, p, 0) THEN [b EXCEPT !.state = "open", !.filled = t] ELSE b
    BY <1>1 DEF AtPrice
  <2>2. t >= b.expires \/ t < b.expires
    BY DEF BrokerTrades
  <2>3. CASE c = b  BY <2>3
  <2>4. CASE c = [b EXCEPT !.state = "gone"]  BY <1>1, <2>4 DEF BrokerTrades
  <2>5. CASE t < b.expires /\ c = [b EXCEPT !.state = "open", !.filled = t]  BY <1>1, <2>5 DEF BrokerTrades
  <2> QED  BY <2>1, <2>2, <2>3, <2>4, <2>5
<1>2. CASE b.state = "open"
  <2>1. c \in {b, [b EXCEPT !.state = "closed", !.by = "level"]}
    BY <1>2 DEF AtPrice
  <2> QED  BY <1>2, <2>1 DEF BrokerTrades
<1>3. CASE b.state \notin {"resting", "open"}
  BY <1>3 DEF AtPrice
<1> QED  BY <1>1, <1>2, <1>3

-----------------------------------------------------------------------------
\* Time and price: the broker carries out fill, stop, target and GTD.
LEMMA MarketMoves ==
    ASSUME PullbackInv, time' \in Nat, time' >= time, px' \in Int,
           trade' = AtPrice(trade, px', time') \/ trade' = trade, UNCHANGED <<row, job, lost, resent>>
    PROVE  PullbackInv' /\ StopTightens
<1> USE DEF PullbackInv, PullbackTypes
<1>1. /\ trade' \in BrokerTrades
      /\ trade'.side = trade.side /\ trade'.stop = trade.stop
      /\ trade'.units = trade.units /\ trade'.expires = trade.expires /\ trade'.by \in {trade.by, "level"}
      /\ \/ trade' = trade
         \/ trade.state = "resting" /\ trade'.state = "gone"
         \/ trade.state = "resting" /\ time' < trade.expires /\ trade'.state = "open" /\ trade'.filled = time'
         \/ trade.state = "open" /\ trade'.state = "closed" /\ trade'.filled = trade.filled
  BY AtPriceFrame
<1>2. PullbackTypes'  BY <1>1
<1>3. RowOK'  BY <1>1 DEF RowOK
<1>4. JobOK'  BY DEF JobOK
<1>5. LostOK'
  BY <1>1 DEF LostOK
<1>6. UnitsOK'  BY <1>1 DEF UnitsOK
<1>7. FillOK'
  <2>1. trade.expires \in Int /\ time \in Nat  BY DEF BrokerTrades
  <2>2. CASE trade' = trade  BY <1>1, <2>1, <2>2 DEF FillOK
  <2>3. CASE trade.state = "resting" /\ time' < trade.expires /\ trade'.state = "open" /\ trade'.filled = time'
    BY <2>1, <2>3 DEF FillOK
  <2> QED  BY <1>1, <2>2, <2>3 DEF FillOK
<1>8. StopTightens  BY <1>1 DEF StopTightens, Tighter, BrokerTrades
<1> QED  BY <1>2, <1>3, <1>4, <1>5, <1>6, <1>7, <1>8

\* A lost request arrives after all, or never.
LEMMA LostArrivesKeeps == ASSUME PullbackInv, LostArrives PROVE PullbackInv' /\ StopTightens
<1> USE DEF PullbackInv, PullbackTypes
<1> DEFINE c == Arrives(lost, trade)
<1>0. trade' = c \/ trade' = trade  BY DEF LostArrives
<1>k. lost.kind \in {"CANCEL", "CLOSE", "PARTIAL", "STOP", "MARK"} /\ lost \in Steps
  BY StepKinds DEF LostArrives
<1>1. CASE trade' = trade
  <2>1. lost' = NoRequest /\ NoRequest.kind = "none"  BY DEF LostArrives, NoRequest
  <2> QED  BY <1>1, <2>1 DEF LostArrives, RowOK, JobOK, LostOK, UnitsOK, FillOK, StopTightens, Tighter, BrokerTrades
<1>2. CASE trade' = c
  <2> HIDE DEF c
  <2>1. /\ lost' = NoRequest /\ NoRequest.kind = "none"
        /\ UNCHANGED <<time, px, row, job, resent>>
    BY DEF LostArrives, NoRequest
  <2>2. PullbackTypes'  BY <1>2, <1>k, <2>1, ArrivesFrame DEF c
  <2>3. RowOK'  BY <1>2, <1>k, <2>1, ArrivesFrame DEF c, RowOK
  <2>4. JobOK'  BY <2>1 DEF JobOK
  <2>5. LostOK'  BY <2>1 DEF LostOK
  <2>6. UnitsOK'
    <3>1. CASE lost.kind # "PARTIAL"
      BY <1>2, <1>k, <2>1, <3>1, ArrivesFrame DEF c, UnitsOK
    <3>2. CASE lost.kind = "PARTIAL" /\ trade.state # "open"
      BY <1>2, <1>k, <2>1, <3>2, ArrivesFrame DEF c, UnitsOK
    <3>3. CASE lost.kind = "PARTIAL" /\ trade.state = "open" /\ ~resent
      <4>1. row.action = "PARTIAL" /\ trade.units = row.left /\ row.left > Third
        BY <3>3, ThirdFacts DEF LostOK, CanPartial, TradeRows
      <4> QED  BY <1>2, <1>k, <2>1, <3>3, <4>1, ArrivesFrame DEF c, UnitsOK
    <3> QED  BY <2>1, <3>1, <3>2, <3>3 DEF UnitsOK
  <2>7. FillOK'  BY <1>2, <1>k, <2>1, ArrivesFrame DEF c, FillOK
  <2>8. StopTightens
    <3>1. CASE lost.kind = "STOP" /\ trade.state = "open" /\ ~resent
      BY <1>2, <1>k, <3>1, ArrivesFrame DEF c, LostOK, StopTightens
    <3>2. CASE lost.kind # "STOP"
      <4>1. trade.stop \in Int /\ (trade'.state = "open" => trade'.stop = trade.stop)
        BY <1>2, <1>k, <3>2, ArrivesFrame DEF c, BrokerTrades
      <4> QED  BY <4>1 DEF StopTightens, Tighter
    <3> QED  BY <3>1, <3>2 DEF StopTightens
  <2> QED  BY <2>2, <2>3, <2>4, <2>5, <2>6, <2>7, <2>8
<1> QED  BY <1>0, <1>1, <1>2

-----------------------------------------------------------------------------
\* The step that is sent next, and the steps after it.
LEMMA HeadStep ==
    ASSUME PullbackInv, job # <<>>
    PROVE  /\ Head(job) \in Steps /\ Follows(row.stage, row.left, Head(job))
           /\ row.action = "none" /\ (Head(job).kind # "CANCEL" => row.status = "OPEN")
           /\ Tail(job) \in Seq(Steps)
           /\ Head(job).kind # "PARTIAL" => Tail(job) = <<>>
           /\ Head(job).kind = "PARTIAL" =>
                /\ JobFollows(Head(job).stage, Head(job).left, Tail(job))
                /\ Tail(job) # <<>> => Tail(job)[1].kind # "CANCEL"
<1> USE DEF PullbackInv, PullbackTypes
<1>1. Head(job) = job[1] /\ job[1] \in Steps /\ Len(job) \in Nat /\ Len(job) > 0
  BY HeadTailProperties, EmptySeq, LenProperties
<1>2. /\ Tail(job) \in Seq(Steps) /\ Len(Tail(job)) = Len(job) - 1
      /\ \A i \in 1..Len(Tail(job)) : Tail(job)[i] = job[i + 1]
  BY <1>1, HeadTailProperties
<1> DEFINE n == Len(job)
           t == Tail(job)
<1>3. /\ Follows(row.stage, row.left, job[1])
      /\ \A i \in 2..n : job[i - 1] \in Partials /\ job[i] \notin Plain /\ Follows(job[i - 1].stage, job[i - 1].left, job[i])
      /\ row.action = "none" /\ (job[1].kind # "CANCEL" => row.status = "OPEN")
  BY <1>1 DEF JobOK, JobFollows
<1>4. job[1].kind # "PARTIAL" => t = <<>>
  <2>1. SUFFICES ASSUME job[1].kind # "PARTIAL" PROVE n = 1
    BY <1>1, <1>2, EmptySeq
  <2>2. job[1] \notin Partials
    BY <2>1, <1>1, StepKinds
  <2>3. n >= 2 => 2 \in 2..n /\ 2 - 1 = 1
    BY <1>1
  <2>4. n >= 2 => job[1] \in Partials
    BY <1>3, <2>3
  <2>5. n \in Nat /\ n > 0 /\ ~(n >= 2)
    BY <1>1, <2>2, <2>4
  <2> HIDE DEF n
  <2> QED  BY ONLY <2>5
<1>5. ASSUME job[1].kind = "PARTIAL"
      PROVE  JobFollows(job[1].stage, job[1].left, t) /\ (t # <<>> => t[1].kind # "CANCEL")
  <2>1. ASSUME Len(t) > 0 PROVE t[1] = job[2] /\ job[2] \notin Plain /\ Follows(job[1].stage, job[1].left, job[2]) /\ job[2] \in Steps
    <3>1. 1 \in 1..Len(t) /\ 2 \in 2..n /\ 2 - 1 = 1 /\ 1 + 1 = 2
      BY <2>1, <1>1, <1>2
    <3> QED  BY <3>1, <1>2, <1>3
  <2>2. ASSUME NEW i \in 2..Len(t)
        PROVE  t[i - 1] \in Partials /\ t[i] \notin Plain /\ Follows(t[i - 1].stage, t[i - 1].left, t[i])
    <3>1. /\ i \in 1..Len(t) /\ i - 1 \in 1..Len(t) /\ i + 1 \in 2..n
          /\ (i + 1) - 1 = i /\ (i - 1) + 1 = i
      BY <1>1, <1>2
    <3>2. t[i] = job[i + 1] /\ t[i - 1] = job[i]
      BY <3>1, <1>2
    <3> QED  BY <3>1, <3>2, <1>3
  <2>3. t # <<>> => Len(t) > 0
    BY <1>2, EmptySeq, LenProperties
  <2>4. Len(t) > 0 => t[1].kind # "CANCEL"
    BY <2>1, StepKinds
  <2> QED  BY <2>1, <2>2, <2>3, <2>4 DEF JobFollows
<1> QED  BY <1>1, <1>2, <1>3, <1>4, <1>5

\* What follows a partial holds of the row once the partial is saved.
LEMMA PartialScales ==
    ASSUME ScaledTo(row.stage, row.left), row \in TradeRows, NEW s \in Steps, s.kind = "PARTIAL",
           Follows(row.stage, row.left, s)
    PROVE  /\ ScaledTo(s.stage, s.left) /\ s.left = row.left - Third /\ row.left > Third
           /\ s.left \in Int /\ s.stage \in {"HALF", "ONE"}
<1>1. s \in Partials /\ s \notin Stops \cup Marks \cup Plain
  BY StepKinds
<1>2. /\ s.left = row.left - Third /\ CanPartial(row.left)
      /\ \/ row.stage = "NONE" /\ s.stage = "HALF"
         \/ row.stage = "HALF" /\ s.stage = "ONE"
  BY <1>1 DEF Follows
<1>3. row.left \in Int /\ s.left \in Int /\ s.stage \in {"HALF", "ONE"}
  BY <1>1 DEF TradeRows, Partials
<1> QED  BY <1>2, <1>3, ThirdFacts DEF ScaledTo, LeftAt, CanPartial

\* A step the broker carries out.
LEMMA SentArrives ==
    ASSUME PullbackInv, job # <<>>, NEW s, s = Head(job), s.kind # "MARK", ~Declined(s), NEW c, c = Arrives(s, trade)
    PROVE  /\ c \in BrokerTrades /\ c.side = trade.side
           /\ c.state \in {"open", "closed", "gone"}
           /\ c.state = "open" => trade.state = "open"
           /\ s.kind = "CANCEL" => c.state = "gone"
           /\ s.kind = "CLOSE" => c.state # "open"
           /\ c.state = "open" /\ trade.state = "open" => ~Tighter(trade.side, trade.stop, c.stop)
           /\ ~resent /\ c.state = "open" => lost.kind \notin {"STOP", "PARTIAL"}
           /\ ~resent => c.by # "partial"
           /\ ~resent /\ c.state = "open" =>
                c.units = IF s.kind = "PARTIAL" THEN row.left - Third ELSE row.left
           /\ c.state \in {"open", "closed"} => ~InBan(c.filled)
<1> USE DEF PullbackInv, PullbackTypes
<1>1. s \in Steps /\ Follows(row.stage, row.left, s) /\ row.action = "none" /\ (s.kind # "CANCEL" => row.status = "OPEN")
  BY HeadStep
<1>2. trade.state = IF s.kind = "CANCEL" THEN "resting" ELSE "open"
  BY DEF Declined
<1>3. /\ c \in BrokerTrades /\ c.side = trade.side /\ c.filled = trade.filled
      /\ \/ c.state = trade.state
         \/ trade.state = "resting" /\ c.state = "gone"
         \/ trade.state = "open" /\ c.state = "closed"
      /\ s.kind = "CANCEL" => c.state # "resting"
      /\ s.kind = "CLOSE" => c.state # "open"
      /\ c.state = "open" /\ s.kind # "STOP" => c.stop = trade.stop
      /\ c.state = "open" /\ s.kind = "STOP" => c.stop = s.stop
      /\ s.kind # "PARTIAL" => c.units = trade.units /\ (c.by = "partial" => trade.by = "partial")
      /\ trade.state = "open" /\ s.kind = "PARTIAL" /\ trade.units > Third =>
           c.state = "open" /\ c.units = trade.units - Third /\ c.by = trade.by
  <2>1. trade \in BrokerTrades /\ s \in Steps \cup {NoRequest}
    BY <1>1
  <2> QED  BY ONLY <2>1, c = Arrives(s, trade), ArrivesFrame
<1>4. c.state \in {"open", "closed", "gone"} /\ (c.state = "open" => trade.state = "open" /\ s.kind # "CANCEL")
  BY <1>2, <1>3
<1>5. s.kind = "CANCEL" => c.state = "gone"
  BY <1>2, <1>3
<1>6. ASSUME c.state = "open", trade.state = "open" PROVE ~Tighter(trade.side, trade.stop, c.stop)
  <2>1. CASE s.kind = "STOP"  BY <2>1, <1>3, <1>6 DEF Declined
  <2>2. CASE s.kind # "STOP"
    <3>1. c.stop = trade.stop /\ trade.stop \in Int  BY <2>2, <1>3, <1>6 DEF BrokerTrades
    <3> QED  BY <3>1 DEF Tighter
  <2> QED  BY <2>1, <2>2
<1>7. ~resent /\ c.state = "open" => lost.kind \notin {"STOP", "PARTIAL"}
  BY <1>1, <1>4 DEF LostOK
<1>8. ~resent => trade.units = row.left /\ trade.by # "partial"
  BY <1>1, <1>2 DEF UnitsOK
<1>9. s.kind = "PARTIAL" => row.left > Third
  BY <1>1, PartialScales DEF RowOK
<1>10. ~resent => /\ c.by # "partial"
                  /\ c.state = "open" => c.units = IF s.kind = "PARTIAL" THEN row.left - Third ELSE row.left
  BY <1>2, <1>3, <1>8, <1>9
<1>11. c.state \in {"open", "closed"} => ~InBan(c.filled)
  BY <1>2, <1>3 DEF FillOK
<1> QED  BY <1>3, <1>4, <1>5, <1>6, <1>7, <1>10, <1>11

-----------------------------------------------------------------------------
\* Nothing sent yet, or nothing left to send, follows any row.
LEMMA NoJob == ASSUME NEW stage, NEW left PROVE JobFollows(stage, left, <<>>) /\ <<>> \in Seq(Steps)
BY DEF JobFollows

\* A step is accepted: the broker has carried it out and the row is saved.
LEMMA AcceptedKeeps == ASSUME PullbackInv, Accepted PROVE PullbackInv' /\ StopTightens
<1> USE DEF PullbackInv, PullbackTypes
<1> DEFINE s == Head(job)
<1>1. /\ job # <<>> /\ (s.kind = "MARK" \/ ~Declined(s))
      /\ trade' = Arrives(s, trade) /\ row' = Saved(s) /\ job' = Tail(job)
      /\ UNCHANGED <<time, px, lost, faults, clears, resent>>
  BY DEF Accepted
<1>2. /\ s \in Steps /\ Follows(row.stage, row.left, s) /\ row.action = "none"
      /\ s.kind # "CANCEL" => row.status = "OPEN"
      /\ Tail(job) \in Seq(Steps)
      /\ s.kind # "PARTIAL" => Tail(job) = <<>>
      /\ s.kind = "PARTIAL" => /\ JobFollows(s.stage, s.left, Tail(job))
                               /\ Tail(job) # <<>> => Tail(job)[1].kind # "CANCEL"
  BY <1>1, HeadStep
<1> HIDE DEF s
<1>3. CASE s.kind = "MARK"
  <2>1. trade' = trade
    BY <1>1, <1>3 DEF Arrives
  <2>2. s \in Marks /\ s.stage = "TRAIL" /\ row.left = LeftAt("TRAIL")
    BY <1>2, <1>3, StepKinds DEF Marks, Follows, Partials, Stops, Plain
  <2>3. row' = [row EXCEPT !.stage = "TRAIL"]
    BY <1>1, <1>3, <2>2 DEF Saved
  <2>4. row' \in TradeRows /\ row'.stage = "TRAIL" /\ row'.left = row.left /\ row'.status = row.status
        /\ row'.action = row.action
    BY <2>3 DEF TradeRows
  <2>5. PullbackTypes'  BY <1>1, <1>2, <2>1, <2>4
  <2>6. RowOK'  BY <1>1, <1>2, <1>3, <2>1, <2>2, <2>4 DEF RowOK, ScaledTo, LeftAt
  <2>7. JobOK'  BY <1>1, <1>2, <1>3, <2>4, NoJob DEF JobOK
  <2>8. LostOK'  BY <1>1, <2>1, <2>4 DEF LostOK
  <2>9. UnitsOK'  BY <1>1, <2>1, <2>4 DEF UnitsOK
  <2>10. FillOK'  BY <1>1, <2>1 DEF FillOK
  <2>11. StopTightens
    <3>1. trade.stop \in Int  BY DEF BrokerTrades
    <3> QED  BY <2>1, <3>1 DEF StopTightens, Tighter
  <2> QED  BY <2>5, <2>6, <2>7, <2>8, <2>9, <2>10, <2>11
<1>4. CASE s.kind # "MARK"
  <2> DEFINE c == trade'
  <2>1. /\ c \in BrokerTrades /\ c.side = trade.side
        /\ c.state \in {"open", "closed", "gone"}
        /\ c.state = "open" => trade.state = "open"
        /\ s.kind = "CANCEL" => c.state = "gone"
        /\ s.kind = "CLOSE" => c.state # "open"
        /\ c.state = "open" /\ trade.state = "open" => ~Tighter(trade.side, trade.stop, c.stop)
        /\ ~resent /\ c.state = "open" => lost.kind \notin {"STOP", "PARTIAL"}
        /\ ~resent => c.by # "partial"
        /\ ~resent /\ c.state = "open" =>
             c.units = IF s.kind = "PARTIAL" THEN row.left - Third ELSE row.left
        /\ c.state \in {"open", "closed"} => ~InBan(c.filled)
    BY <1>1, <1>4, SentArrives DEF s
  <2> HIDE DEF c
  <2>2. s.kind \in {"PARTIAL", "STOP", "CANCEL", "CLOSE"}
    BY <1>2, <1>4, StepKinds
  <2>3. ~resent' => resent = FALSE
    BY <1>1
  \* What the row says after each kind of step.
  <2>4. /\ row' \in TradeRows /\ row'.action = "none" /\ row'.status # "none"
        /\ row'.left = IF s.kind = "PARTIAL" THEN row.left - Third ELSE row.left
        /\ ScaledTo(row'.stage, row'.left)
        /\ s.kind \in {"PARTIAL", "STOP"} => row'.status = "OPEN"
        /\ s.kind = "PARTIAL" => row'.stage = s.stage /\ row'.left = s.left
    <3>1. CASE s.kind = "PARTIAL"
      <4>1. /\ ScaledTo(s.stage, s.left) /\ s.left = row.left - Third
            /\ s.left \in Int /\ s.stage \in {"HALF", "ONE"}
        BY <1>2, <3>1, PartialScales DEF RowOK
      <4>2. row' = [row EXCEPT !.left = s.left, !.stage = s.stage]
        BY <1>1, <3>1 DEF Saved
      <4> QED  BY <1>2, <3>1, <4>1, <4>2 DEF TradeRows
    <3>2. CASE s.kind = "STOP"
      <4>1. s \in Stops /\ s.stage = "TRAIL" /\ s.stop \in Int /\ row.left = LeftAt("TRAIL")
        BY <1>2, <3>2, StepKinds DEF Stops, Follows, Partials, Plain, Marks
      <4>2. row' = [row EXCEPT !.stop = s.stop, !.stage = "TRAIL"]
        BY <1>1, <3>2, <4>1 DEF Saved
      <4>3. ScaledTo("TRAIL", row.left)
        BY <4>1 DEF ScaledTo
      <4> QED  BY <1>2, <3>2, <4>1, <4>2, <4>3 DEF TradeRows
    <3>3. CASE s.kind \in {"CANCEL", "CLOSE"}
      <4>1. row' \in {[row EXCEPT !.status = "CANCELLED"], [row EXCEPT !.status = "CLOSED"]}
        BY <1>1, <3>3 DEF Saved
      <4>2. ScaledTo(row.stage, row.left)
        BY DEF RowOK
      <4> QED  BY <1>2, <3>3, <4>1, <4>2 DEF TradeRows
    <3> QED  BY <2>2, <3>1, <3>2, <3>3
  <2>5. PullbackTypes'  BY <1>1, <1>2, <2>1, <2>4 DEF c
  <2>6. RowOK'  BY <1>1, <2>1, <2>2, <2>4 DEF RowOK, c
  <2>7. JobOK'  BY <1>1, <1>2, <2>2, <2>4, NoJob DEF JobOK
  <2>8. LostOK'  BY <1>1, <2>1, <2>3 DEF LostOK, c
  <2>9. UnitsOK'  BY <1>1, <2>1, <2>3, <2>4 DEF UnitsOK, c
  <2>10. FillOK'  BY <1>1, <2>1 DEF FillOK, c
  <2>11. StopTightens  BY <2>1 DEF StopTightens, c
  <2> QED  BY <2>5, <2>6, <2>7, <2>8, <2>9, <2>10, <2>11
<1> QED  BY <1>3, <1>4

\* Only the row, the job or the latch changes: the broker's side stays.
LEMMA StopStays == ASSUME trade \in BrokerTrades, trade' = trade PROVE StopTightens
<1>1. trade.stop \in Int  BY DEF BrokerTrades
<1> QED  BY <1>1 DEF StopTightens, Tighter

\* The broker refuses a step: the tick ends.
LEMMA RefusedKeeps == ASSUME PullbackInv, RefusedStep PROVE PullbackInv' /\ StopTightens
<1> USE DEF PullbackInv, PullbackTypes
<1>1. /\ job # <<>> /\ job' = <<>> /\ UNCHANGED <<time, px, trade, lost, resent>>
      /\ \/ row' = row
         \/ trade.state # "open" /\ Head(job).kind \notin {"STOP", "CANCEL"} /\ row' = [row EXCEPT !.status = "CLOSED_AT_BROKER"]
  BY DEF RefusedStep
<1>2. row.action = "none" /\ (Head(job).kind # "CANCEL" => row.status = "OPEN")
  BY <1>1, HeadStep
<1>3. /\ row' \in TradeRows /\ row'.stage = row.stage /\ row'.left = row.left /\ row'.action = row.action
      /\ \/ row'.status = row.status
         \/ row.status = "OPEN" /\ trade.state # "open" /\ row'.status = "CLOSED_AT_BROKER"
  BY <1>1, <1>2 DEF TradeRows
<1>4. PullbackTypes'  BY <1>1, <1>3, NoJob
<1>5. RowOK'  BY <1>1, <1>3 DEF RowOK
<1>6. JobOK'  BY <1>1, NoJob DEF JobOK
<1>7. LostOK'  BY <1>1, <1>3 DEF LostOK
<1>8. UnitsOK'  BY <1>1, <1>3 DEF UnitsOK
<1>9. FillOK'  BY <1>1 DEF FillOK
<1> QED  BY <1>1, <1>4, <1>5, <1>6, <1>7, <1>8, <1>9, StopStays

\* The answer is lost: the row is latched on the step.
LEMMA LostKeeps == ASSUME PullbackInv, Lost PROVE PullbackInv' /\ StopTightens
<1> USE DEF PullbackInv, PullbackTypes
<1> DEFINE s == Head(job)
<1>1. /\ job # <<>> /\ s.kind # "MARK" /\ ~Declined(s)
      /\ lost' = s /\ row' = [row EXCEPT !.action = s.kind] /\ job' = <<>>
      /\ UNCHANGED <<time, px, trade, resent>>
  BY DEF Lost, Latched
<1>2. /\ s \in Steps /\ Follows(row.stage, row.left, s) /\ row.action = "none"
      /\ s.kind # "CANCEL" => row.status = "OPEN"
  BY <1>1, HeadStep
<1>3. trade.state = IF s.kind = "CANCEL" THEN "resting" ELSE "open"
  BY <1>1 DEF Declined
<1>4. s.kind = "STOP" => ~Tighter(trade.side, trade.stop, s.stop)
  BY <1>1 DEF Declined
<1>5. s.kind = "PARTIAL" => CanPartial(row.left)
  BY <1>2, PartialScales, ThirdFacts DEF RowOK, CanPartial, Follows, Partials, Stops, Marks, Plain
<1> HIDE DEF s
<1>6. s.kind \in {"PARTIAL", "STOP", "CANCEL", "CLOSE"}
  BY <1>1, <1>2, StepKinds
<1>7. /\ row' \in TradeRows /\ row'.stage = row.stage /\ row'.left = row.left /\ row'.status = row.status
      /\ row'.action = s.kind
  BY <1>1, <1>6 DEF TradeRows
<1>8. PullbackTypes'  BY <1>1, <1>2, <1>7, NoJob
<1>9. RowOK'  BY <1>1, <1>2, <1>3, <1>6, <1>7 DEF RowOK
<1>10. JobOK'  BY <1>1, NoJob DEF JobOK
<1>11. LostOK'
  <2>1. ~resent => trade.units = row.left  BY <1>2, <1>3 DEF UnitsOK
  <2>2. (trade.state \in {"none", "resting"} => lost.kind \in {"none", "CANCEL"})'
    BY <1>1, <1>3
  <2>3. (lost.kind = "STOP" => /\ row.status = "OPEN" /\ row.action = "STOP"
                               /\ ~Tighter(trade.side, trade.stop, lost.stop))'
    BY <1>1, <1>2, <1>4, <1>7
  <2>4. (~resent /\ lost.kind = "PARTIAL" => /\ row.status = "OPEN" /\ row.action = "PARTIAL"
                                             /\ trade.units = row.left /\ CanPartial(row.left))'
    BY <1>1, <1>2, <1>5, <1>7, <2>1
  <2> QED  BY <2>2, <2>3, <2>4 DEF LostOK
<1>12. UnitsOK'  BY <1>1, <1>2, <1>7 DEF UnitsOK
<1>13. FillOK'  BY <1>1 DEF FillOK
<1> QED  BY <1>1, <1>8, <1>9, <1>10, <1>11, <1>12, <1>13, StopStays

\* The process dies: the step may have been carried out, and nothing says so.
LEMMA CrashKeeps == ASSUME PullbackInv, TradeCrash PROVE PullbackInv' /\ StopTightens
<1> USE DEF PullbackInv, PullbackTypes
<1> DEFINE s == Head(job)
<1>1. job # <<>> /\ job' = <<>> /\ UNCHANGED <<time, px, row, lost>>
  BY DEF TradeCrash
<1>2. row.action = "none" /\ (s.kind # "CANCEL" => row.status = "OPEN") /\ s \in Steps
  BY <1>1, HeadStep
<1>3. JobOK'  BY <1>1, NoJob DEF JobOK
<1>4. CASE UNCHANGED <<trade, resent>>
  <2>1. PullbackTypes'  BY <1>1, <1>4, NoJob
  <2>2. RowOK'  BY <1>1, <1>4 DEF RowOK
  <2>3. LostOK'  BY <1>1, <1>4 DEF LostOK
  <2>4. UnitsOK'  BY <1>1, <1>4 DEF UnitsOK
  <2>5. FillOK'  BY <1>1, <1>4 DEF FillOK
  <2> QED  BY <1>3, <1>4, <2>1, <2>2, <2>3, <2>4, <2>5, StopStays
<1>5. CASE /\ s.kind # "MARK" /\ ~Declined(s) /\ trade' = Arrives(s, trade)
           /\ resent' = (resent \/ s.kind = "PARTIAL")
  <2> DEFINE c == trade'
  <2>1. /\ c \in BrokerTrades /\ c.side = trade.side
        /\ c.state \in {"open", "closed", "gone"}
        /\ c.state = "open" => trade.state = "open"
        /\ c.state = "open" /\ trade.state = "open" => ~Tighter(trade.side, trade.stop, c.stop)
        /\ ~resent /\ c.state = "open" => lost.kind \notin {"STOP", "PARTIAL"}
        /\ ~resent => c.by # "partial"
        /\ ~resent /\ c.state = "open" =>
             c.units = IF s.kind = "PARTIAL" THEN row.left - Third ELSE row.left
        /\ c.state \in {"open", "closed"} => ~InBan(c.filled)
    BY <1>1, <1>5, SentArrives
  <2> HIDE DEF c, s
  <2>2. resent' \in BOOLEAN /\ (~resent' => ~resent /\ s.kind # "PARTIAL")
    BY <1>5
  <2>3. PullbackTypes'  BY <1>1, <2>1, <2>2, NoJob DEF c
  <2>4. RowOK'  BY <1>1, <1>2, <2>1 DEF RowOK, c
  <2>5. LostOK'  BY <1>1, <2>1, <2>2 DEF LostOK, c
  <2>6. UnitsOK'  BY <1>1, <2>1, <2>2 DEF UnitsOK, c
  <2>7. FillOK'  BY <1>1, <2>1 DEF FillOK, c
  <2>8. StopTightens  BY <2>1 DEF StopTightens, c
  <2> QED  BY <1>3, <2>3, <2>4, <2>5, <2>6, <2>7, <2>8
<1> QED  BY <1>4, <1>5 DEF TradeCrash

\* The operator releases the latch: of a partial or a stop, something may be sent again.
LEMMA ReleaseKeeps == ASSUME PullbackInv, ReleaseLatch PROVE PullbackInv' /\ StopTightens
<1> USE DEF PullbackInv, PullbackTypes
<1>1. /\ row.status = "OPEN" /\ row.action # "none"
      /\ resent' = (resent \/ row.action \in {"PARTIAL", "STOP"}) /\ row' = [row EXCEPT !.action = "none"]
      /\ UNCHANGED <<time, px, trade, job, lost>>
  BY DEF ReleaseLatch
<1>2. /\ row' \in TradeRows /\ row'.stage = row.stage /\ row'.left = row.left /\ row'.status = row.status
      /\ row'.action = "none"
  BY <1>1 DEF TradeRows
<1>3. resent' \in BOOLEAN /\ (~resent' => ~resent /\ row.action \notin {"PARTIAL", "STOP"})
  BY <1>1
<1>4. PullbackTypes'  BY <1>1, <1>2, <1>3
<1>5. RowOK'  BY <1>1, <1>2 DEF RowOK
<1>6. JobOK'  BY <1>1, <1>2 DEF JobOK
<1>7. LostOK'  BY <1>1, <1>2, <1>3 DEF LostOK
<1>8. UnitsOK'  BY <1>1, <1>2, <1>3 DEF UnitsOK
<1>9. FillOK'  BY <1>1 DEF FillOK
<1> QED  BY <1>1, <1>4, <1>5, <1>6, <1>7, <1>8, <1>9, StopStays

\* A tick reads the broker and lists the steps that are due.
LEMMA TickKeeps == ASSUME PullbackInv, Tick PROVE PullbackInv' /\ StopTightens
<1> USE DEF PullbackInv, PullbackTypes
<1>1. /\ row.status \in {"PENDING_LIMIT", "OPEN"} /\ job = <<>>
      /\ row' = RowRead /\ UNCHANGED <<time, px, trade, lost, resent>>
  BY DEF Tick
<1>2. PICK quoted \in BOOLEAN : job' = Work(row', quoted)
  BY DEF Tick
<1>3. /\ row' \in TradeRows /\ row'.stage = row.stage /\ row'.left = row.left
      /\ \/ row' = row
         \/ /\ row.status = "PENDING_LIMIT" /\ trade.state = "open"
            /\ row'.status = "OPEN" /\ row'.action = "none"
         \/ /\ trade.state \in {"closed", "gone"} /\ row'.action \in {"none", row.action}
            /\ row'.status \in {"CLOSED", "CLOSED_AT_BROKER", "CANCELLED"}
  <2>1. CASE row.status = "PENDING_LIMIT" /\ trade.state = "open"
    <3>1. row' = [row EXCEPT !.status = "OPEN", !.opened = trade.filled, !.action = "none"]
      BY <1>1, <2>1 DEF RowRead
    <3>2. trade.filled \in Nat  BY DEF BrokerTrades
    <3> QED  BY <2>1, <3>1, <3>2 DEF TradeRows
  <2>2. CASE row.status = "PENDING_LIMIT" /\ trade.state = "closed"
    <3>1. row' = [row EXCEPT !.status = "CLOSED_AT_BROKER"]
      BY <1>1, <2>2 DEF RowRead
    <3> QED  BY <2>2, <3>1 DEF TradeRows
  <2>3. CASE row.status = "PENDING_LIMIT" /\ trade.state = "gone"
    <3>1. row' = [row EXCEPT !.status = "CANCELLED"]
      BY <1>1, <2>3 DEF RowRead
    <3> QED  BY <2>3, <3>1 DEF TradeRows
  <2>4. CASE row.status = "OPEN" /\ trade.state = "closed"
    <3>1. PICK to \in {"CLOSED", "CLOSED_AT_BROKER"} : row' = [row EXCEPT !.status = to, !.action = "none"]
      BY <1>1, <2>4 DEF RowRead
    <3> QED  BY <2>4, <3>1 DEF TradeRows
  <2>5. CASE /\ ~(row.status = "PENDING_LIMIT" /\ trade.state \in {"open", "closed", "gone"})
             /\ ~(row.status = "OPEN" /\ trade.state = "closed")
    <3>1. row' = row
      BY <1>1, <2>5 DEF RowRead
    <3> QED  BY <3>1
  <2> QED  BY <1>1, <2>1, <2>2, <2>3, <2>4, <2>5
<1>4. ScaledTo(row'.stage, row'.left)
  BY <1>3 DEF RowOK
<1>5. /\ job' \in Seq(Steps) /\ JobFollows(row'.stage, row'.left, job')
      /\ job' # <<>> => row'.action = "none" /\ (job'[1].kind # "CANCEL" => row'.status = "OPEN")
  <2> DEFINE cancel == [kind |-> "CANCEL"]
             close == [kind |-> "CLOSE"]
             m == ManagementSteps(row'.side, row'.stage, row'.left, px, row'.stop)
  <2>1. \/ job' = <<>>
        \/ row'.action = "none" /\ job' = <<cancel>>
        \/ row'.action = "none" /\ row'.status = "OPEN" /\ job' = <<close>>
        \/ row'.action = "none" /\ row'.status = "OPEN" /\ job' = m
    BY <1>1, <1>2 DEF Work, FridayClose
  <2>2. cancel \in Plain /\ close \in Plain /\ cancel.kind = "CANCEL"
    BY DEF Plain
  <2>3. m \in Seq(Partials \cup Stops \cup Marks) /\ JobFollows(row'.stage, row'.left, m)
    <3>1. /\ row'.side \in Sides /\ row'.stage \in {"NONE", "HALF", "ONE", "TRAIL"} /\ row'.left \in Int
          /\ row'.stop \in Int
      BY <1>3 DEF TradeRows
    <3> QED  BY <1>4, <3>1, ManagementFollows
  <2>4. m \in Seq(Steps)
    BY <2>3 DEF Steps
  <2> HIDE DEF cancel, close, m
  <2>5. \A p \in Plain : <<p>> \in Seq(Steps) /\ JobFollows(row'.stage, row'.left, <<p>>)
    BY DEF JobFollows, Follows, Steps
  <2>6. CASE job' = <<>>  BY <2>6, NoJob
  <2>7. CASE row'.action = "none" /\ job' = <<cancel>>
    <3>1. job'[1] = cancel  BY <2>7
    <3> QED  BY <2>2, <2>5, <2>7, <3>1
  <2>8. CASE row'.action = "none" /\ row'.status = "OPEN" /\ job' = <<close>>  BY <2>2, <2>5, <2>8
  <2>9. CASE row'.action = "none" /\ row'.status = "OPEN" /\ job' = m  BY <2>3, <2>4, <2>9
  <2> QED  BY <2>1, <2>6, <2>7, <2>8, <2>9
<1>6. PullbackTypes'  BY <1>1, <1>3, <1>5
<1>7. RowOK'  BY <1>1, <1>3, <1>4, <1>5 DEF RowOK
<1>8. JobOK'  BY <1>5 DEF JobOK
<1>9. LostOK'  BY <1>1, <1>3 DEF LostOK
<1>10. UnitsOK'  BY <1>1, <1>3 DEF UnitsOK, RowOK
<1>11. FillOK'  BY <1>1 DEF FillOK
<1> QED  BY <1>1, <1>6, <1>7, <1>8, <1>9, <1>10, <1>11, StopStays

\* A limit is placed: the plan's stop and target around it, and a GTD before the ban.
LEMMA RouteKeeps == ASSUME PullbackInv, RouteLimit PROVE PullbackInv' /\ StopTightens
<1> USE DEF PullbackInv, PullbackTypes
<1>1. row.status = "none" /\ ~InBan(time) /\ UNCHANGED <<time, job, lost, resent>>
  BY DEF RouteLimit
<1>2. /\ trade.state = "none" /\ lost = NoRequest /\ job = <<>> /\ row.action = "none" /\ row.left = Units
      /\ ScaledTo(row.stage, row.left)
  BY <1>1 DEF RowOK
<1>3. PICK side \in Sides, trend \in Trends, structural \in {-3, -1, 0, 1, 3} :
        LET plan == PlanPullback(side, trend, structural)
            expires == LimitExpiry(time)
        IN  /\ plan.why = "ok"
            /\ px' = Level(side, Offset)
            /\ trade' = [trade EXCEPT !.state = "resting", !.side = side, !.units = Units, !.stop = plan.stop,
                                      !.target = plan.target, !.expires = expires]
            /\ row' = [row EXCEPT !.status = "PENDING_LIMIT", !.side = side, !.stop = plan.stop, !.expires = expires]
  BY DEF RouteLimit, Sides
<1> DEFINE plan == PlanPullback(side, trend, structural)
           e == LimitExpiry(time)
<1>4. \A n \in Int : Level(side, n) \in Int
  BY DEF Level
<1>5. plan.stop \in Int /\ plan.target \in Int
  <2>1. plan \in {[why |-> "h1_no_data"], [why |-> "trend_flat"], [why |-> "trend_filter"], LimitLevels(side, structural)}
    BY DEF PlanPullback, Trends, Sides
  <2>2. plan = LimitLevels(side, structural)
    BY <1>3, <2>1
  <2>3. plan = [why |-> "ok", stop |-> Level(side, -R), target |-> Level(side, 2 * R)]
    BY <1>3, <2>2 DEF LimitLevels
  <2>4. -R \in Int /\ 2 * R \in Int
    BY DEF R
  <2> QED  BY <1>4, <2>3, <2>4
<1>6. e \in Nat /\ \A u \in time..(e - 1) : ~InBan(u)
  BY <1>1, ExpiryBeforeBan
<1>7. px' \in Int
  BY <1>3, <1>4 DEF Offset
<1> HIDE DEF plan, e
<1>8. /\ trade' = [trade EXCEPT !.state = "resting", !.side = side, !.units = Units, !.stop = plan.stop,
                                !.target = plan.target, !.expires = e]
      /\ row' = [row EXCEPT !.status = "PENDING_LIMIT", !.side = side, !.stop = plan.stop, !.expires = e]
  BY <1>3 DEF plan, e
<1>9. /\ trade' \in BrokerTrades /\ trade'.state = "resting" /\ trade'.units = Units /\ trade'.expires = e
      /\ trade'.by = trade.by
  <2>1. PICK st \in Int, tg \in Int, x \in Int, u \in Int : st = plan.stop /\ tg = plan.target /\ x = e /\ u = Units
    BY <1>5, <1>6, ThirdFacts
  <2>2. trade' = [trade EXCEPT !.state = "resting", !.side = side, !.units = u, !.stop = st, !.target = tg, !.expires = x]
    BY <1>8, <2>1
  <2> QED  BY <2>1, <2>2 DEF BrokerTrades
<1>10. /\ row' \in TradeRows /\ row'.status = "PENDING_LIMIT" /\ row'.stage = row.stage /\ row'.left = row.left
       /\ row'.action = row.action
  <2>1. PICK st \in Int, x \in Int : st = plan.stop /\ x = e
    BY <1>5, <1>6
  <2>2. row' = [row EXCEPT !.status = "PENDING_LIMIT", !.side = side, !.stop = st, !.expires = x]
    BY <1>8, <2>1
  <2> QED  BY <2>1, <2>2 DEF TradeRows
<1>11. PullbackTypes'  BY <1>1, <1>7, <1>9, <1>10
<1>12. RowOK'  BY <1>1, <1>2, <1>9, <1>10 DEF RowOK
<1>13. JobOK'  BY <1>1, <1>2, NoJob DEF JobOK
<1>14. LostOK'  BY <1>1, <1>2, <1>9 DEF LostOK, NoRequest
<1>15. UnitsOK'  BY <1>1, <1>2, <1>9, <1>10 DEF UnitsOK
<1>16. FillOK'  BY <1>1, <1>6, <1>9 DEF FillOK
<1>17. StopTightens  BY <1>2 DEF StopTightens
<1> QED  BY <1>11, <1>12, <1>13, <1>14, <1>15, <1>16, <1>17

-----------------------------------------------------------------------------
LEMMA PullbackStarts == ASSUME PullbackInit PROVE PullbackInv
<1> USE DEF PullbackInit
<1>1. time \in Nat /\ px \in Int /\ job \in Seq(Steps) /\ lost = NoRequest /\ resent = FALSE
  BY PullbackAssumption, NoJob
<1>2. trade \in BrokerTrades
  BY DEF BrokerTrades, Sides
<1>3. row \in TradeRows
  BY ThirdFacts DEF TradeRows, Sides
<1>4. PullbackTypes  BY <1>1, <1>2, <1>3 DEF PullbackTypes
<1>5. RowOK  BY ThirdFacts DEF RowOK, ScaledTo, LeftAt
<1>6. JobOK  BY NoJob DEF JobOK
<1>7. LostOK  BY DEF LostOK, NoRequest
<1>8. UnitsOK  BY DEF UnitsOK
<1>9. FillOK  BY DEF FillOK
<1> QED  BY <1>4, <1>5, <1>6, <1>7, <1>8, <1>9 DEF PullbackInv

LEMMA PullbackStep == ASSUME PullbackInv, [PullbackNext]_pullbackVars PROVE PullbackInv' /\ StopTightens
<1>1. CASE PriceMoves
  <2>1. /\ time' = time /\ px' \in Int /\ time \in Nat /\ trade' = AtPrice(trade, px', time')
        /\ UNCHANGED <<row, job, lost, resent>>
    BY <1>1 DEF PriceMoves, PullbackInv, PullbackTypes
  <2>2. time' \in Nat /\ time' >= time
    BY <2>1
  <2> QED  BY <2>1, <2>2, MarketMoves
<1>2. CASE TickPasses
  <2>1. /\ time' = time + 1 /\ px' = px /\ px \in Int /\ time \in Nat
        /\ trade' = AtPrice(trade, px', time') \/ trade' = trade
        /\ UNCHANGED <<row, job, lost, resent>>
    BY <1>2 DEF TickPasses, PullbackInv, PullbackTypes
  <2>2. time' \in Nat /\ time' >= time
    BY <2>1
  <2> QED  BY <2>1, <2>2, MarketMoves
<1>3. CASE UNCHANGED pullbackVars
  <2>1. UNCHANGED <<time, px, trade, row, job, lost, resent>>
    BY <1>3 DEF pullbackVars
  <2>2. PullbackInv'
    BY <2>1 DEF PullbackInv, PullbackTypes, RowOK, JobOK, LostOK, UnitsOK, FillOK
  <2> QED  BY <2>1, <2>2, StopStays DEF PullbackInv, PullbackTypes
<1>4. CASE PullbackNext /\ ~PriceMoves /\ ~TickPasses
  BY <1>4, LostArrivesKeeps, RouteKeeps, TickKeeps, AcceptedKeeps, RefusedKeeps, LostKeeps, CrashKeeps, ReleaseKeeps
     DEF PullbackNext
<1> QED  BY <1>1, <1>2, <1>3, <1>4

\* The row, the steps of a tick, what is lost and the broker agree (PullbackInv).
THEOREM PullbackInvariant == PullbackSpec => []PullbackInv
<1>1. PullbackInit => PullbackInv  BY PullbackStarts
<1>2. PullbackInv /\ [PullbackNext]_pullbackVars => PullbackInv'  BY PullbackStep
<1> QED  BY <1>1, <1>2, PTL DEF PullbackSpec

\* While no partial was sent twice, the row and the broker agree on what is left, the
\* partials never close the trade, and no limit fills in the entry ban.
THEOREM ScaledByThirdsHolds == PullbackSpec => []ScaledByThirds
<1>1. PullbackInv => ScaledByThirds
  BY DEF PullbackInv, ScaledByThirds, UnitsOK, RowOK, ScaledTo, LeftAt, FillOK, PullbackTypes, TradeRows
<1> QED  BY <1>1, PullbackInvariant, PTL

\* Unless the operator released a stop that may still arrive, the stop only tightens.
THEOREM StopOnlyTightensHolds == PullbackSpec => StopOnlyTightens
<1>1. PullbackInv /\ [PullbackNext]_pullbackVars => [StopTightens]_pullbackVars  BY PullbackStep
<1> QED  BY <1>1, PullbackInvariant, PTL DEF PullbackSpec, StopOnlyTightens
=============================================================================
