---------------------------- MODULE DemoReadCache ----------------------------
(* The dashboard's read-only view of the OANDA demo account:                    *)
(* execution/oanda_readonly.py (one read of CLOSED and OPEN trades under a      *)
(* deadline, the account summary, and the two TTL caches shared by every        *)
(* session), ui/demo_refresher.py (the background producer) and                 *)
(* ui/floor_cache.py (the Floor, which only peeks).                             *)
(*                                                                              *)
(* Trades open and close at the broker at any moment, also between the two GETs *)
(* of one read.  An exhausted page cap, an auth refusal and a network failure   *)
(* are all "the read failed"; a retried attempt leaves nothing behind.          *)
EXTENDS Integers, FiniteSets, TLC

CONSTANTS
    Session,      \* dashboard sessions
    Trade,        \* trades of the demo epoch
    Ttl,          \* CACHE_TTL_SECONDS
    FailureTtl,   \* TRADES_FAILURE_TTL_SECONDS
    StaleMax,     \* TRADES_STALE_MAX_SECONDS
    Deadline,     \* TRADES_REFRESH_DEADLINE_SECONDS, also how long a waiter waits
    Interval,     \* INTERVAL_SECONDS of the producer
    Backoff,      \* BACKOFF_SECONDS
    FailuresBeforeBackoff,
    MaxClock,     \* bound: the clock
    MaxStarts     \* bound: starts of the producer

ASSUME DemoAssumption == {Ttl, FailureTtl, StaleMax, Deadline} \subseteq Nat /\ FailureTtl <= Ttl

VARIABLES
    clock,
    broker,     \* state of each trade at OANDA
    cache,      \* the entry, the last good read and the refresh in flight of each cache
    thread,     \* where each session, and the producer, is
    producer,   \* the producer's loop: stop event, trades read fine, failures in a row, end of the sleep, starts
    handed,     \* what the last step handed to a caller
    ends        \* end times of the last two trades refreshes

demoVars == <<clock, broker, cache, thread, producer, handed, ends>>

Trades == "_TRADES"
Views == "_VIEWS"
Caches == {Trades, Views}
Refresher == "refresher"
Threads == Session \cup {Refresher}

Existing == {t \in Trade : broker[t] # "none"}
In(state) == {t \in Trade : broker[t] = state}

Failure == [usable |-> FALSE, stale |-> FALSE, read |-> 0, closed |-> {}, open |-> {}, asked |-> {}]
Idle == [pc |-> "idle", c |-> Trades, until |-> 0, closed |-> {}, asked |-> {}]

DemoInit ==
    /\ clock = 0
    /\ broker = [t \in Trade |-> "none"]
    /\ cache = [c \in Caches |-> [entry |-> {}, good |-> {}, inflight |-> FALSE, lastOk |-> TRUE]]
    /\ thread = [t \in Threads |-> [Idle EXCEPT !.pc = IF t = Refresher THEN "off" ELSE "idle"]]
    /\ producer = [stop |-> FALSE, fine |-> TRUE, failures |-> 0, until |-> 0, starts |-> 0]
    /\ handed = {}
    /\ ends = <<-FailureTtl, -FailureTtl>>

(* The account is somebody else's: trades open, and close.                      *)
BrokerMoves ==
    \E t \in Trade :
        /\ broker[t] # "closed"
        /\ broker' = [broker EXCEPT ![t] = IF @ = "none" THEN "open" ELSE "closed"]
        /\ handed' = {}
        /\ UNCHANGED <<clock, cache, thread, producer, ends>>

Tick ==
    /\ clock < MaxClock
    /\ clock' = clock + 1
    /\ handed' = {}
    /\ UNCHANGED <<broker, cache, thread, producer, ends>>

---------------------------------------------------------------------------
(* Defect: the fallback looks like a current read.                              *)
Fallback_Unmarked(good) == good.result

(* The last good read, marked, with its own time.                               *)
Fallback(good) == [good.result EXCEPT !.stale = TRUE]

(* CachedDemoTrades._expired: a fallback is too old.                            *)
Expired(c, e) ==
    c = Trades /\ e.result.stale /\ \A g \in cache[c].good : clock - g.at > StaleMax

(* What a caller does with what it was handed: a session is done; the producer  *)
(* reads the account view after the trades, then sleeps, longer after repeated  *)
(* failures (refresh_once, run).  `all` is the thread table to go on from.      *)
Fine(r) == r.usable /\ ~r.stale

Hand(all, t, c, r, waited, lastOk) ==
    LET failures == IF producer.fine /\ Fine(r) THEN 0 ELSE producer.failures + 1
        goesTo == IF t # Refresher THEN "idle" ELSE IF c = Trades THEN "view" ELSE "sleep"
    IN  /\ handed' = {[c |-> c, result |-> r, waited |-> waited, lastOk |-> lastOk]}
        /\ thread' = [all EXCEPT ![t] = [Idle EXCEPT !.pc = goesTo]]
        /\ producer' =
              CASE goesTo = "idle" -> producer
              []   goesTo = "view" -> [producer EXCEPT !.fine = Fine(r)]
              []   goesTo = "sleep" ->
                       [producer EXCEPT !.failures = failures,
                          !.until = clock + IF failures >= FailuresBeforeBackoff THEN Backoff ELSE Interval]

(* Defect: the previous value stops nobody from reading again.                  *)
Owner_Each(c) == TRUE

(* Only one caller refreshes.                                                   *)
Owner(c) == ~cache[c].inflight

(* CachedDemoTrades.get, CachedAccountViews.get up to the unlock.               *)
Get(t, c) ==
    LET live == {e \in cache[c].entry : ~Expired(c, e)}
        fresh == {e \in live : clock - e.at < Ttl}
        serve(e) == /\ Hand(thread, t, c, e.result, FALSE, cache[c].lastOk)
                    /\ UNCHANGED <<clock, broker, cache, ends>>
    IN  IF fresh # {} THEN \E e \in fresh : serve(e)
        ELSE IF Owner(c)
        THEN /\ cache' = [cache EXCEPT ![c].inflight = TRUE]
             /\ thread' = [thread EXCEPT ![t] =
                              [pc |-> IF c = Trades THEN "closed" ELSE "summary", c |-> c,
                               until |-> clock + Deadline, closed |-> {}, asked |-> Existing]]
             /\ handed' = {}
             /\ UNCHANGED <<clock, broker, producer, ends>>
        ELSE IF live # {} THEN \E e \in live : serve(e)
        ELSE /\ thread' = [thread EXCEPT ![t] = [Idle EXCEPT !.pc = "waiting", !.c = c, !.until = clock + Deadline]]
             /\ handed' = {}
             /\ UNCHANGED <<clock, broker, cache, producer, ends>>

SessionGet == \E t \in Session, c \in Caches : thread[t].pc = "idle" /\ Get(t, c)

(* The end of a refresh, under the lock: the entry, the last good read, and the *)
(* event that wakes the waiters.                                                *)
EndFetch(t, r) ==
    LET c == thread[t].c
        kept == {g \in cache[c].good : c = Views \/ clock - g.at <= StaleMax}
        out == IF r.usable THEN r
               ELSE IF kept # {} THEN Fallback(CHOOSE g \in kept : TRUE) ELSE r
        at == IF r.usable \/ c = Views THEN clock ELSE clock - (Ttl - FailureTtl)
        awake == [w \in Threads |-> IF thread[w].pc = "waiting" /\ thread[w].c = c
                                    THEN [thread[w] EXCEPT !.pc = "woken"] ELSE thread[w]]
    IN  /\ cache' = [cache EXCEPT ![c] =
                        [entry |-> {[at |-> at, result |-> out]},
                         good |-> IF r.usable THEN {[at |-> clock, result |-> r]} ELSE @.good,
                         inflight |-> FALSE, lastOk |-> r.usable]]
        /\ ends' = IF c = Trades THEN <<ends[2], clock>> ELSE ends
        /\ Hand(awake, t, c, out, FALSE, r.usable)
        /\ UNCHANGED <<clock, broker>>

(* demo_trades: CLOSED first, then OPEN, both before the deadline.              *)
ReadClosed ==
    \E t \in Threads :
        /\ thread[t].pc = "closed" /\ clock <= thread[t].until
        /\ thread' = [thread EXCEPT ![t].pc = "open", ![t].closed = In("closed")]
        /\ handed' = {}
        /\ UNCHANGED <<clock, broker, cache, producer, ends>>

(* Defect: the trades closed so far are read again with the open ones.          *)
ReadOpen_Both ==
    \E t \in Threads :
        /\ thread[t].pc = "open" /\ clock <= thread[t].until
        /\ EndFetch(t, [usable |-> TRUE, stale |-> FALSE, read |-> clock, closed |-> In("closed"),
                        open |-> thread[t].asked \ thread[t].closed, asked |-> thread[t].asked])

ReadOpen ==
    \E t \in Threads :
        /\ thread[t].pc = "open" /\ clock <= thread[t].until
        /\ EndFetch(t, [usable |-> TRUE, stale |-> FALSE, read |-> clock, closed |-> thread[t].closed,
                        open |-> In("open"), asked |-> thread[t].asked])

(* account_view: one summary.                                                   *)
ReadSummary ==
    \E t \in Threads :
        /\ thread[t].pc = "summary"
        /\ EndFetch(t, [Failure EXCEPT !.usable = TRUE, !.read = clock])

(* Any other ending: an error that is not worth a retry, the attempts used up,  *)
(* the page cap, the deadline.                                                  *)
ReadFails == \E t \in Threads : thread[t].pc \in {"closed", "open", "summary"} /\ EndFetch(t, Failure)

(* A waiter goes on when the refresh ends, or when its own time is up, with     *)
(* whatever the cache holds by then.                                            *)
Wake ==
    \E t \in Threads :
        LET c == thread[t].c
            found == {e.result : e \in cache[c].entry}
        IN  /\ thread[t].pc = "woken" \/ (thread[t].pc = "waiting" /\ clock >= thread[t].until)
            /\ \E r \in IF found = {} THEN {Failure} ELSE found :
                  Hand(thread, t, c, r, TRUE, cache[c].lastOk)
            /\ UNCHANGED <<clock, broker, cache, ends>>

---------------------------------------------------------------------------
(* ui/demo_refresher.py                                                         *)

(* ensure_started: from the server start and every page; only while no producer *)
(* is alive.                                                                    *)
EnsureStarted ==
    /\ thread[Refresher].pc = "off" /\ producer.starts < MaxStarts
    /\ thread' = [thread EXCEPT ![Refresher] = [Idle EXCEPT !.pc = "loop"]]
    /\ producer' = [producer EXCEPT !.stop = FALSE, !.failures = 0, !.starts = @ + 1]
    /\ handed' = {}
    /\ UNCHANGED <<clock, broker, cache, ends>>

StopProducer ==
    /\ thread[Refresher].pc # "off" /\ ~producer.stop
    /\ producer' = [producer EXCEPT !.stop = TRUE]
    /\ handed' = {}
    /\ UNCHANGED <<clock, broker, cache, thread, ends>>

(* run: the stop event is looked at before each pass, and cuts the sleep short. *)
ProducerLoop ==
    LET pc == thread[Refresher].pc
    IN  /\ pc = "loop" \/ (pc = "sleep" /\ (clock >= producer.until \/ producer.stop))
        /\ IF producer.stop
           THEN /\ thread' = [thread EXCEPT ![Refresher].pc = "off"]
                /\ handed' = {}
                /\ UNCHANGED <<clock, broker, cache, producer, ends>>
           ELSE Get(Refresher, Trades)

ProducerView == thread[Refresher].pc = "view" /\ Get(Refresher, Views)

DemoNext ==
    \/ BrokerMoves \/ Tick \/ SessionGet \/ ReadClosed \/ ReadOpen \/ ReadSummary \/ ReadFails \/ Wake
    \/ EnsureStarted \/ StopProducer \/ ProducerLoop \/ ProducerView

DemoSpec == DemoInit /\ [][DemoNext]_demoVars

---------------------------------------------------------------------------
(* One refresh at a time, and a waiter always waits for one that is under way.  *)
OneRefresh ==
    \A c \in Caches :
        LET reading == {t \in Threads : thread[t].c = c /\ thread[t].pc \in {"closed", "open", "summary"}}
        IN  /\ Cardinality(reading) = IF cache[c].inflight THEN 1 ELSE 0
            /\ (\E t \in Threads : thread[t].pc = "waiting" /\ thread[t].c = c) => reading # {}

(* A page is never told that an older read is current: what it is handed is     *)
(* marked stale exactly when the latest refresh failed, and a stale trades read *)
(* is not older than the maximum, unless the caller waited for somebody else.   *)
StaleIsTold ==
    \A h \in handed :
        h.result.usable =>
            /\ h.result.stale <=> ~h.lastOk
            /\ h.c = Trades /\ h.result.stale /\ ~h.waited => clock - h.result.read <= StaleMax

(* The broker is not hammered: whoever asks, and however reads fail, no three   *)
(* trades refreshes end within one failure period.                              *)
Paced == \A t \in Threads : thread[t].pc = "closed" => thread[t].until - Deadline - ends[1] >= FailureTtl

(* A trade is never counted twice, open and closed.                             *)
NoTradeTwice == \A h \in handed : h.result.closed \cap h.result.open = {}

(* Whatever the sessions, the producer and the broker do, the dashboard reads   *)
(* one at a time, not too often, tells stale from current and counts no trade   *)
(* twice.                                                                       *)
DemoReadsHonest == OneRefresh /\ StaleIsTold /\ Paced /\ NoTradeTwice

(* "never partial totals" (oanda_readonly.py): a trade that existed when the     *)
(* read began is in it. It does not hold of a trade that closes between the two *)
(* GETs.                                                                        *)
TotalsAreWhole ==
    \A h \in handed : h.c = Trades /\ h.result.usable => h.result.asked \subseteq h.result.closed \cup h.result.open
=============================================================================
