------------------------------ MODULE MacroFeed ------------------------------
(* The macro calendar as the floor sees it: the three calendar providers with   *)
(* their in-memory caches (data/fxmacrodata_provider.py, finnhub_macro_provider *)
(* .py, official_macro_provider.py), the macro scout (agents/macro_news_agent   *)
(* .py) and the macro checks of the setup validator.                            *)
(*                                                                              *)
(* A cycle decides for its slot (as_of) but calls the provider later, and a     *)
(* refresh takes time itself: what was fetched after the slot must not be used  *)
(* for it, and what was already known must not be lost by refreshing.           *)
(* Time is counted in ticks.  The providers stamp source, received, fetched     *)
(* and known times themselves, so the scout's rejections of unreadable stamps   *)
(* have no counterpart; a calendar that moves an event is not modelled.         *)
EXTENDS Naturals

CONSTANTS
    Event,        \* calendar events
    High,         \* those a calendar marks HIGH impact
    Source,       \* the feeds of the official provider
    Modes,        \* the provider modes to explore (runtime/config.py)
    CacheFor,     \* cache_seconds
    Active,       \* ACTIVE_WINDOW
    Recent,       \* RECENT_WINDOW
    RetryRate,    \* pause after a rate limit
    RetryOther,   \* pause after another failure
    MaxLag,       \* how long after the slot the call and the refresh may come
    MaxTime,      \* bound on time
    MaxFailures,  \* bound on failed requests
    MaxMacroRestarts  \* bound on process restarts

\* A calendar is read again only when the active window of an event is over that was still
\* ahead at the last reading (six hours, cache_seconds, against one and the lag of a slot).
ASSUME MacroAssumption ==
    /\ CacheFor \in Nat /\ Active \in Nat /\ Recent \in Nat /\ MaxLag \in Nat /\ MaxTime \in Nat
    /\ CacheFor > Active + MaxLag

VARIABLES
    mode,      \* the configured provider
    at,        \* when each event is released
    listed,    \* events the calendar shows with a confirmed time
    time,
    caches,    \* [now, previous, fetched, retry]; per feed for the official one
    providerHealth,  \* provider.health
    report,    \* the scout's last message and the validator's verdict on it
    seen,      \* HIGH events some report of this process has shown
    failures, restarts

macroVars == <<mode, at, listed, time, caches, providerHealth, report, seen, failures, restarts>>

NoTime == 0
NoReport == [asOf |-> 0, status |-> "none", items |-> {}, verdict |-> "none"]
EmptyCache == [now |-> {}, previous |-> {}, fetched |-> NoTime, retry |-> NoTime]

(* A calendar row as the providers hand it on: result is the time the actual    *)
(* value was known, NoTime while there is none.                                 *)
Row(e, fetched, impact, result) ==
    [id |-> e, at |-> at[e], fetched |-> fetched, impact |-> impact, result |-> result]

---------------------------------------------------------------------------
(* FXMacroData: rows still ahead of the request with a confirmed release time;  *)
(* the refresh is stamped when it ends.                                         *)
FxRows(now, end) == {Row(e, end, "HIGH", NoTime) : e \in {x \in listed : at[x] > now}}

(* Defect: the refresh forgets what it replaces.                               *)
FxRefreshed_Replace(now, end) ==
    [now |-> FxRows(now, end), previous |-> {}, fetched |-> end, retry |-> NoTime]

(* One refresh: the cache it replaces stays as the previous one, because the    *)
(* slot that asked may precede the end of the refresh.                          *)
FxRefreshed(now, end) ==
    [now |-> FxRows(now, end), previous |-> caches["fx"].now, fetched |-> end, retry |-> NoTime]

(* Of the rows fetched by as_of, the latest record of each event.               *)
FxVisible(c, asOf) ==
    LET rows == {r \in c.previous \cup c.now : r.fetched <= asOf}
    IN  {r \in rows : \A s \in rows : s.id = r.id => s.fetched <= r.fetched}

(* macro_events_at: how a call at now, whose refresh (if any) ends at end, may  *)
(* come out.                                                                    *)
FxOutcomes(asOf, now, end) ==
    LET c     == caches["fx"]
        due   == c.fetched = NoTime \/ now - c.fetched >= CacheFor
        quiet == c.retry # NoTime /\ now < c.retry
        fresh == FxRefreshed(now, end)
        failed(pause, why) == [cache |-> [c EXCEPT !.retry = now + pause], rows |-> {},
                               health |-> why, error |-> TRUE, end |-> now]
    IN  CASE ~due -> {[cache |-> c, rows |-> FxVisible(c, asOf), health |-> providerHealth,
                       error |-> FALSE, end |-> now]}
        []   due /\ quiet /\ c.fetched = NoTime ->
                 {[cache |-> c, rows |-> {}, health |-> providerHealth, error |-> TRUE, end |-> now]}
        []   due /\ quiet /\ c.fetched # NoTime ->
                 {[cache |-> c, rows |-> FxVisible(c, asOf), health |-> "PARTIAL",
                   error |-> FALSE, end |-> now]}
        []   due /\ ~quiet ->
                 {[cache |-> fresh, rows |-> FxVisible(fresh, asOf),
                   health |-> IF fresh.now = {} THEN "EMPTY" ELSE "READY",
                   error |-> FALSE, end |-> end]}
                 \cup {failed(RetryRate, "RATE_LIMITED"), failed(RetryOther, "PROVIDER_FAILURE")}

---------------------------------------------------------------------------
(* Finnhub: a window of days around the request, released events included; the  *)
(* refresh is stamped when it starts and replaces the cache.                     *)
FinnhubRows(now) ==
    {Row(e, now, IF e \in High THEN "HIGH" ELSE "LOW", IF at[e] <= now THEN now ELSE NoTime) :
        e \in listed}

(* An actual value is passed on only for an event released by as_of.            *)
FinnhubVisible(c, asOf) ==
    {[r EXCEPT !.result = IF r.at <= asOf THEN @ ELSE NoTime] : r \in {x \in c.now : x.fetched <= asOf}}

FinnhubOutcomes(asOf, now) ==
    LET c == caches["finnhub"]
        fresh == [now |-> FinnhubRows(now), previous |-> {}, fetched |-> now, retry |-> NoTime]
    IN  IF c.fetched # NoTime /\ now - c.fetched < CacheFor
        THEN {[cache |-> c, rows |-> FinnhubVisible(c, asOf), health |-> providerHealth,
               error |-> FALSE, end |-> now]}
        ELSE {[cache |-> fresh, rows |-> FinnhubVisible(fresh, asOf),
               health |-> IF fresh.now = {} THEN "EMPTY" ELSE "READY", error |-> FALSE, end |-> now],
              [cache |-> c, rows |-> {}, health |-> "PROVIDER_FAILURE", error |-> TRUE, end |-> now]}

---------------------------------------------------------------------------
(* Official calendars: one cache and one retry pause per feed, no stale         *)
(* fallback; their rows carry no impact and no values, and a feed's own stamp   *)
(* may be later than the slot (stamped).                                        *)
FeedRefreshed(s, now, fails) ==
    LET c == caches[s]
    IN  CASE c.fetched # NoTime /\ now - c.fetched < CacheFor -> [kept |-> c, rows |-> c.now, state |-> "READY"]
        []   (c.fetched = NoTime \/ now - c.fetched >= CacheFor) /\ c.retry # NoTime /\ now < c.retry ->
                 [kept |-> c, rows |-> {}, state |-> "PROVIDER_FAILURE"]
        []   OTHER ->
                 IF s \in fails
                 THEN [kept |-> [c EXCEPT !.retry = now + RetryRate], rows |-> {}, state |-> "PROVIDER_FAILURE"]
                 ELSE LET rows == {Row(e, now, "none", NoTime) : e \in listed}
                      IN  [kept |-> [now |-> rows, previous |-> {}, fetched |-> now, retry |-> NoTime],
                           rows |-> rows, state |-> "READY"]

OfficialOutcome(asOf, now, fails) ==
    LET feed == [s \in Source |-> FeedRefreshed(s, now, fails)]
        rows == UNION {feed[s].rows : s \in Source}
        failed == \E s \in Source : feed[s].state # "READY"
    IN  [feeds |-> feed,
         rows |-> {r \in rows : r.fetched <= asOf},
         health |-> CASE failed /\ rows # {} -> "PARTIAL"
                    []   ~failed /\ rows # {} -> "READY"
                    []   rows = {} -> "NO_DATA"]

---------------------------------------------------------------------------
(* The macro scout.                                                             *)
WindowOf(t, asOf) ==
    CASE t > asOf -> "UPCOMING"
    []   t <= asOf /\ asOf - t <= Active -> "ACTIVE_WINDOW"
    []   asOf - t > Active /\ asOf - t <= Recent -> "RECENT"
    []   OTHER -> "STALE"

(* Information that became known after the slot is rejected.                    *)
FromTheFuture(r, asOf) == r.fetched > asOf \/ (r.result # NoTime /\ r.result > asOf)

(* A row that repeats another (the same stable key) counts once.                *)
Accepted(rows, asOf) ==
    LET kept == {r \in rows : ~FromTheFuture(r, asOf)}
    IN  {[id |-> r.id, impact |-> r.impact, window |-> WindowOf(r.at, asOf)] : r \in kept}

ScoutStatus(rows, asOf, h) ==
    LET rejected == \E r \in rows : FromTheFuture(r, asOf)
        base == IF Accepted(rows, asOf) # {} THEN (IF rejected THEN "PARTIAL" ELSE "OK")
                ELSE IF rejected THEN "PARTIAL" ELSE "NO_DATA"
    IN  IF h = "PARTIAL" /\ base = "OK" THEN "PARTIAL" ELSE base

(* Defect: a partial macro report is not looked into.                          *)
Verdict_OkOnly(status, items) ==
    CASE status = "ERROR" -> "NO_SETUP"
    []   status = "OK" /\ (\E i \in items : i.impact = "HIGH" /\ i.window = "ACTIVE_WINDOW") -> "WATCH"
    []   OTHER -> "open"

(* The validator's macro checks: an error stops the setup, an active HIGH       *)
(* event turns it into WATCH, anything else lets the other checks decide.       *)
Verdict(status, items) ==
    CASE status = "ERROR" -> "NO_SETUP"
    []   status # "ERROR" /\ (\E i \in items : i.impact = "HIGH" /\ i.window = "ACTIVE_WINDOW") -> "WATCH"
    []   OTHER -> "open"

Reported(asOf, rows, h, error) ==
    LET items  == IF error THEN {} ELSE Accepted(rows, asOf)
        status == IF error THEN "ERROR" ELSE ScoutStatus(rows, asOf, h)
    IN  /\ report' = [asOf |-> asOf, status |-> status, items |-> items,
                      verdict |-> Verdict(status, items)]
        /\ seen' = seen \cup {i.id : i \in {x \in items : x.impact = "HIGH"}}

---------------------------------------------------------------------------
MacroInit ==
    /\ mode \in Modes
    /\ at \in [Event -> 2..(MaxTime - Active)]
    /\ listed \in SUBSET Event
    /\ time = 1
    /\ caches = [k \in {"fx", "finnhub"} \cup Source |-> EmptyCache]
    /\ providerHealth = "NOT_CHECKED"
    /\ report = NoReport /\ seen = {}
    /\ failures = 0 /\ restarts = 0

TimePasses ==
    /\ time < MaxTime /\ time' = time + 1
    /\ UNCHANGED <<mode, at, listed, caches, providerHealth, report, seen, failures, restarts>>

(* The calendar confirms the time of one more event.                            *)
Confirm(e) ==
    /\ e \notin listed /\ listed' = listed \cup {e}
    /\ UNCHANGED <<mode, at, time, caches, providerHealth, report, seen, failures, restarts>>

(* A cycle for the slot at the present moment, whose macro call comes up to     *)
(* MaxLag later, with the single-cache providers.                                *)
FetchOne(key, outcomes) ==
    \E o \in outcomes :
        /\ o.error => failures < MaxFailures \/ o.cache = caches[key]
        /\ caches' = [caches EXCEPT ![key] = o.cache]
        /\ providerHealth' = o.health
        /\ time' = o.end
        /\ failures' = IF o.error /\ failures < MaxFailures THEN failures + 1 ELSE failures
        /\ Reported(time, o.rows, o.health, o.error)

CycleFx ==
    /\ mode = "fxmacrodata"
    /\ \E now \in time..(time + MaxLag) : \E end \in now..(time + MaxLag) :
          /\ end <= MaxTime
          /\ FetchOne("fx", FxOutcomes(time, now, end))
    /\ UNCHANGED <<mode, at, listed, restarts>>

CycleFinnhub ==
    /\ mode = "finnhub"
    /\ \E now \in time..(time + MaxLag) :
          /\ now <= MaxTime
          /\ FetchOne("finnhub", FinnhubOutcomes(time, now))
    /\ UNCHANGED <<mode, at, listed, restarts>>

CycleOfficial ==
    /\ mode = "official_hybrid"
    /\ \E now \in time..(time + MaxLag), fails \in SUBSET Source :
          LET o == OfficialOutcome(time, now, fails)
          IN  /\ now <= MaxTime
              /\ fails # {} => failures < MaxFailures
              /\ caches' = [k \in DOMAIN caches |-> IF k \in Source THEN o.feeds[k].kept ELSE caches[k]]
              /\ providerHealth' = o.health
              /\ time' = now
              /\ failures' = IF fails # {} THEN failures + 1 ELSE failures
              /\ Reported(time, o.rows, o.health, FALSE)
    /\ UNCHANGED <<mode, at, listed, restarts>>

(* The caches live in the process.                                              *)
MacroRestart ==
    /\ restarts < MaxMacroRestarts /\ restarts' = restarts + 1
    /\ caches' = [k \in DOMAIN caches |-> EmptyCache]
    /\ providerHealth' = "NOT_CHECKED" /\ report' = NoReport /\ seen' = {}
    /\ UNCHANGED <<mode, at, listed, time, failures>>

MacroNext ==
    \/ TimePasses \/ CycleFx \/ CycleFinnhub \/ CycleOfficial \/ MacroRestart
    \/ \E e \in Event : Confirm(e)

MacroSpec == MacroInit /\ [][MacroNext]_macroVars

---------------------------------------------------------------------------
(* Once the process has shown a HIGH event in some report, no later report for  *)
(* a slot inside that event's active window lets a setup through: neither a     *)
(* refresh that no longer lists the released event, nor one that ends after     *)
(* the slot, nor an outage of the calendar loses it (setup_validator.py:72-75,  *)
(* fxmacrodata_provider.py _refresh keeping the previous snapshot).  It does    *)
(* not hold of finnhub, whose refresh replaces its cache.                       *)
ActiveWindowHeld ==
    mode # "finnhub" =>
        \A e \in seen :
            report.verdict # "none" /\ at[e] <= report.asOf /\ report.asOf <= at[e] + Active
                => report.verdict # "open"
=============================================================================
