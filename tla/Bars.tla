-------------------------------- MODULE Bars --------------------------------
(***************************************************************************)
(* The daily bars of one symbol: who fetches them, what goes to the table  *)
(* ohlcv_bars and what to the Redis key ohlcv:{symbol}:1D, and what the    *)
(* readers make of it.  Writers: history_prefetcher, the on-demand worker  *)
(* (on_demand_listener), the API's own fallback (cache_orchestrator),      *)
(* scripts/seed_history.py.  Readers: alert_checker and the history route. *)
(*                                                                         *)
(* Of a bar only its state is kept: forming while its session is open,     *)
(* final after it, blank when Yahoo sends it with a volume and no prices.  *)
(* Time is the sequence of sessions and of the pauses between them.        *)
(***************************************************************************)
EXTENDS Integers, FiniteSets

CONSTANTS
  LastDay,        \* bound: days 0 .. LastDay
  Keep,           \* days of bars housekeeping keeps
  Canary,         \* the symbol is one of HISTORY_CANARY_SYMBOLS
  MaxJobs,        \* bound: fetches under way at once
  Null

Day == 0 .. LastDay
Kind == {"forming", "final", "blank"}

\* time_unix of a day's row: yfinance's index is midnight at the exchange, the
\* rows of _bars_to_db_rows are at midnight UTC.
Key == Day \X {"exchange", "utc"}

Writer == {"prefetch", "demand", "fallback", "seed"}

BarsAssumption ==
  /\ {LastDay, Keep, MaxJobs} \subseteq Nat
  /\ Canary \in BOOLEAN
  /\ Null \notin Kind

VARIABLES
  now,        \* 2d: the session of day d; 2d + 1: after it
  db,         \* Key -> kind of its row, or Null
  cache,      \* the cached series and when it was cached, or Null
  job         \* Writer -> what it has fetched and how far it is, or Null

barVars == <<now, db, cache, job>>

Today == now \div 2
Open == now % 2 = 0

\* A series: a kind for each day it has a bar of, Null for the others.
Series == [Day -> Kind \cup {Null}]
Empty == [d \in Day |-> Null]

-----------------------------------------------------------------------------
(* Fetching and storing.                                                   *)

\* What Yahoo answers: every day up to this one, the newest perhaps blank.
Answers == {[d \in Day |-> IF d < Today THEN "final" ELSE IF d = Today THEN k ELSE Null] :
              k \in {"blank", IF Open THEN "forming" ELSE "final"}}

\* drop_non_finite_bars.
Finite(s) == [d \in Day |-> IF s[d] = "blank" THEN Null ELSE s[d]]

Idle(w) == job[w] = Null /\ Cardinality({v \in Writer : job[v] # Null}) < MaxJobs

Fetched(w, s) == [job EXCEPT ![w] = [bars |-> s, stage |-> "fetched", at |-> now]]

\* prefetch_history skips the symbol while the key lives, but for a canary.
PrefetchFetch ==
  /\ Idle("prefetch")
  /\ cache = Null \/ Canary
  /\ \E s \in Answers : job' = Fetched("prefetch", s)
  /\ UNCHANGED <<now, db, cache>>

\* The task _fetch_history: a page found neither a key nor a row, or both reads
\* raised, some time ago.  Blank bars go to no sink.
DemandFetch ==
  /\ Idle("demand")
  /\ \E s \in Answers : Finite(s) # Empty /\ job' = Fetched("demand", Finite(s))
  /\ UNCHANGED <<now, db, cache>>

\* fetch_yahoo_direct, for the fallback and for seed_history, drops what has no
\* prices itself.  When a Thai symbol's period brings nothing it asks for a
\* shorter one, whose bars begin later.
DirectFetch(w) ==
  /\ Idle(w)
  /\ \E s \in Answers, first \in Day :
       LET found == [d \in Day |-> IF d < first THEN Null ELSE Finite(s)[d]]
       IN found # Empty /\ job' = Fetched(w, found)
  /\ UNCHANGED <<now, db, cache>>

\* fetch_yahoo_bars; Stooq stands in for a symbol without a suffix.
SeedFetch == DirectFetch("seed")

Inserted(s, zone) ==
  [k \in Key |-> IF db[k] = Null /\ k[2] = zone THEN s[k[1]] ELSE db[k]]

\* ON CONFLICT DO UPDATE.
Upserted(s, zone) ==
  [k \in Key |-> IF k[2] = zone /\ s[k[1]] # Null THEN s[k[1]] ELSE db[k]]

\* A plausible bug, and the one bar_hygiene was written after: NaN rows go in.
PrefetchedVerbatim(s) == Inserted(s, "exchange")

\* _upsert_bars_to_db updates nothing: a day that has a row keeps it.
Prefetched(s) == Inserted(Finite(s), "exchange")

Done(w) == [job EXCEPT ![w] = Null]
Stored(w) == [job EXCEPT ![w].stage = "stored"]

At(w, stage) == job[w] # Null /\ job[w].stage = stage

PrefetchStore ==
  /\ At("prefetch", "fetched")
  /\ db' = Prefetched(job["prefetch"].bars)
  /\ job' = Stored("prefetch")
  /\ UNCHANGED <<now, cache>>

\* The table may refuse: only the prefetcher minds.
DemandStore ==
  /\ At("demand", "fetched")
  /\ db' \in {db, Upserted(job["demand"].bars, "exchange")}
  /\ job' = Stored("demand")
  /\ UNCHANGED <<now, cache>>

SeedStore ==
  /\ At("seed", "fetched")
  /\ db' = Upserted(job["seed"].bars, "utc")
  /\ job' = Done("seed")
  /\ UNCHANGED <<now, cache>>

\* SETEX with six hours.  The prefetcher caches what it fetched, blanks and all.
Cache(w) ==
  /\ At(w, IF w = "fallback" THEN "fetched" ELSE "stored")
  /\ cache' = [bars |-> job[w].bars, at |-> now]
  /\ job' = Done(w)
  /\ UNCHANGED <<now, db>>

\* The fetch raises or finds nothing, a concurrent insert of the same row makes
\* the prefetcher's fail, the process dies.
Fails(w) ==
  /\ job[w] # Null
  /\ job' = Done(w)
  /\ UNCHANGED <<now, db, cache>>

-----------------------------------------------------------------------------
(* Time.                                                                   *)

\* Six hours, and the minutes a fetch takes, end before the next but one change.
Tick ==
  /\ now < 2 * LastDay + 1
  /\ cache # Null => cache.at = now
  /\ \A w \in Writer : job[w] # Null => job[w].at = now
  /\ now' = now + 1
  /\ UNCHANGED <<db, cache, job>>

\* The key runs out, or Redis restarts.
Expire ==
  /\ cache # Null
  /\ cache' = Null
  /\ UNCHANGED <<now, db, job>>

\* run_housekeeping, rule 1d.
Housekeep ==
  /\ db' = [k \in Key |-> IF k[1] + Keep < Today THEN Null ELSE db[k]]
  /\ UNCHANGED <<now, cache, job>>

-----------------------------------------------------------------------------
(* Readers.                                                                *)

\* _load_daily_bars with _drop_forming_bar: the newest cached bar is left out
\* while the market is open.
CachedDays == IF cache = Null THEN {} ELSE {d \in Day : cache.bars[d] # Null}
Newest(D) == CHOOSE d \in D : \A e \in D : e <= d
CheckedDays == IF Open /\ CachedDays # {} THEN CachedDays \ {Newest(CachedDays)} ELSE CachedDays

\* read_history: the key, and the rows when there is none.
ShownBars == IF cache # Null THEN {<<d, cache.bars[d]>> : d \in CachedDays}
             ELSE {<<k, db[k]>> : k \in {k \in Key : db[k] # Null}}

-----------------------------------------------------------------------------
Init ==
  /\ now = 0
  /\ db = [k \in Key |-> Null]
  /\ cache = Null
  /\ job = [w \in Writer |-> Null]

Next ==
  \/ PrefetchFetch \/ DemandFetch \/ DirectFetch("fallback") \/ SeedFetch
  \/ PrefetchStore \/ DemandStore \/ SeedStore
  \/ \E w \in {"prefetch", "demand", "fallback"} : Cache(w)
  \/ \E w \in Writer : Fails(w)
  \/ Tick \/ Expire \/ Housekeep

Spec == Init /\ [][Next]_barVars

-----------------------------------------------------------------------------
\* Types of the clock, the table, the key and the fetches.
TypeOK ==
  /\ now \in 0 .. 2 * LastDay + 1
  /\ db \in [Key -> Kind \cup {Null}]
  /\ cache \in {Null} \cup [bars : Series, at : 0 .. now]
  /\ job \in [Writer -> {Null} \cup [bars : Series, stage : {"fetched", "stored"}, at : 0 .. now]]

\* "A bar with no prices should never be persisted or cached" (bar_hygiene.py): of
\* the rows it holds, whichever writer stores what, in whatever order.  Of the cache
\* it does not: the prefetcher caches the blank bars it fetched.
StoredBarsHavePrices == \A k \in Key : db[k] # "blank"

\* alert_checker's indicators read confirmed bars only: "once the market closes,
\* that same bar IS the final, confirmed close for the day" (_drop_forming_bar).
CheckedBarsAreFinal == \A d \in CheckedDays : cache.bars[d] # "forming"
=============================================================================
