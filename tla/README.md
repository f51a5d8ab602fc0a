# A TLA+ model of ShotockViz

ShotockViz is a FastAPI backend with Celery workers (two processes,
`task_acks_late`), Redis as cache, lock table and message bus, Postgres, and a
React client. Its hard part is not any one computation: it is that scheduled
tasks overlap, retry and are redelivered, that every decision rests on cached
data with its own time of origin, and that users edit rows meanwhile. The
modules here model those parts step by step.

## Inventory

| part | state | operations | hard behaviour | what makes it correct |
|---|---|---|---|---|
| alert checker, alert API (`workers/alert_checker.py`, `api/routes/alerts.py`) | `alerts` rows, a session per run | `check_all_alerts`, `claim_alert`, `_send_telegram_alert`; create, edit, delete, toggle | overlapping and redelivered runs; values read before the claim; rows deleted under a run; the same data seen again | fires are a cooldown apart, never twice on one as-of, one sender per fire, none while paused, a due alert is found |
| split rebase (`corporate_actions_fetcher.py`) | `corporate_actions` rows, `alerts.value`, `value_as_of` | insert splits and rebase levels in one transaction, a savepoint per split | an edit between SELECT and UPDATE; alerts that already fired; one savepoint failing | a level is stated in the units its stamp says |
| pipeline health (`pipeline_health.py`) | alert locks, down flags, canary keys | check every 300 s, alert, recover | keys that expire before they are stale; overlapping checks; lost messages | an outage is told, nobody is alarmed for nothing, the last message is true |
| digests (`gap_list_digest.py`, `sr_proximity_digest.py`) | one lock per day, six hours long | claim, read, compose, send | an error after the claim, a crash between sends, an answer that is lost | one digest a day, for everybody; nothing of the book goes unmentioned |
| portfolio (`portfolio_service.py`, `corporate_actions.py`, `api/routes/portfolio*.py`) | `transactions` rows | add, edit, delete; `build_holdings` and the reports | checks that race; equal dates; splits; rates that are missing or wrong | every sum is the sum of its parts, every omission is named |
| quote fetch (`cache_orchestrator.py`, `on_demand_listener.py`, `quotes.py`) | `quote:`, `fund:`, not-found and dedupe keys, a task queue | ask, dedupe, dispatch, fetch, fall back | lost tasks, a broker that refuses, marks that hide a symbol | who asks is answered |
| price rotation (`price_fetcher.py`) | one counter | a market slot a minute | overlapping runs, skipped markets, failures | no open market is starved |
| fund NAVs (`fund_fetcher.py`) | a map cached 24 h, `fund:` keys | resolve, look back, pick a class, fall back | partial maps, late NAVs, days that cannot be read | the NAV is that of the fund, and goes forward |
| daily bars (`history_prefetcher.py`, `on_demand_listener.py`, `cache_orchestrator.py`, `seed_history.py`, `housekeeping.py`) | `ohlcv_bars`, `ohlcv:` keys | fetch, clean, insert or upsert, cache | forming bars, blank bars, two writers of a day | no row without prices; confirmed bars are confirmed |
| symbol registration (`watchlist.py`, `symbol_registrar.py`, `index_populator.py`) | watchlists, queue, `stocks` | add, register, scan, populate | a task sent before the commit and forgotten | what is followed gets its row |
| levels (`sr_auto_pivot.py`, `sr_levels.py`, `import_sr_levels.py`) | `sr_levels` | compute and replace pivots, import, place and move stops | commits between the reads and the writes | one stop per symbol; imports keep their side |
| WebSocket broadcaster (`main.py`) | sockets, subscriptions, users | connect, subscribe, broadcast, disconnect | the registry changes during an awaited send | everyone meant gets the message, the gone are dropped |
| backtesting (`backtesting_engine.py`) | none | four strategies, a report | windows and look-back | no hindsight; a report that agrees with itself |
| client hooks, SingleFlight, rate limiter, authentication, providers, indicators, read-only routes, other fetchers | | | | see `PROJECT.json` |

Components call each other through Redis and Postgres almost only: fetchers
write cache keys; the alert checker, the digests and the API read them; the
checker publishes on `price_updates`, which the broadcaster forwards to sockets;
the API changes rows the checker, the rebase and the pivots read.

## Modules

- **AlertPromise**: what the checker promises, apart from how. State: the fires
  of each alert and the fires that were notified. An alert fires at most once
  per cooldown and never on data as old as data it fired on; a fire is notified
  after it happened and by one call.
- **Alerts**: the checker, the API handlers and the feeds as far as alerts see
  them. `rows` and `life` are the `alerts` table; `quote`, `fund`, `ohlcv` are
  the Redis keys; `run` holds the local state of each execution of
  `check_all_alerts`; `fires` and `sent` are history. The steps of a run are the
  places where others can come between: the SELECT (`StartRun`), reading the
  cache and deciding (`Evaluate`, where `claim_alert` also reads the clock), the
  conditional UPDATE with its commit (`WinClaim`, `LoseClaim`), the
  notification (`Notify`). After the first commit SQLAlchemy expires every
  loaded row, so levels are read afresh (`LevelSeen`) and a deleted row raises
  (`AbortRun`). A killed worker (`Crash`) leaves only what was committed.
- **AlertRebase**: the splits of one watched symbol, recorded and applied to the
  levels set before them. A level carries its origin (the number typed, the
  splits already in the prices then, how often each split was multiplied in
  since), so that a level restated twice or not at all can be told. `job` is the
  transaction of each execution of `fetch_corporate_actions` with the rows it
  wrote and the state at its savepoint; `Commit` publishes them. The INSERT of a
  split waits for another transaction's row of the same split, UPDATEs wait for
  row locks, the SELECT sees committed rows and the transaction's own. A PUT is
  two steps (`PutLoad`, `PutFlush`), and its flush names only the columns that
  differ from what it loaded.
- **PortfolioFold**, **PortfolioReport**, **PortfolioBook**: `build_holdings` as
  a fold over the rows, with sales, round trips and splits; what the endpoints
  state about the folded book (rates, valuation, totals, allocation, open risk,
  concentration, realized side, equity curve); and the requests that change the
  rows, each reading (`txns`, then `request`) before it writes. Rows of one date
  have no order, so a read returns any, and the properties speak of every one.
- **PipelineHealth**: `age` is the age of the newest canary stamp of a feed, up
  to the horizon at which its key is gone; `lock` and `down` are the keys of a
  check, `told` the last message. Every Redis command of a check is a step. A
  check may wait, raise and be retried until `MaxRetries` are used up, be killed
  and redelivered, or have its message lost; what it leaves unsettled is in
  `doubt`. An overlap of two checks is not ruled out but excused by it, until a
  check alone has spoken again.
- **DigestContent**, **Digests**: what the two digests list, cut and leave out,
  as functions (both have a length guard: `MaxSymbols` symbols of the proximity
  digest, sorted by their nearest level, `MaxRows` rows of the gap list); and their
  runs: the gate, the claim of the day, the reads, the POSTs. `claims`, `got`, `tried`, `unsure` and `spoiled` are history.
- **WsBroadcast**: connections numbered in the order in which the dict yields
  them; a step lasts from one `await` to the next. `sending` is the dispatch
  under way: where its walk is, who was due, whom it failed to reach.
- **PriceRotation**, **SymbolRegistry**, **DataFetch**, **Levels**, **Bars**,
  **FundNav**, **Backtest**: one small component each; the comment at the head
  of a module says which code it is and what a state of it stands for.
- **Feeds**: these seven and the broadcaster side by side (levels in two parts):
  a behaviour chooses a part at its start and stays in it. Nothing about their
  interaction is shown by that, and nothing is meant to be; they share no state.
- **AlertsProofs**, **AlertRebaseProofs**, **PortfolioBookProofs**,
  **PortfolioReportProofs**, **PipelineHealthProofs**, **DigestsProofs**,
  **WsBroadcastProofs**, **FeedsProofs**: the theorems about the module each is
  named for (with `DigestContent` under `Digests`, and every part of `Feeds` under
  `FeedsProofs`). **MC\***: instances for TLC; `MCFeeds` adds the fairness.

Abstractions. Prices, thresholds and indicator readings in `Alerts` are members
of a small set `Level`; a cross is a reading of 0 or not. Minimum bar counts and
a missing threshold are cache misses to the checker (it skips). The channel, the
WebSocket publish of the checker (best effort, no state) and the text of
messages are left out. `toggle_alert` is one step although it reads before it
writes: two at once can only lose one toggle. `sent` counts calls of
`send_telegram_message` that succeeded; the two POSTs inside one call are told
apart in `Digests` only. Money, rates and averages are exact integers or
fractions where the code has floats; the instances are chosen so that the
divisions of the portfolio come out even. A wrong rounding is therefore out of
sight, a wrong term is not.

## Runs

| run | instance | shows |
|---|---|---|
| `alerts` | one alert (price on a live quote, RSI on daily bars, or a fund's NAV), two runs, crashes, one edit, clock 0..2, cooldown 1 | `TypeOK`, `FiresSpaced`, `DataFiresOnce`, `RowTellsItsFires`, `OneSenderPerFire`, `PausedNeverFires`, and `KeepsPromise` (Alerts implements AlertPromise) |
| `alerts_daily` | two alerts on daily bars, two runs, crashes, one pause or deletion | `DueNeverForever`: an alert that may fire does not stay due for ever |
| `alerts_nav` | one alert on a fund | a violation: one NAV wins two claims |
| `rebase` | one alert, splits on days 1 and 2, two executions, two PUTs, one failure | `TypeOK`, `NeverTwice` (nor without the split's record), `UnfiredLevelsCurrent` (while nothing fails and no PUT races), `EventuallyRebased` |
| `rebase_fired` | one alert that may fire, one execution | a violation: a level that fired is not restated |
| `portfolio` | four writes of a Thai and a foreign symbol, seven trades, three patches, three markets, three days | `CostIsConserved`, `TripsPartitionSales`, `FxReturnIsKnown`, `ExposureIsAccounted`, `CurveEndsAtBook`, `NoStepAtSplit`, `AverageIgnoresSameDayOrder` for every order of equal dates, and `ConflictNeedsOverlap` |
| `portfolio_rates` | the same | a violation: an edited currency keeps the rate 1 of the baht row it was |
| `health` | two checks of a feed whose keys expire before they are stale and one whose keys do not, two outages, one failure | `NoFalseAlarm`, `LastMessageTells`, `OutageIsToldIfSeen` |
| `health_outage` | one check, one outage | a violation: an outage of the quotes is taken for a cold start |
| `digest` | both digests, a Friday and the night after it in ticks of six hours, two processes, a task by hand, one failure; one symbol and one row a message | `OneDayOneMessage`, `EveryoneGetsATurn`, `NearestIsShown`, `BookIsAccountedFor` |
| `feeds` | two sockets; three slots and two runs; a ticker that is a fund house and one that begins like one; a symbol watched in two spellings; a quote nobody cached on a page whose request may be cut; two pivot runs and an import; two POSTs of a stop; two days of bars; a fund, its near namesake and three classes over three days; series of up to seven closes | `NobodyIsPassedOver`, `GoneIsForgotten`, `EveryMarketIsServed`, `FollowedGetsRegistered`, `AskedIsServed`, `LevelsSetRight`, `StoredBarsHavePrices`, `NavIsTheFunds`, `BacktestIsSound` |
| `bars_final` | two days, two writers at once | a violation: a forming bar is read as the day's close |

Every passing run also checks a type invariant (`feeds`: `AllTypes`, those of its
parts).

Bounds. One alert is enough for the safety properties because alerts share no
row and no run decides about two at once; two runs are what Celery's concurrency
allows and the least that can race; three clock values hold two fires a cooldown
apart with a third attempt in between; two levels make a condition true, false
and edited over. Liveness needs the second alert: its deletion is what aborts a
run before it reaches the first. `alerts_daily` keeps two alerts, two runs and
the crashes, and pays with one level (data that is there meets its condition)
and a Telegram that takes nothing (`DailySpec`): what was sent decides nothing
about the next fire. In the portfolio four writes hold a purchase,
a second lot, a sale and an edit of any of them, or two overlapping adds with an
edit each; the three markets are a live rate given the other way round, a split,
and a night with a fund NAV and a rate `read_fx_quote` refuses. In the digest the
second day and the short lock give a claim room to expire and a late task room
to run after its beat; a guard of one symbol cuts as soon as both are near a
level. Thresholds, gaps and TTLs of `health` keep the order they
have in the code and not their sizes; its one failure may be a retry, and a task
that has no retries left ends like a check that fails in a later section. One job at a time is enough for the rows
of `Bars` because a store is one transaction; `bars_final` takes two. `FundNav`
looks back two days instead of five: one day to fail and one to fall back to.
`Backtest` shortens the windows (fast 1, slow 3, period 3) so that seven closes
hold several trades; of three closes one may lie inside its bands or outside.
One worker registers and one task of a symbol waits, as two that register it only
insert the same row twice, and one waiting fetch is dispatched, lost and repeated
as two are. The import of `Levels` owns the support side only; the other is the
pivots' in every behaviour. The clock and the edits are bounded, so behaviours end, and
so do series: deadlock is not checked in any run.

Fairness. Alerts: weak fairness of starting a run and of a run's next step, as
beat sends the task every 60 s and a worker executes what it started. Nothing is
assumed of the clock, the feeds or the users. Workers are killed at any step,
but not for ever (`<>[][Step]_vars`): a checker killed in every run it makes
promises nothing. Rebase: the daily beat
and the end of requests and transactions, with the bounded failures included.
Health: time passes, a feed that is up goes on writing, a check takes its next
step. Digests: a worker takes its next step; nothing makes beat fire, so what is
promised begins when a day is claimed. Feeds: weak fairness of what happens by
itself (`Prompt`) and strong fairness of what happens if it can again and again
(`Persistent`): a `data_ready` is published every half hour, a task that is sent
for ever is taken and does not fail for ever, a page that asks and is not cut
finds the cache filled while it is. A page that shows a price may stop polling,
and one whose request is cut before the symbol may stay so. Fairness of two parts is one conjunct where a behaviour can
be about one of them only.

Rebase. Two splits are the least that can be applied out of order or half; two
executions the least that overlap; one failure is a savepoint rolled back or a
transaction lost. A PUT does not span midnight in the model: requests last
seconds, and one that did could write yesterday's stamp over a rebase of today,
after which the split is applied again (`NeverTwice` fails without that guard of
`NextDay`). What the bounds allow and no property excludes:

- a PUT committed between the rebase's SELECT and its UPDATE by id is
  overwritten (the level is the old one, correctly restated);
- a PUT of the number the row already held, flushed after a rebase, writes the
  stamp and not the value, so the level is the restated one with today's stamp;
- two PUTs around one rebase can leave a level typed today under the rebase's
  older stamp, and the next split is then applied to it although it held it;
- a failed savepoint of an older split followed by a newer split's rebase skips
  the older one for good.

`EventuallyRebased` asks for the factor itself, or a level typed anew, and names
the second and the last of these as its two exceptions.

An alert on a symbol in no watchlist and no portfolio is never rebased, because
`_get_watched_symbols` does not look at alerts; the model's symbol is watched.

## Where code and words disagree

Five runs show it; `PROJECT.json` quotes the lines.

- `alerts_nav`: `fetch_thai_fund_navs` stamps the time of the fetch and runs
  every day, weekends included, so an unchanged NAV looks new; the comment in
  `alert_checker.py` says the same NAV wins a claim at most once.
- `rebase_fired`: the rebase leaves out alerts whose `status` is TRIGGERED as
  past events, but such alerts stand and are still compared.
- `portfolio_rates`: a currency edited from THB leaves the rate 1 as a dollar
  rate that nobody observed.
- `health_outage`: the canaries of the quotes live 120 s and count as stale
  after 600, so an outage is never measured.
- `bars_final`: a series cached during a session is served for six hours, past
  its close, with the forming bar as it stood.

Others met on the way, which the models contain or leave out, and no run of
their own shows:

- `Digests`: a run that waits past midnight claims the next day's key; a retry
  after the claim finds the day claimed and sends nothing.
- `DataFetch`: `quotes.py` promises a quote "for all requested symbols" and takes
  the first 30 of a request; the sidebar sends the whole watchlist at once, so what
  comes later is neither looked up nor fetched for it (`page = "cut"`).
- `FundNav`: Finnomena's answer without a date is stamped with the clock, and its
  last NAV may be today's; step 3 of the class choice is meant for a fund of one class but
  takes the first class of any answer; `prev_nav` and `change` are computed and
  never stored; a map without the funds of a company that failed is kept a day.
- `SymbolRegistry`: `register_symbol` takes 7203.T for US, `index_populator` for
  JP; two concurrent adds make two watchlist rows; the route stores `"PTT.BK "` as it
  came while the worker strips, so that spelling never gets a row of its own, the
  scan sends its task for ever, and `"SCB "` passes the refusal of ambiguous
  symbols (`Stripped`); `name_fetcher` updates
  `WHERE name IS NULL`, and that column is never NULL.
- `DataFetch`: the worker publishes `price_update` where `quotes.py` promises
  `data_ready`; `fetch_quote_direct` returns None for refusals and timeouts, so
  the not-found mark covers what the comment in `fetch_quote_now` excludes.
- `Bars`: blank bars "never ... cached" (`bar_hygiene.py`), but the prefetcher
  caches what it fetched; it inserts without updating, so a forming bar stays in
  its row; yfinance's writers key a day by the exchange's midnight,
  `models/ohlcv.py` by UTC's; `fetch_yahoo_direct` tries twice, not three times,
  and has no stale answer.
- `Levels`: two POSTs of a stop at once leave two, and moving never heals that.
- `PriceRotation`: the fallback for "all markets closed" cannot be reached.
- `Backtest`: any 50 cached bars serve every `period`; `bb_bounce` sells at the
  upper band only, its comment says "or SMA".
- `PortfolioBook`: `THBUSD=X`, which `portfolio.py` asks the worker for, is
  refused by the worker's `_VALID_SYMBOL_RE`.
- Not modelled: `price_adjuster.py` compares the ISO string of an ex-date with a
  date, which raises as soon as a symbol has an action to adjust for; GET /financials and /earnings cache
  the answer as the first caller's limits cut it; a crash between INCR and
  EXPIRE leaves a rate-limit counter without a TTL; `useWebSocket`'s `onclose`
  may reconnect after its cleanup.

## Proofs

Each theorem holds for every value of the constants that satisfies the named
assumptions of its module; TLC evaluates those on every run. Where a step needs
that a set of numbers has a least element (the next split, the next open slot,
the newest day), the proof takes it from the library's `WFMin`. Inductions over
data go the same way: the claim for the numbers up to n, or for the finite sets
of n elements, is turned into a set of numbers that fail, and its least element
is refuted. What a loop, a sum, a sort or a product computes is proved by that,
as long as it is a recursive function and not a `RECURSIVE` operator.

`AlertsProofs`, from `ShapeAssumption`, `BoundAssumption`, `NullAssumption`:

- `TypeCorrect`: `TypeOK` is inductive by itself.
- `SpacingHolds`, `DataOnceHolds`. Neither property is inductive: the claim's
  WHERE clause sees only the row, the property speaks of the whole log. The
  strengthening `LogBelowRow` says that everything an alert ever fired on lies at
  or below what its row remembers (and that an unused id has no fires), so the
  guard speaks for every earlier fire (`GuardSpeaksForLog`). Only a won claim
  touches the log or those columns (`OnlyClaimsFire`), and a claim on data
  without an as-of keeps the stored one, which is what keeps `LogBelowRow`.
- `RowTells` (`RowTellsItsFires`): the converse. The row of a live alert counts
  its fires, and what it remembers is the last of them and the newest as-of
  among them, so `triggered_data_at` never holds a time no fire had.
- `OneSender`: `SenderInv` adds that notified fires exist and that a notifying
  run names an alert. A new claim takes the next number, which no run holds and
  nobody notified.
- `NeverFiresPaused`: the claim re-reads `is_active` on the row it locks.
- `ImplementsPromise`: a won claim is a `Fire`, a successful notification a
  `Deliver`, every other step stutters.

`AlertRebaseProofs`, for any splits, alerts, executions, levels and bounds
(`LevelAssumption`: there is a level to type; `RebaseNullAssumption`: the null is
none of the values it stands beside):

- `RebaseTyped`: `TypeOK`, with what a transaction has in hand at each step
  (`InHand`): the split it works on, the rows it selected.
- `RebasedOnce` (`NeverTwice`). `OnceInv` says of every value, wherever it is (in
  a row, in a PUT between load and flush, written or read by a transaction), that
  its stamp vouches for it (`Sound`): no split is in it twice, none later than the
  stamp, none that is not on record or, in a transaction, inserted by it. A value
  may be multiplied by a split only when its stamp is older, and the stamp moves
  with it. Two executions cannot both hold an uncommitted row of one split, as
  the second INSERT waits, so what a commit publishes was new.
- `UnfiredCurrent` (`UnfiredLevelsCurrent`). While nothing has failed and nothing
  was edited, records and inserts are closed downwards, the splits still to do
  are above those done, and each unfired level holds every split on record, or,
  in a transaction, every one inserted so far up to the one in hand. A second
  transaction that overlaps the first has read and written nothing (`Alone`,
  `OthersBlank`), which is why nobody's rebase starts from a stale value.

`PortfolioBookProofs`, from `PortfolioAssumption`, `BodyAssumption` (the types
pydantic gives a body) and `MarketAssumption`:

- `PortfolioTyped`: every row a commit writes has the table's fields and ranges,
  the rate included, which `_fx_rate_for` takes from a quote it may have to
  invert: a quotient of a rate in the plausible band is not zero.
- `ConflictOnlyByOverlap` (`ConflictNeedsOverlap`). `CheckInv` says that what a
  request found in `_assert_currency_consistent` still holds at its commit
  unless another commit on the symbol marked it `overtaken`: commits on other
  symbols leave its rows alone, deletions only remove conflicts.

`PortfolioReportProofs`, from the same assumptions: what the fold and the reports
compute, for every finite book and every order of equal dates. The book is finite
in every reachable state (`FinitelyMany`), which is all these theorems need of
the behaviour beside `TypeOK`. The fold is a recursive function over a sequence;
`Loop` and its kin say what a property needs to hold after all of it, and
`NextSound` what one row does to a holding.

- `CostConserved` (`CostIsConserved`) and `TripsPartition`
  (`TripsPartitionSales`), where splits leave no remainder (`RestatesExactly`: the
  quantity of every row times the splits after it is whole). `build_holdings`
  works on floats; the model has integers, and with a remainder the statement is
  about rounding and not about bookkeeping. TLC finds `RestatesExactly` true in
  every state of the run `portfolio`.
- `ReturnIsKnown` (`FxReturnIsKnown`), `ExposureAccounted` (`ExposureIsAccounted`),
  `CurveEndsAtTotal` (`CurveEndsAtBook`) for every book and market. The reports
  build one list from another; the lemmas say of each list which symbols it holds
  and what a sum over it is a sum of, so that two sums over one set of
  symbols meet.
- `OrderDoesNotMatter` (`AverageIgnoresSameDayOrder`), where `RestatesExactly`
  holds and, in every order of a symbol's rows, a sale of no more than is held
  releases its share of the cost without remainder (`ReleasesExactly`, true in
  every state of the run too; with remainders two orders may round differently).
  An order of a set of rows is an order of the others with one of the newest rows
  behind it (`TakeLast`, `PutLast`). Two rows of one kind commute: purchases add
  up (`BuysCommute`), and a second sale releases at the average the first has
  left unchanged (`SalesCommute`). Induction over the subsets of the rows does
  the rest (`AllAgree`).
- `SplitIsNoStep` (`NoStepAtSplit`), where each day's splits leave no remainder
  (`RestatesDaily`, true in every state of that run as well): the product of the
  ratios up to a day is that up to the day before times the day's, and close and
  quantity take the factor with opposite signs.

`PipelineHealthProofs`, from `HealthAssumption`, for any feeds, processes,
thresholds and cooldown, and any number of outages, failures and retries:

- `TypeCorrect`, and `NobodyAlarmedForNothing` (`NoFalseAlarm`). A feed that never
  failed is `Undisturbed`: its stamp is within the gap between two writes or it
  has none yet, no message and no down flag exists, and no check that looks at
  it has decided anything. The last part is the strengthening: a check decides in
  one step and speaks steps later, so the property alone says nothing of a check
  between the two. That the gap is within the threshold is the assumption that
  carries it.
- `LastMessageIsTrue` (`LastMessageTells`). `ReportInv` says, for a feed in no
  doubt, that lock, down flag and last message fit each other (`Quiet`) or that a
  check is between the Redis commands that make them so; and for each command of
  a check nobody overlaps, which of them it has already set (`Stage`). A check
  that may overlap another puts every feed in doubt.

`DigestsProofs`, from `DigestAssumption`, `ContentAssumption`,
`TablesAssumption`, `CacheAssumption`, `QuoteAssumption` (what the tables and
the cache may hold), for any number of processes, users, retries and tasks
started by hand:

- `DigestsTyped`: `TypeOK`, with `RunTyped`: a run works on a task of today and
  turns to linked users with a book only.
- `DigestSentOnce` (`OneDayOneMessage`). `OnceInv`: the key is the last claim's;
  a run past its claim claimed in this tick and nobody else did (unless the key
  was claimed again after its life, `Spread`); the users it still turns to have
  no message, or their log explains one (`Owed`). A second claim needs a free
  key, so it comes a key's life after the first, which is `Spread`.
- `EveryBookIsAccountedFor` (`BookIsAccountedFor`): the gap list's branches divide
  the book, sorting permutes, so cutting the list leaves the moves no bigger than
  those it shows.
- `NearestIsAlwaysShown` (`NearestIsShown`): a cluster's levels are within the
  tolerance of its first, every level falls into one cluster, and the line a
  cluster becomes carries the level of it nearest to the price. For the length
  guard: being closer is a strict order of the symbols, compared without dividing,
  so the first `room` of them exist (`FirstsExist`, by induction on `room`), the
  rest are counted, and each of those is no closer than any symbol shown.

`WsBroadcastProofs`, for any number of connections: `TypeCorrect`, and
`NobodyPassedOver` (`NobodyIsPassedOver`). The inductive invariant says that
whoever is still due in a walk over the live dict is ahead of it, and that a
socket that never connected is nowhere, so that one registered meanwhile joins
behind the walk.

`FeedsProofs` proves something of every part of `Feeds` and then of the
composition: a behaviour of `Feeds` is, in the variables of a part, a behaviour
of that part (`BroadcastRuns`, `RegistryRuns`, `FetchesRun`, `BarsRun` and so on),
so what the part's specification implies holds of `FeedsSpec` too.

- `NoBlankRow` (`StoredBarsHavePrices`, composed `RowsHavePrices`) for any days,
  retention and interleaving. The strengthening is that three of the four writers
  never hold a blank bar; the prefetcher may, and cleans what it inserts.
- `RoundStaysShort` (`RoundIsShort`, from `RotationAssumption`). Every fetchable
  market has waited for at most as many runs as there are fetchable markets
  between it and the counter on the ring (`RoundInv`); a run serves the nearest
  (`Skips`), which adds one to both sides. The lemmas are about walking a ring of
  any size modulo `NumSlots`. `RotationTyped` is the module's `TypeOK`.
- `PivotsStayRight` (`PivotsSetRight`, from `LevelsAssumption` and
  `LevelsNullAssumption`): what a run has read is still what the tables hold
  unless a commit marked it as not alone (`Current`), and the rows computed from
  any history carry each tag once.
- `StopStaysOne` (`StopIsMoved`): a request alone that found no stop still finds
  none when it writes.
- `NavStaysOwn` (`OwnNav`) and `NavGoesForward` (`GoesForward`), from
  `FundNavAssumption` and `NamedAssumption`: the symbol names its fund, that is,
  the first step of `_resolve_proj_id` that matches a registered project at all
  matches that fund alone. A symbol that is only the beginning of several funds'
  names is outside both theorems. `NavInv` says that what the key holds is of no day to come, that what the SEC
  gave was published, for the project and day it names, and that the rest, which
  Finnomena gave or the clock dated, stands under the symbol's own class; a run that reads an older day than
  the key's must have asked for the key's day too, as the window only moves
  forward, and so failed on it.

- `TradesNeverChange` (`NoHindsight`), from `BacktestAssumption`: the signals of a
  day read the closes up to that day only, so the loop over a longer series goes
  through the same states; a day more can settle the open trade, and nothing else.
- `EveryReportAddsUp` (`ReportAddsUp`), by what the report's loops keep from trade
  to trade: the peak is no lower than the capital, the drawdown no smaller than
  the way down from the peak, gross profit and loss count the trades seen.
- `RegistryTyped`. The list's type bounds its rows of a symbol by the number of
  POSTs, which is not inductive: a POST reads, then writes. `RowsInv` counts the
  rows together with the POSTs that may still add one.
- `LevelsTyped`, from the lemmas on what `detect` computes from any history:
  sorting by a relation permutes, clusters divide what they are made of, joining
  keeps tags apart, and what is kept is on one of the sides and positive.
- `RotationTyped`, `BarsTyped`, `NavTyped`, `FetchTyped`, `BacktestTyped`.

`RowsHavePrices`, `LevelsStayRight`, `NavStaysTheFunds`, `BacktestStaysSound`,
`FeedsPassNobodyOver` and `FeedsTyped` (`AllTypes`) say of the composition what
the run `feeds` checks; `RoundStaysShort`, composed `RoundsStayShort`, is the half
of `EveryMarketIsServed` that is not liveness.

What the proofs changed in the models:

- `RowTellsItsFires` says that the as-of kept is the newest, which its first form
  left open.
- `DigestContent` and `Levels` sort with `SortedBy` and `Ordered`, by `<=` or a
  total order: a strict comparison has no sorted result when keys are equal.
  Clusters are a recursive function of the levels seen so far (`ClustersAfter`);
  in `Levels` a cluster whose mean is zero takes no further level, as in the code.
  `BookIsAccountedFor` has the part `LeavesNoneOut`.
- `Levels` reads typed histories (a bar has whole prices), `FundNav`
  states the resolving step as the least of the matching ones.
- `PortfolioFold` and `PortfolioReport` sum over index sets rather than over
  sequences of records, name the state of a symbol after some rows
  (`HoldingAfter`), and write functions out rather than joining them. A row's
  quantity is positive, which the request models require; the trim of a breach is
  stated for every integer; `MarketAssumption` says what closes, rates and splits
  may be.
- `Backtest`'s loops are recursive functions over `Signals`, which reads a
  prefix. The MACD strategy passes over days without an average, which the model
  had not said.
- `RegistryAssumption` says that the POSTs of a behaviour are finitely many.
- `Feeds` is a module of its own, so that the theorems are about the formula TLC
  checks.

Only model-checked, with the reason:

- `DueNeverForever`, `EventuallyRebased`, `OutageIsToldIfSeen`,
  `EveryoneGetsATurn`, `GoneIsForgotten`, `NoMarketStarves`,
  `FollowedGetsRegistered`, `AskedIsServed`: liveness under fairness, which the
  provers do not do.
- The runs that expect a violation.

## Plan

Open: the lost and misstamped PUTs of the rebase as runs of their own; intraday
bars; dividends.

## Not modelled

The client's hooks: their order is decided by React and the browser, and the
server's modules know them as a peer that asks, polls, connects and leaves.
`SingleFlight` has no caller but its tests. The rate limiter is one counter and
two statements. Authentication keeps no state on the server. Indicators, price
adjustment and screens are floating-point series without concurrent state; the
read-only routes assemble answers from caches. News, sentiment, earnings and
financials fetchers poll and upsert, last write wins. The Telegram bot links
accounts. `PROJECT.json` gives the reason for each component, and for a part
that is modelled partly what is left out of it.
