------------------------------- MODULE Feeds -------------------------------
(***************************************************************************)
(* The components that share no state in this project, side by side:       *)
(* broadcast, market rotation, symbol registration, quote fetch, pivots,   *)
(* stops, daily bars, fund NAVs and backtests.  A behaviour is about one   *)
(* of them, chosen at the start; the others stay as they began.            *)
(***************************************************************************)
EXTENDS WsBroadcast

CONSTANTS
  NumSlots, Workers,                                                      \* PriceRotation
  Symbol, Stripped, Shape, Told, Listed, Traded, List, Request,           \* SymbolRegistry
  Registrar, MaxTasks,
  Symbols, MaxQueued,                                                     \* DataFetch
  Histories, FractalK, TolerancePct, BandBp, TopN, MinBars, Imports,      \* Levels
  PivotRun, User, Post, StopId, MaxMarks,
  LastSession, Keep, Canary, MaxJobs,                                     \* Bars
  Project, Own, House, Tries, Class, Asked, Alike, LookBack, LastDay,     \* FundNav
  Closes, Fast, Slow, Signal, Period, Oversold, Overbought, StdDev,       \* Backtest
  Enough, MaxBars

VARIABLES
  part,
  counter, open, stocked, run, served, waited,                            \* PriceRotation
  lists, items, adding, queue, task, stocks,                              \* SymbolRegistry
  symbol, quoted, nav, notFound, dedupe, waiting, fetch, page,            \* DataFetch
  bars, manual, auto, pivot, stops, marks, post,                          \* Levels
  now, db, cache, job,                                                    \* Bars
  day, navs, listed, kept,                                                \* FundNav
  series                                                                  \* Backtest

rotationVars == <<counter, open, stocked, run, served, waited>>
registryVars == <<lists, items, adding, queue, task, stocks>>
fetchVars == <<symbol, quoted, nav, notFound, dedupe, waiting, fetch, page>>
levelVars == <<bars, manual, auto, pivot, stops, marks, post>>
barVars == <<now, db, cache, job>>
navVars == <<day, navs, listed, kept>>
feedsVars == <<part, wsVars, rotationVars, registryVars, fetchVars, levelVars, barVars, navVars,
               series>>

R == INSTANCE PriceRotation
Registry == INSTANCE SymbolRegistry WITH
              Answer <- Told, Worker <- Registrar, MaxQueued <- MaxTasks, post <- adding
Fetches == INSTANCE DataFetch
L == INSTANCE Levels
B == INSTANCE Bars WITH LastDay <- LastSession
N == INSTANCE FundNav
T == INSTANCE Backtest

ASSUME FeedsAssumption ==
  /\ R!RotationAssumption /\ Registry!RegistryAssumption /\ Fetches!DataFetchAssumption
  /\ L!LevelsAssumption /\ L!LevelsNullAssumption /\ B!BarsAssumption
  /\ N!FundNavAssumption /\ N!NamedAssumption
  /\ T!BacktestAssumption

-----------------------------------------------------------------------------
Part == {"broadcast", "rotation", "registry", "fetch", "pivots", "stops", "bars", "nav",
         "backtest"}

FeedsInit ==
  /\ part \in Part
  /\ Init /\ R!Init /\ Registry!Init /\ Fetches!Init /\ L!Init /\ B!Init /\ N!Init /\ T!Init
  /\ part = "rotation" \/ (counter = 0 /\ open = R!NeverClosed /\ stocked = R!NeverEmpty)
  /\ part = "fetch" \/ symbol = CHOOSE s \in Symbols : TRUE
  /\ part = "pivots" \/ bars = CHOOSE h \in Histories : TRUE

\* All the others stay as they are.
Elsewhere(p) ==
  /\ IF p = "broadcast" THEN TRUE ELSE UNCHANGED wsVars
  /\ IF p = "rotation" THEN TRUE ELSE UNCHANGED rotationVars
  /\ IF p = "registry" THEN TRUE ELSE UNCHANGED registryVars
  /\ IF p = "fetch" THEN TRUE ELSE UNCHANGED fetchVars
  /\ IF p \in {"pivots", "stops"} THEN TRUE ELSE UNCHANGED levelVars
  /\ IF p = "bars" THEN TRUE ELSE UNCHANGED barVars
  /\ IF p = "nav" THEN TRUE ELSE UNCHANGED navVars
  /\ IF p = "backtest" THEN TRUE ELSE UNCHANGED series

\* A step of part p.
At(p, A) == part = p /\ UNCHANGED part /\ A /\ Elsewhere(p)

FeedsNext ==
  \/ At("broadcast", Next) \/ At("rotation", R!Next) \/ At("registry", Registry!Next)
  \/ At("fetch", Fetches!Next) \/ At("pivots", L!PivotNext) \/ At("stops", L!UserNext)
  \/ At("bars", B!Next) \/ At("nav", N!Next) \/ At("backtest", T!Next)

FeedsSpec == FeedsInit /\ [][FeedsNext]_feedsVars

-----------------------------------------------------------------------------
\* The types of every part.
AllTypes ==
  TypeOK /\ R!TypeOK /\ Registry!TypeOK /\ Fetches!TypeOK /\ L!TypeOK /\ B!TypeOK /\ N!TypeOK
  /\ T!TypeOK

\* price_fetcher: no open market is passed over for a whole round by the runs of
\* one process, nor starved by overlapping ones.
EveryMarketIsServed ==
  /\ [][R!RoundIsShort']_rotationVars
  /\ part = "rotation" => R!NoMarketStarves

\* symbol_registrar: what users follow gets its row.
FollowedGetsRegistered == part = "registry" => Registry!FollowedGetsRegistered

\* cache_orchestrator: the page that asks for a quote gets it.
AskedIsServed == Fetches!AskedIsServed

\* sr_auto_pivot and sr_levels: a run puts every side right and a request moves
\* the stop, when nobody else's commit comes between.
LevelsSetRight == L!PivotsSetRight /\ L!StopIsMoved

\* bar_hygiene: no stored row is without prices.
StoredBarsHavePrices == B!StoredBarsHavePrices

\* fund_fetcher: the NAV is the fund's own, of the symbol's class, and goes forward.
NavIsTheFunds == [][N!OwnNav']_navVars /\ N!GoesForward

\* backtesting_engine: trades are not decided with hindsight, and the report on
\* them agrees with itself.
BacktestIsSound == T!NoHindsight /\ T!ReportAddsUp
=============================================================================
