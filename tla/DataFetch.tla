----------------------------- MODULE DataFetch -----------------------------
(***************************************************************************)
(* How a quote nobody caches gets into the cache when a page asks for it:  *)
(* the read-only quote routes, request_data_fetch with its dedupe key and  *)
(* its fallback (services/cache_orchestrator.py), the worker task          *)
(* process_fetch_request, the warm-up coroutine of main.py and of the      *)
(* dashboard, and the page that polls (frontend hooks/usePriceUpdates.ts). *)
(*                                                                         *)
(* One symbol; its quote is there or not.  Redis is also the broker: a     *)
(* restart loses the cache, the dedupe key and the waiting tasks.          *)
(***************************************************************************)
EXTENDS Integers

CONSTANTS
  Symbols,        \* the kinds of symbol a behaviour may be about
  MaxQueued,      \* bound: tasks waiting at once
  Null

\* plain: the spelling passes _YAHOO_SYMBOL_RE, which is also the worker's
\* _VALID_SYMBOL_RE.  fund: stocks says its market is FUND.
Kinds == [plain : BOOLEAN, fund : BOOLEAN]

DataFetchAssumption ==
  /\ Symbols \subseteq Kinds
  /\ MaxQueued \in Nat \ {0}

\* Who fetches: a worker, the API process itself, the warm-up.  Bound: one fetch
\* of each at a time.
Fetcher == {"task", "fallback", "warm"}

VARIABLES
  symbol,     \* what the symbol is; never changes
  quoted,     \* quote:{symbol} is cached
  nav,        \* fund:{symbol} is cached
  notFound,   \* the not-found mark is cached
  dedupe,     \* fetch_request:{symbol}:quote is set
  waiting,    \* process_fetch_request tasks in the broker
  fetch,      \* Fetcher -> how far its fetch is, or Null
  page        \* "away", "asked" (asks and shows no price yet), "shown", or "cut":
              \* it shows no price and its request is cut before the symbol

fetchVars == <<symbol, quoted, nav, notFound, dedupe, waiting, fetch, page>>

-----------------------------------------------------------------------------
(* The page.                                                               *)

\* A page sends all its symbols in one request, of which get_quotes_batch takes
\* the first 30: one further down is neither looked up nor fetched.
Open ==
  /\ page = "away"
  /\ page' \in {"asked", "cut"}
  /\ UNCHANGED <<symbol, quoted, nav, notFound, dedupe, waiting, fetch>>

Close ==
  /\ page # "away"
  /\ page' = "away"
  /\ UNCHANGED <<symbol, quoted, nav, notFound, dedupe, waiting, fetch>>

\* The page's list changes and takes the symbol past the thirtieth place or back.
\* (A price that is shown stays; such a page may stop polling, nothing makes it.)
ListChanges ==
  /\ \/ page = "asked" /\ page' = "cut"
     \/ page = "cut" /\ page' = "asked"
  /\ UNCHANGED <<symbol, quoted, nav, notFound, dedupe, waiting, fetch>>

\* A poll answered from quote:{symbol}, or from the fund's NAV.
Hit ==
  /\ page \in {"asked", "shown"}
  /\ quoted \/ nav
  /\ page' = "shown"
  /\ UNCHANGED <<symbol, quoted, nav, notFound, dedupe, waiting, fetch>>

\* A plausible bug: a task that cannot be sent is only logged.
NoFallback == fetch

\* asyncio.create_task(_asyncio_fetch_fallback(...)).
Fallback == [fetch EXCEPT !["fallback"] = "asking"]

\* The task is sent, or sending raises and the API process fetches by itself.
Dispatch ==
  \/ waiting < MaxQueued /\ waiting' = waiting + 1 /\ UNCHANGED fetch
  \/ fetch["fallback"] = Null /\ fetch' = Fallback /\ UNCHANGED waiting

\* A poll that finds nothing: request_data_fetch, with its SET NX of the key (one
\* that finds the key set ends there).  The batch route asks for no fund, GET
\* /{symbol}/quote and the portfolio do not look at the market, and the
\* portfolio asks for the exchange rate though its spelling is not plain, so any
\* symbol may be asked for.
Miss ==
  /\ page \in {"asked", "shown"}
  /\ ~quoted /\ ~nav
  /\ ~dedupe
  /\ dedupe' = TRUE
  /\ Dispatch
  /\ UNCHANGED <<symbol, quoted, nav, notFound, page>>

\* A poll during which Redis raises: everything is a miss and nothing dedupes.
BlindMiss ==
  /\ page \in {"asked", "shown"}
  /\ Dispatch
  /\ UNCHANGED <<symbol, quoted, nav, notFound, dedupe, page>>

-----------------------------------------------------------------------------
(* The fetches.                                                            *)

\* A worker takes a task; it refuses a symbol that is not plain.
TakeTask ==
  /\ waiting > 0
  /\ fetch["task"] = Null
  /\ waiting' = waiting - 1
  /\ fetch' = IF symbol.plain THEN [fetch EXCEPT !["task"] = "asking"] ELSE fetch
  /\ UNCHANGED <<symbol, quoted, nav, notFound, dedupe, page>>

\* _cache_quote_background: it reads the cache,
Warm ==
  /\ fetch["warm"] = Null
  /\ ~quoted
  /\ fetch' = [fetch EXCEPT !["warm"] = "looking"]
  /\ UNCHANGED <<symbol, quoted, nav, notFound, dedupe, waiting, page>>

\* and fetch_quote_now reads it again, then the not-found mark, or asks Yahoo
\* whatever they say when Redis raises.
Look ==
  /\ fetch["warm"] = "looking"
  /\ \E next \in {"asking", IF quoted THEN "again" ELSE IF notFound THEN Null ELSE "asking"} :
       fetch' = [fetch EXCEPT !["warm"] = next]
  /\ UNCHANGED <<symbol, quoted, nav, notFound, dedupe, waiting, page>>

\* Yahoo gives a price.
Priced(f) ==
  /\ fetch[f] = "asking"
  /\ fetch' = [fetch EXCEPT ![f] = "priced"]
  /\ UNCHANGED <<symbol, quoted, nav, notFound, dedupe, waiting, page>>

\* Yahoo gives none.  fetch_quote_direct answers None for a symbol it does not
\* know and just so for a 429, for any other status, for its own timeouts and
\* for an error on the way.  Only fetch_quote_now leaves a mark.
Unknown(f) ==
  /\ fetch[f] = "asking"
  /\ notFound' = (notFound \/ f = "warm")
  /\ fetch' = [fetch EXCEPT ![f] = Null]
  /\ UNCHANGED <<symbol, quoted, nav, dedupe, waiting, page>>

\* What is left to do when the quote has been written (or not: the error is
\* swallowed): _cache_quote_background writes it once more.
AfterStore(f) ==
  [fetch EXCEPT ![f] = IF f = "warm" /\ @ = "priced" THEN "again" ELSE Null]

Store(f) ==
  /\ fetch[f] \in {"priced", "again"}
  /\ quoted' = TRUE
  /\ fetch' = AfterStore(f)
  /\ UNCHANGED <<symbol, nav, notFound, dedupe, waiting, page>>

\* The fetch exceeds its wait_for or its authentication raises, or the write does.
FetchFails(f) ==
  /\ fetch[f] # Null
  /\ fetch' = AfterStore(f)
  /\ UNCHANGED <<symbol, quoted, nav, notFound, dedupe, waiting, page>>

\* The process dies; a task is delivered again (acks_late).
Die(f) ==
  /\ fetch[f] # Null
  /\ fetch' = [fetch EXCEPT ![f] = Null]
  /\ waiting' = IF f = "task" /\ waiting < MaxQueued THEN waiting + 1 ELSE waiting
  /\ UNCHANGED <<symbol, quoted, nav, notFound, dedupe, page>>

-----------------------------------------------------------------------------
(* Redis.                                                                  *)

\* The other feeds (price_fetcher, alert_symbol_refresher) store a quote.
Feed ==
  /\ quoted' = TRUE
  /\ UNCHANGED <<symbol, nav, notFound, dedupe, waiting, fetch, page>>

\* fund_fetcher stores the NAV.
FeedNav ==
  /\ symbol.fund
  /\ nav' = TRUE
  /\ UNCHANGED <<symbol, quoted, notFound, dedupe, waiting, fetch, page>>

\* quote: 60 or 120 s.  not-found mark: 300 s.  NAV: a day.
QuoteExpires ==
  /\ quoted /\ quoted' = FALSE
  /\ UNCHANGED <<symbol, nav, notFound, dedupe, waiting, fetch, page>>

MarkExpires ==
  /\ notFound /\ notFound' = FALSE
  /\ UNCHANGED <<symbol, quoted, nav, dedupe, waiting, fetch, page>>

NavExpires ==
  /\ nav /\ nav' = FALSE
  /\ UNCHANGED <<symbol, quoted, notFound, dedupe, waiting, fetch, page>>

\* The dedupe key is never deleted; it lives 30 s.
DedupeExpires ==
  /\ dedupe /\ dedupe' = FALSE
  /\ UNCHANGED <<symbol, quoted, nav, notFound, waiting, fetch, page>>

Restart ==
  /\ quoted' = FALSE /\ nav' = FALSE /\ notFound' = FALSE /\ dedupe' = FALSE
  /\ waiting' = 0
  /\ UNCHANGED <<symbol, fetch, page>>

-----------------------------------------------------------------------------
Init ==
  /\ symbol \in Symbols
  /\ quoted = FALSE /\ nav = FALSE /\ notFound = FALSE /\ dedupe = FALSE
  /\ waiting = 0
  /\ fetch = [f \in Fetcher |-> Null]
  /\ page = "away"

Ends(f) == Unknown(f) \/ Store(f) \/ FetchFails(f)

Next ==
  \/ Open \/ Close \/ ListChanges \/ Hit \/ Miss \/ BlindMiss
  \/ TakeTask \/ Warm \/ Look
  \/ \E f \in Fetcher : Priced(f) \/ Ends(f) \/ Die(f)
  \/ Feed \/ FeedNav \/ QuoteExpires \/ MarkExpires \/ NavExpires \/ DedupeExpires \/ Restart

Spec == Init /\ [][Next]_fetchVars

-----------------------------------------------------------------------------
\* Types of the cache, the broker and the fetches.
TypeOK ==
  /\ symbol \in Symbols
  /\ {quoted, nav, notFound, dedupe} \subseteq BOOLEAN
  /\ waiting \in 0 .. MaxQueued
  /\ fetch \in [Fetcher -> {Null, "asking", "looking", "priced", "again"}]
  /\ page \in {"away", "asked", "cut", "shown"}

\* A page that asks for a price gets it, or closes, or its list grows and the
\* request is cut before the symbol: whatever fetch, task or cached answer is lost
\* on the way, the dedupe key runs out and the page's next poll starts another
\* fetch (request_data_fetch, usePriceUpdates).  A page that is "cut" is never
\* served while it is (get_quotes_batch).
AskedIsServed ==
  symbol.plain /\ ~symbol.fund /\ page = "asked" ~> page \in {"shown", "away", "cut"}
=============================================================================
