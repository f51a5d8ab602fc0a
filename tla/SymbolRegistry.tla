--------------------------- MODULE SymbolRegistry ---------------------------
(***************************************************************************)
(* How a symbol a user starts to follow gets its row in the stocks table,  *)
(* without which no name, NAV or fundamentals fetcher ever looks at it:    *)
(* the watchlist routes (backend/api/routes/watchlist.py), the tasks       *)
(* register_symbol and scan_unregistered (backend/workers/                 *)
(* symbol_registrar.py) and the weekly populate_index_constituents         *)
(* (backend/workers/index_populator.py).  The route only sends a task and  *)
(* forgets it; the task may be lost, fail twice or decline.                *)
(***************************************************************************)
EXTENDS Integers, FiniteSets

CONSTANTS
  Symbol,         \* spellings in capitals
  Stripped,       \* Symbol -> the spelling without blanks around it
  Shape,          \* Symbol -> what its spelling tells (see Shapes)
  Answer,         \* Symbol -> what Yahoo may say of it when asked (see Infos)
  Listed,         \* [symbols of the index lists -> their market there]
  Traded,         \* symbols with a transaction
  List,           \* watchlists
  Request,        \* POSTs under way at once
  Worker,         \* workers that run register_symbol
  MaxQueued,      \* bound: copies of one symbol's task waiting at once
  Null

\* crypto: ends in -USD.  odd: has a shape only fund codes have.  thai: ends in
\* .BK or .MAI.  bk: ends in .BK.  collides: a bare SET ticker that is also a
\* fund house.  prefix: begins like a fund house.
Shapes == [crypto : BOOLEAN, odd : BOOLEAN, thai : BOOLEAN, bk : BOOLEAN,
           collides : BOOLEAN, prefix : BOOLEAN]

Infos == [priced : BOOLEAN, exchange : {"thai", "us", "other"}, fund : BOOLEAN]

Markets == {"SET", "US", "FUND", "CRYPTO", "JP"}

RegistryAssumption ==
  /\ Stripped \in [Symbol -> Symbol]
  /\ \A s \in Symbol : Stripped[Stripped[s]] = Stripped[s]
  /\ Shape \in [Symbol -> Shapes]
  /\ Answer \in [Symbol -> SUBSET Infos]
  /\ DOMAIN Listed \subseteq Symbol
  /\ \A s \in DOMAIN Listed : Listed[s] \in Markets
  /\ Traded \subseteq Symbol
  /\ IsFiniteSet(Request)
  /\ MaxQueued \in Nat \ {0}

VARIABLES
  lists,      \* watchlists that exist
  items,      \* List -> Symbol -> rows of watchlist_items
  post,       \* Request -> the POST under way, or Null
  queue,      \* Symbol -> attempt (0, 1) -> register_symbol tasks waiting
  task,       \* Worker -> the register_symbol it executes, or Null
  stocks      \* Symbol -> market of its row in stocks, or Null

registryVars == <<lists, items, post, queue, task, stocks>>

-----------------------------------------------------------------------------
(* Classification.                                                         *)

\* is_ambiguous_bare_thai_symbol.
Ambiguous(s) == Shape[s].collides /\ ~Shape[s].thai

\* A plausible bug: any symbol that begins like a fund house is refused.
ClassifyByPrefix(s, info) ==
  IF Shape[s].prefix THEN "AMBIGUOUS" ELSE "US"

\* _classify_market, on what Yahoo answered (Null: the lookup failed, was empty
\* or was not tried).  The order of the tests is the code's.
Classify(s, info) ==
  LET sh == Shape[s]
      priced == info # Null /\ info.priced
  IN CASE sh.crypto -> "CRYPTO"
       [] ~sh.crypto /\ sh.odd -> "FUND"
       [] OTHER ->
            IF Ambiguous(s) /\ ~priced THEN "AMBIGUOUS"
            ELSE IF ~Ambiguous(s) /\ ~sh.thai /\ sh.prefix /\ ~priced THEN "FUND"
            ELSE IF sh.bk THEN "SET"
            ELSE IF info = Null THEN "US"
            ELSE CASE info.exchange = "thai" -> "SET"
                   [] info.exchange = "us" -> "US"
                   [] info.exchange = "other" -> IF info.fund THEN "FUND" ELSE "US"

-----------------------------------------------------------------------------
(* Watchlists.                                                             *)

CreateList(l) ==
  /\ l \notin lists
  /\ lists' = lists \cup {l}
  /\ UNCHANGED <<items, post, queue, task, stocks>>

\* The rows of the list go with it (cascade).
DeleteList(l) ==
  /\ l \in lists
  /\ lists' = lists \ {l}
  /\ items' = [items EXCEPT ![l] = [s \in Symbol |-> 0]]
  /\ UNCHANGED <<post, queue, task, stocks>>

Send(q, S) == [s \in Symbol |->
  IF s \in S /\ q[s][0] < MaxQueued THEN [q[s] EXCEPT ![0] = @ + 1] ELSE q[s]]

\* add_stock up to its answer: the ambiguous symbol is refused, so is one the
\* list already has (with two rows of it the query itself fails), each as it is
\* spelled, since the route capitalises a symbol and does not strip it; the task is
\* sent, or the broker cannot be reached and nobody is told.  The row is only
\* in the session: it is committed when the handler has returned.
AddStock(r, l, s) ==
  /\ post[r] = Null
  /\ ~Ambiguous(s)
  /\ l \in lists
  /\ items[l][s] = 0
  /\ post' = [post EXCEPT ![r] = [list |-> l, symbol |-> s]]
  /\ queue' \in {queue, Send(queue, {s})}
  /\ UNCHANGED <<lists, items, task, stocks>>

\* The commit fails when the list is gone.
Commit(r) ==
  /\ post[r] # Null
  /\ LET l == post[r].list
         s == post[r].symbol
     IN items' = IF l \in lists THEN [items EXCEPT ![l][s] = @ + 1] ELSE items
  /\ post' = [post EXCEPT ![r] = Null]
  /\ UNCHANGED <<lists, queue, task, stocks>>

RemoveStock(l, s) ==
  /\ l \in lists
  /\ items[l][s] > 0
  /\ items' = [items EXCEPT ![l][s] = 0]
  /\ UNCHANGED <<lists, post, queue, task, stocks>>

-----------------------------------------------------------------------------
(* Registration.                                                           *)

\* register_symbol up to its insert, on the stripped spelling.  It ends at once when
\* that has its row or is ambiguous.
Register(w, s, n) ==
  /\ task[w] = Null
  /\ queue[s][n] > 0
  /\ queue' = [queue EXCEPT ![s][n] = @ - 1]
  /\ LET sym == Stripped[s]
     IN IF stocks[sym] # Null THEN UNCHANGED task
        ELSE \E info \in Answer[sym] \cup {Null} :
               task' = [task EXCEPT ![w] =
                          IF Classify(sym, info) = "AMBIGUOUS" THEN Null
                          ELSE [symbol |-> s, market |-> Classify(sym, info), attempt |-> n]]
  /\ UNCHANGED <<lists, items, post, stocks>>

\* INSERT ... ON CONFLICT (symbol) DO NOTHING: the first market stays.
Stored(s, m) == IF stocks[s] = Null THEN [stocks EXCEPT ![s] = m] ELSE stocks

Insert(w) ==
  /\ task[w] # Null
  /\ stocks' = Stored(Stripped[task[w].symbol], task[w].market)
  /\ task' = [task EXCEPT ![w] = Null]
  /\ UNCHANGED <<lists, items, post, queue>>

\* The database raises: one retry, with the spelling it was sent, then it is gone.
Fail(w) ==
  /\ task[w] # Null
  /\ LET s == task[w].symbol
     IN queue' = IF task[w].attempt = 0 /\ queue[s][1] < MaxQueued
                 THEN [queue EXCEPT ![s][1] = @ + 1] ELSE queue
  /\ task' = [task EXCEPT ![w] = Null]
  /\ UNCHANGED <<lists, items, post, stocks>>

Watched == {s \in Symbol : \E l \in List : items[l][s] > 0}

\* What scan_unregistered looks for in stocks, as it is spelled.
Scanned == Watched \cup Traded

\* scan_unregistered, every fifteen minutes.
Scan ==
  /\ \E s \in Scanned : stocks[s] = Null
  /\ queue' = Send(queue, {s \in Scanned : stocks[s] = Null})
  /\ UNCHANGED <<lists, items, post, task, stocks>>

\* populate_index_constituents inserts the symbols of its lists the same way.
Populate(s) ==
  /\ s \in DOMAIN Listed
  /\ stocks[s] = Null
  /\ stocks' = Stored(s, Listed[s])
  /\ UNCHANGED <<lists, items, post, queue, task>>

-----------------------------------------------------------------------------
Init ==
  /\ lists = {}
  /\ items = [l \in List |-> [s \in Symbol |-> 0]]
  /\ post = [r \in Request |-> Null]
  /\ queue = [s \in Symbol |-> [n \in {0, 1} |-> 0]]
  /\ task = [w \in Worker |-> Null]
  /\ stocks = [s \in Symbol |-> Null]

Next ==
  \/ \E l \in List : CreateList(l) \/ DeleteList(l)
  \/ \E r \in Request, l \in List, s \in Symbol : AddStock(r, l, s)
  \/ \E r \in Request : Commit(r)
  \/ \E l \in List, s \in Symbol : RemoveStock(l, s)
  \/ \E w \in Worker, s \in Symbol, n \in {0, 1} : Register(w, s, n)
  \/ \E w \in Worker : Insert(w) \/ Fail(w)
  \/ Scan
  \/ \E s \in Symbol : Populate(s)

Spec == Init /\ [][Next]_registryVars

-----------------------------------------------------------------------------
\* Types; more than one row of a symbol in a list takes concurrent POSTs, so
\* there are never more rows than POSTs.
TypeOK ==
  /\ lists \subseteq List
  /\ items \in [List -> [Symbol -> 0 .. Cardinality(Request)]]
  /\ post \in [Request -> {Null} \cup [list : List, symbol : Symbol]]
  /\ queue \in [Symbol -> [{0, 1} -> 0 .. MaxQueued]]
  /\ task \in [Worker -> {Null} \cup [symbol : Symbol, market : Markets, attempt : {0, 1}]]
  /\ stocks \in [Symbol -> Markets \cup {Null}]

\* A followed symbol is in stocks in the end, though the route's task may be lost,
\* fail and fail again ("scan_unregistered will catch it later", watchlist.py),
\* unless it is not followed any more: under its stripped spelling, which must not
\* be ambiguous (what is stored with a blank never gets a row of its own).
FollowedGetsRegistered ==
  \A s \in Symbol : ~Ambiguous(Stripped[s]) =>
    (s \in Scanned ~> stocks[Stripped[s]] # Null \/ s \notin Scanned)
=============================================================================
