--------------------------- MODULE PortfolioBook ---------------------------
(***************************************************************************)
(* One user's portfolio: the requests that add, edit and delete            *)
(* transactions, each reading before it writes, and every number that the  *)
(* portfolio endpoints and the dashboard compute from the rows.            *)
(*                                                                         *)
(* Rows carry no sequence but their date: a read returns them in any order *)
(* sorted by date, and the properties speak of every such order.           *)
(***************************************************************************)
EXTENDS PortfolioReport

CONSTANTS
  Symbol,
  TxnId,
  Trade,     \* the bodies of POST /portfolio/transactions
  Patch,     \* the bodies of PUT: a field and its new value
  Market,    \* what caches and tables may hold at once
  Limit,     \* concentration_limit_pct
  Today,
  MaxWrites  \* bound on the requests of a behaviour

ASSUME PortfolioAssumption ==
  /\ Today \in Nat /\ MaxWrites \in Nat /\ Limit \in 1 .. 99
  /\ None \notin Int /\ None \notin RiskReason /\ None \notin Rate

VARIABLES
  txns,      \* [TxnId -> the committed row, or None]
  request,   \* [TxnId -> the request between its reads and its commit, or None]
  market,    \* the caches and tables the reads find
  writes     \* the requests begun

vars == <<txns, request, market, writes>>

Row == [symbol : Symbol, type : {"BUY", "SELL"}, qty : Nat \ {0}, price : Nat, fee : Nat,
        currency : {"THB", "USD"}, fx_rate : (Nat \ {0}) \cup {None}, date : Nat]

\* TransactionCreate and TransactionUpdate: what the API accepts.
ValidTrade(t) == t.qty > 0 /\ t.price >= 0 /\ t.fee >= 0 /\ (t.fx_rate # None => t.fx_rate > 0)
ValidPatch(p) ==
  /\ p.field \in {"qty", "fx_rate"} /\ p.value # None => p.value > 0
  /\ p.field \in {"price", "fee"} => p.value >= 0

\* The types pydantic parses a body to (no field of a PUT names the symbol or
\* the type of the row), and what a market holds: a NUMERIC ratio is a quotient.
Body == [symbol : Symbol, type : {"BUY", "SELL"}, qty : Int, price : Int, fee : Int,
         currency : {"THB", "USD"}, fx_rate : Int \cup {None}, date : Nat]
ASSUME BodyAssumption ==
  /\ Trade \subseteq Body
  /\ \A p \in Patch : \/ p.field \in {"qty", "price", "fee"} /\ p.value \in Int
                      \/ p.field = "currency" /\ p.value \in {"THB", "USD"}
                      \/ p.field = "date" /\ p.value \in Nat
                      \/ p.field = "fx_rate" /\ p.value \in Int \cup {None}
Action == [action_type : STRING, ex_date : Nat, ratio : {None} \cup (Int \X (Nat \ {0}))]
ASSUME MarketAssumption ==
  \A m \in Market :
    /\ m.fx_quote \in {None} \cup (Int \X (Nat \ {0}))
    /\ \A s \in Symbol :
         /\ m.quotes[s] \in Int \cup {None} /\ m.funds[s] \in Int \cup {None}
         /\ IsFiniteSet(m.actions[s]) /\ m.actions[s] \subseteq Action
         /\ IsFiniteSet(m.stops[s]) /\ m.stops[s] \subseteq Nat
         /\ IsFiniteSet(DOMAIN m.closes[s]) /\ DOMAIN m.closes[s] \subseteq Nat
         /\ \A d \in DOMAIN m.closes[s] : m.closes[s][d] \in Nat \cup {None}

Ids == {i \in TxnId : txns[i] # None}
RowsOf(s) == {i \in Ids : txns[i].symbol = s}
Currencies(ids) == {txns[i].currency : i \in ids}

\* ORDER BY date: every order of the rows in which no date decreases.
OrdersOf(ids) ==
  LET n == Cardinality(ids)
      ByDate(p) == \A k \in 2 .. n : txns[p[k - 1]].date <= txns[p[k]].date
  IN {[k \in 1 .. n |-> txns[p[k]]] : p \in {q \in SetToSeqs(ids) : ByDate(q)}}
Books == OrdersOf(Ids)

\* What the reads state, for each of these orders.
Holdings == {build_holdings(book, market.actions, None) : book \in Books}
Reports == {Analytics(book, market, Limit) : book \in Books}

\* A request in flight has written nothing: what the properties of the reads
\* say of the state without requests, which Rollback reaches, holds for it too.
Settled == \A i \in TxnId : request[i] = None

Init ==
  /\ txns = [i \in TxnId |-> None]
  /\ request = [i \in TxnId |-> None]
  /\ market \in Market
  /\ writes = 0

-----------------------------------------------------------------------------
\* _assert_currency_consistent: the rows of the symbol, closed lots included.
\* [mutant] only the rows that open a position are looked at.
currency_consistentBuys(ids, currency) ==
  \A i \in ids : txns[i].type = "BUY" => txns[i].currency = currency
currency_consistent(ids, currency) == Currencies(ids) \subseteq {currency}

\* 1 for the base currency; the rate given; else the live rate, for a trade of
\* today or of a day away; else none.
_record_fx_rate(trade) ==
  IF trade.currency = BASE_CURRENCY THEN 1
  ELSE IF trade.fx_rate # None THEN trade.fx_rate
  ELSE IF trade.date < Today - 1 \/ trade.date > Today + 1 THEN None
  ELSE LET reading == read_fx_quote(market.fx_quote)
       IN IF reading = None THEN None ELSE reading.rate

\* The requests on the symbol that a commit overtakes; i is the one committing.
Overtaken(i, s) ==
  [j \in TxnId |-> IF j # i /\ request[j] # None /\ request[j].symbol = s
                   THEN [request[j] EXCEPT !.overtaken = TRUE]
                   ELSE IF j = i THEN None ELSE request[j]]

\* add_transaction: the reads of the checks; then the insert and the commit.
BeginAdd(i, trade) ==
  /\ writes < MaxWrites
  /\ writes' = writes + 1
  /\ ValidTrade(trade)
  /\ txns[i] = None
  /\ request[i] = None
  /\ currency_consistent(RowsOf(trade.symbol), trade.currency)
  /\ request' = [request EXCEPT ![i] = [symbol |-> trade.symbol, body |-> trade,
                                        overtaken |-> FALSE]]
  /\ UNCHANGED <<txns, market>>

CommitAdd(i) ==
  /\ request[i] # None
  /\ txns[i] = None
  /\ request[i].body \in Trade
  /\ LET trade == request[i].body
     IN /\ txns' = [txns EXCEPT ![i] = [trade EXCEPT !.fx_rate = _record_fx_rate(trade)]]
        /\ request' = Overtaken(i, trade.symbol)
  /\ UNCHANGED <<market, writes>>

\* update_transaction: only an edit of the currency is checked, against the
\* symbol's other rows; no field is recomputed from another.
BeginUpdate(i, patch) ==
  /\ writes < MaxWrites
  /\ writes' = writes + 1
  /\ ValidPatch(patch)
  /\ i \in Ids
  /\ request[i] = None
  /\ txns[i][patch.field] # patch.value
  /\ patch.field = "currency" =>
       currency_consistent(RowsOf(txns[i].symbol) \ {i}, patch.value)
  /\ request' = [request EXCEPT ![i] = [symbol |-> txns[i].symbol, body |-> patch,
                                        overtaken |-> FALSE]]
  /\ UNCHANGED <<txns, market>>

CommitUpdate(i) ==
  /\ i \in Ids
  /\ request[i] # None
  /\ LET patch == request[i].body
     IN txns' = [txns EXCEPT ![i] = [txns[i] EXCEPT ![patch.field] = patch.value]]
  /\ request' = Overtaken(i, txns[i].symbol)
  /\ UNCHANGED <<market, writes>>

\* A request on the deleted row finds no row to write, and fails.
delete_transaction(i) ==
  /\ i \in Ids
  /\ txns' = [txns EXCEPT ![i] = None]
  /\ request' = [request EXCEPT ![i] = None]
  /\ UNCHANGED <<market, writes>>

\* The request fails after its reads: its transaction is rolled back.
Rollback(i) ==
  /\ request[i] # None
  /\ request' = [request EXCEPT ![i] = None]
  /\ UNCHANGED <<txns, market, writes>>

\* Quotes come and expire, splits are recorded, stops are set.
MarketMoves ==
  /\ market' \in Market \ {market}
  /\ UNCHANGED <<txns, request, writes>>

Next ==
  \/ \E i \in TxnId : \/ \E trade \in Trade : BeginAdd(i, trade)
                      \/ CommitAdd(i)
                      \/ \E patch \in Patch : BeginUpdate(i, patch)
                      \/ CommitUpdate(i)
                      \/ delete_transaction(i)
                      \/ Rollback(i)
  \/ MarketMoves

Spec == Init /\ [][Next]_vars

-----------------------------------------------------------------------------
(* Properties.                                                             *)

RowsAt(book, s) == {k \in DOMAIN book : book[k].symbol = s}
Conflict(s) == Cardinality(Currencies(RowsOf(s))) > 1
LotCost(t) == IF t.type = "BUY" THEN t.qty * t.price + t.fee ELSE 0

\* Type correctness of the rows, the requests and the market.
TypeOK ==
  /\ txns \in [TxnId -> Row \cup {None}]
  /\ request \in [TxnId -> {None} \cup
       [symbol : Symbol, body : Trade \cup Patch, overtaken : BOOLEAN]]
  /\ market \in Market
  /\ writes \in 0 .. MaxWrites

\* Rule 6 (a), "the cost released and the cost still held add up to the cost
\* put in", natively and, when every row has a rate, in the base currency:
\* through oversold positions, splits between the lots and positions closed
\* and opened again.
CostIsConserved ==
  Settled => \A book \in Books : \A holdings \in {build_holdings(book, market.actions, None)} :
    \A s \in DOMAIN holdings :
      LET h == holdings[s]
          rows == RowsAt(book, s)
      IN /\ SumOf(rows, LAMBDA k : LotCost(book[k]))
              = h.cost_basis + SumOver(h.sales, LAMBDA x : x.cost_released)
         /\ (\A k \in rows : TxnFxRate(book[k]) # None) =>
              SumOf(rows, LAMBDA k : LotCost(book[k]) * TxnFxRate(book[k]))
                = h.cost_basis_base + SumOver(h.sales, LAMBDA x : x.cost_released_base)

\* Every sale is in one closed round trip or in the open one, trips follow one
\* another in time, and what the book realized beyond its closed trips is what
\* the sales of still open positions made (where every sale converts).
OpenSales(h) == SubSeq(h.sales, h.round_open_index + 1, Len(h.sales))
TripsPartitionSales ==
  Settled => \A holdings \in Holdings : \A realized \in {build_realized(holdings)} :
    /\ \A s \in DOMAIN holdings :
         LET h == holdings[s]
             trips == h.closed_trades
         IN /\ SumOver(trips, LAMBDA x : x.sales) + Len(OpenSales(h)) = Len(h.sales)
            /\ SumOver(trips, LAMBDA x : x.realized_pl)
                 + SumOver(OpenSales(h), LAMBDA x : x.realized_pl)
                 = SumOver(h.sales, LAMBDA x : x.realized_pl)
            /\ \A k \in DOMAIN trips :
                 /\ trips[k].opened_on <= trips[k].closed_on
                 /\ k > 1 => trips[k - 1].closed_on <= trips[k].opened_on
    /\ realized.realized_unavailable_symbols = {} =>
         realized.realized_pl = realized.closed_positions_pl
           + SumOf(DOMAIN holdings \ realized.currency_conflict_symbols,
               LAMBDA s : SumOver(OpenSales(holdings[s]), LAMBDA x : x.realized_pl_base))

\* The rows of the symbol since the sale that last brought it to zero.
SinceFlat(book, s) ==
  LET rows == RowsAt(book, s)
      Net(k) == SumOf({j \in rows : j <= k},
                      LAMBDA j : Signed(book[j], market.actions[s], None))
      flat == {k \in rows : book[k].type = "SELL" /\ Net(k) = 0}
  IN {k \in rows : \A j \in flat : j < k}

\* The totals split the profit into a market and a currency part exactly when
\* every lot bought since its position was last flat has a rate; the parts
\* then add up.
FxReturnIsKnown ==
  Settled => \A report \in Reports :
    LET totals == report.totals
    IN /\ totals.fx_pl # None => totals.market_pl + totals.fx_pl = totals.unrealized_pl
       /\ totals.fx_pl # None <=>
            \A s \in totals.priced_symbols : \A k \in SinceFlat(report.book, s) :
              report.book[k].type = "BUY" => TxnFxRate(report.book[k]) # None

\* Every open position is in the ring or named with a reason, and the same of
\* the risk report and of the limit check; the slices are the total, which the
\* dashboard states too, the risk is within the value it speaks for, and selling
\* a breach's trim lands on the limit.
ExposureIsAccounted ==
  Settled => \A report \in Reports :
    LET total == report.totals.total_value
        slices == report.allocation.slices
        risk == report.open_risk
        named == DOMAIN report.allocation.excluded
        breaches == report.concentration.breaches
    IN /\ DOMAIN slices \cup named = DOMAIN report.valued
       /\ DOMAIN slices \cap named = {}
       /\ SumOf(DOMAIN slices, LAMBDA s : slices[s]) = total
       /\ Dashboard(report.book, market) = IF total > 0 THEN report.totals ELSE None
       /\ DOMAIN risk.positions \cup DOMAIN risk.excluded = DOMAIN report.valued
       /\ DOMAIN risk.positions \cap DOMAIN risk.excluded = {}
       /\ \A s \in DOMAIN risk.positions : risk.positions[s] > 0
       /\ risk.open_risk <= risk.covered_value /\ risk.covered_value <= total
       /\ DOMAIN report.concentration.not_checked = named
       /\ \A s \in DOMAIN breaches :
            100 * (slices[s] - breaches[s]) - Limit * (total - breaches[s]) \in 0 .. 99 - Limit

\* portfolio_performance: "today's holdings/curve endpoint both end on the
\* same number", if no row or split lies ahead and the quotes are the closes;
\* a day on the curve speaks of the whole book.
CurveEndsAtBook ==
  Settled => \A report \in Reports :
    \A point \in {CurvePoint(report.book, market, Today)} :
      (/\ point # None
       /\ \A k \in DOMAIN report.book : report.book[k].date <= Today
       /\ \A s \in Symbol : \A a \in market.actions[s] : a.ex_date <= Today
       /\ \A s \in DOMAIN report.valued :
            LET close == close_on(market.closes, s, Today)
            IN close # None /\ usable_price(cached_quote(market, s)) = close)
      => point = report.totals.total_value /\ DOMAIN report.allocation.excluded = {}

\* A split alone puts no step into the curve: on its ex-date, with closes that
\* moved by the ratio only and no trade, the value is that of the day before.
NoStepAtSplit ==
  Settled => \A book \in Books : \A day \in 2 .. Today :
    LET Close(s, d) == close_on(market.closes, s, d)
        Ratio(s) == split_factor(market.actions[s], day - 1, day)
    IN (/\ \A k \in DOMAIN book : book[k].date # day
        /\ \A s \in symbols_of(book) :
             /\ Close(s, day - 1) # None /\ Close(s, day) # None
             /\ Close(s, day) * Ratio(s)[2] = Close(s, day - 1) * Ratio(s)[1])
       => CurvePoint(book, market, day) = CurvePoint(book, market, day - 1)

\* Rule 6 (b): average cost gives "the same number every time it is asked",
\* as long as no day has both a purchase and a sale and nothing is oversold.
AverageIgnoresSameDayOrder ==
  Settled => \A s \in Symbol :
    LET rows == RowsOf(s)
        folds == {build_holdings(book, market.actions, None)[s] : book \in OrdersOf(rows)}
        Amounts(h) ==
          <<h.qty, h.cost_basis, h.cost_basis_base, h.fx_complete, h.realized_fees,
            SumOver(h.sales, LAMBDA x : x.realized_pl), Len(h.closed_trades)>>
    IN (/\ rows # {}
        /\ \A i, j \in rows : txns[i].type # txns[j].type => txns[i].date # txns[j].date
        /\ \A h \in folds : \A x \in ToSet(h.sales) : ~x.oversold)
       => Cardinality({Amounts(h) : h \in folds}) = 1

\* Rule 5, "the write path rejects": a symbol comes to hold two currencies only
\* by a request that another one on the symbol overtook after its check.
ConflictNeedsOverlap ==
  [][\A s \in Symbol : ~Conflict(s) /\ Conflict(s)' =>
       \E i \in TxnId : /\ request[i] # None /\ request[i].symbol = s
                        /\ request[i].overtaken /\ request'[i] = None]_vars

\* Rule 4, FX-1: a foreign row's rate was "observed when the trade was
\* recorded", given by the user or read from a quote.
RatesAreObserved ==
  \A i \in Ids : txns[i].currency # BASE_CURRENCY =>
    \/ txns[i].fx_rate = None
    \/ \E trade \in Trade : trade.fx_rate = txns[i].fx_rate
    \/ \E patch \in Patch : patch.field = "fx_rate" /\ patch.value = txns[i].fx_rate
    \/ \E m \in Market : /\ read_fx_quote(m.fx_quote) # None
                         /\ read_fx_quote(m.fx_quote).rate = txns[i].fx_rate
=============================================================================
