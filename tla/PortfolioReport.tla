-------------------------- MODULE PortfolioReport --------------------------
(***************************************************************************)
(* What GET /portfolio/analytics, /portfolio/realized, /portfolio/         *)
(* performance and the dashboard state about a book: the rates, the valued *)
(* positions, the totals, the allocation, the open risk, the concentration *)
(* check and the equity curve, all computed from the fold of PortfolioFold.*)
(*                                                                         *)
(* A market m holds what the caches and tables hold when a request reads   *)
(* them: quotes, funds (NAV quotes), fx_quote, closes, actions and stops.  *)
(***************************************************************************)
EXTENDS PortfolioFold

FX_FALLBACK_RATE == 33              \* FX_FALLBACK_RATES["USD"]
FX_PLAUSIBLE_RANGE == <<10, 100>>   \* FX_PLAUSIBLE_RANGE["USD"]

-----------------------------------------------------------------------------
(* Rates.  A quote of THBUSD=X is a price n/d, the pair <<n, d>>.          *)

\* The reading of the price, or of its reciprocal, that is inside the band.
\* [mutant] the price is taken to be the reciprocal, whatever it says.
read_fx_quoteReciprocal(q) ==
  IF q = None \/ q[1] <= 0 THEN None
  ELSE [rate |-> q[2] \div q[1], orientation |-> "reciprocal"]
read_fx_quote(q) ==
  LET In(n, d) == FX_PLAUSIBLE_RANGE[1] * d <= n /\ n <= FX_PLAUSIBLE_RANGE[2] * d
  IN IF q = None \/ q[1] <= 0 THEN None
     ELSE IF In(q[2], q[1]) THEN [rate |-> q[2] \div q[1], orientation |-> "reciprocal"]
     ELSE IF In(q[1], q[2]) THEN [rate |-> q[1] \div q[2], orientation |-> "direct"]
     ELSE None

\* The rate of the last dated row of that currency that has one; the book is
\* in the order of its dates, and of equal dates the later row wins.
last_known_rate(book, currency) ==
  LET rated == {k \in DOMAIN book : book[k].currency = currency /\ book[k].fx_rate # None}
  IN IF rated = {} THEN None ELSE book[Max(rated)].fx_rate

\* What resolve_fx answers, or None.
Rate == [rate : Nat \ {0}, source : {"identity", "live", "last_known", "fallback"}]
resolve_fx(currency, live, last_known) ==
  IF currency = BASE_CURRENCY THEN [rate |-> 1, source |-> "identity"]
  ELSE IF live # None THEN [rate |-> live.rate, source |-> "live"]
  ELSE IF last_known # None THEN [rate |-> last_known, source |-> "last_known"]
  ELSE IF currency = "USD" THEN [rate |-> FX_FALLBACK_RATE, source |-> "fallback"]
  ELSE None

estimated(rate) == rate.source \notin {"identity", "live"}

\* The rate of every foreign currency of the book, and 1 for the base.
build_fx_rates(book, fx_quote) ==
  [c \in {book[k].currency : k \in DOMAIN book} \cup {BASE_CURRENCY} |->
     resolve_fx(c, IF c = "USD" THEN read_fx_quote(fx_quote) ELSE None,
                last_known_rate(book, c))]

-----------------------------------------------------------------------------
(* Positions and totals.                                                   *)

\* The cached quote if it carries a price, else the fund's NAV.
cached_quote(m, s) == IF m.quotes[s] # None THEN m.quotes[s] ELSE m.funds[s]
usable_price(price) == IF price # None /\ price > 0 THEN price ELSE None

\* Each lot's cost at its own rate if all have one, else at today's rate.
CostBase(h, rate) ==
  IF h.fx_complete THEN h.cost_basis_base ELSE h.cost_basis * rate.rate

\* Money is None wherever a conflict, a missing price or a missing rate leaves
\* it unknown.
value_holding(h, price, rate) ==
  LET conflict == currency_conflict(h)
      Known(ok, amount) == IF ok /\ ~conflict THEN amount ELSE None
      rated == rate # None
      priced == price # None
  IN [qty |-> h.qty, conflict |-> conflict, price |-> Known(priced, price),
      rate |-> Known(rated, rate),
      split_adjusted |-> h.split_adjusted, rights_unstatable |-> h.rights_unstatable,
      cost_basis |-> Known(TRUE, h.cost_basis),
      cost_basis_base |-> Known(rated, CostBase(h, rate)),
      cost_basis_source |-> IF h.fx_complete THEN "historical" ELSE "current_rate",
      unrealized_pl |-> Known(priced, price * h.qty - h.cost_basis),
      value_base |-> Known(priced /\ rated, price * h.qty * rate.rate),
      market_pl_base |-> Known(priced /\ rated, (price * h.qty - h.cost_basis) * rate.rate),
      fx_pl_base |-> Known(rated /\ h.fx_complete,
                           h.cost_basis * rate.rate - CostBase(h, rate))]

\* The currency a position is valued in: its rows agree on it, or it has none.
currency_of(h) == CHOOSE c \in h.currencies : TRUE

value_holdings(holdings, active, m, rates) ==
  [s \in active |-> value_holding(holdings[s], usable_price(cached_quote(m, s)),
                                  rates[currency_of(holdings[s])])]

\* Totals over the positions with one currency, a price and a rate; each of
\* the others is named under the first of these it lacks.
summarize(valued) ==
  LET conflict == {s \in DOMAIN valued : valued[s].conflict}
      unpriced == {s \in DOMAIN valued \ conflict : valued[s].price = None}
      no_rate == {s \in DOMAIN valued \ (conflict \cup unpriced) : valued[s].rate = None}
      priced == DOMAIN valued \ (conflict \cup unpriced \cup no_rate)
      Total(F(_)) == SumOf(priced, LAMBDA s : F(valued[s]))
      value == Total(LAMBDA v : v.value_base)
      cost == Total(LAMBDA v : v.cost_basis_base)
  IN [total_value |-> value, total_cost |-> cost, unrealized_pl |-> value - cost,
      market_pl |-> Total(LAMBDA v : v.market_pl_base),
      fx_pl |-> IF \E s \in priced : valued[s].fx_pl_base = None THEN None
                ELSE Total(LAMBDA v : v.fx_pl_base),
      fx_estimated |-> \E s \in priced : estimated(valued[s].rate),
      cost_basis_estimated |-> \E s \in priced : valued[s].cost_basis_source = "current_rate",
      split_adjusted_symbols |-> {s \in DOMAIN valued : valued[s].split_adjusted},
      rights_unstatable_symbols |-> {s \in DOMAIN valued : valued[s].rights_unstatable},
      priced_symbols |-> priced, unpriced_symbols |-> unpriced,
      fx_unavailable_symbols |-> no_rate, currency_conflict_symbols |-> conflict]

\* The positions no total speaks for, with the reason.
Inherited(totals) ==
  [s \in UNION {totals.currency_conflict_symbols, totals.unpriced_symbols,
                totals.fx_unavailable_symbols} |->
     IF s \in totals.currency_conflict_symbols THEN "currency_conflict"
     ELSE IF s \in totals.unpriced_symbols THEN "unpriced" ELSE "fx_unavailable"]

-----------------------------------------------------------------------------
(* Allocation, concentration and open risk.                                *)

\* [symbol -> value_base] for the slices, [symbol -> reason] for the rest.
build_allocation(valued, totals) ==
  [total_value |-> totals.total_value,
   slices |-> [s \in IF totals.total_value > 0 THEN totals.priced_symbols ELSE {} |->
                 valued[s].value_base],
   excluded |-> Inherited(totals)]

\* What to sell of each slice above the limit: the proceeds leave the total.
\* [mutant] the total is taken to stay as it is.
TrimFixedTotal(value, total, limit) == (100 * value - limit * total) \div 100
Trim(value, total, limit) == (100 * value - limit * total) \div (100 - limit)

build_concentration_check(allocation, limit) ==
  LET total == allocation.total_value
      over == {s \in DOMAIN allocation.slices : 100 * allocation.slices[s] > limit * total}
  IN [breaches |-> [s \in over |-> Trim(allocation.slices[s], total, limit)],
      not_checked |-> allocation.excluded]

\* Why a position that the totals count has no risk figure, or None.
RiskReason == {"no_stop", "ambiguous_stop", "stop_units_unknown", "stop_at_or_above_mark"}
risk_exclusion(v, levels) ==
  IF levels = {} THEN "no_stop"
  ELSE IF Cardinality(levels) > 1 THEN "ambiguous_stop"
  ELSE IF v.split_adjusted THEN "stop_units_unknown"
  ELSE IF \A l \in levels : l >= v.price THEN "stop_at_or_above_mark"
  ELSE None

build_open_risk(valued, totals, stops) ==
  LET Reason(s) == risk_exclusion(valued[s], stops[s])
      inherited == Inherited(totals)
      at_risk == {s \in totals.priced_symbols : Reason(s) = None}
      Stop(s) == CHOOSE l \in stops[s] : TRUE
      Risk(s) == (valued[s].price - Stop(s)) * valued[s].qty * valued[s].rate.rate
  IN [positions |-> [s \in at_risk |-> Risk(s)],
      open_risk |-> SumOf(at_risk, Risk),
      covered_value |-> SumOf(at_risk, LAMBDA s : valued[s].value_base),
      fx_estimated |-> \E s \in at_risk : estimated(valued[s].rate),
      excluded |-> [s \in DOMAIN inherited \cup (totals.priced_symbols \ at_risk) |->
                      IF s \in DOMAIN inherited THEN inherited[s] ELSE Reason(s)]]

\* The user's stop levels of the open positions.
_load_stops(m, active) == [s \in active |-> m.stops[s]]

\* The answer to GET /portfolio/analytics for a book and a market.
Analytics(book, m, limit) ==
  LET holdings == build_holdings(book, m.actions, None)
      valued == value_holdings(holdings, active_holdings(holdings), m,
                               build_fx_rates(book, m.fx_quote))
      totals == summarize(valued)
      allocation == build_allocation(valued, totals)
  IN [book |-> book, holdings |-> holdings, valued |-> valued, totals |-> totals, allocation |-> allocation,
      concentration |-> build_concentration_check(allocation, limit),
      open_risk |-> build_open_risk(valued, totals,
                                   _load_stops(m, active_holdings(holdings))),
      has_pending_prices |-> totals.unpriced_symbols # {}]

\* The dashboard's summary: nothing without a row to show, else the same totals
\* over the same caches.
Dashboard(book, m) ==
  LET holdings == build_holdings(book, m.actions, None)
      valued == value_holdings(holdings, active_holdings(holdings), m,
                               build_fx_rates(book, m.fx_quote))
      top == {s \in DOMAIN valued : ~valued[s].conflict /\ valued[s].price # None}
  IN IF top = {} THEN None ELSE summarize(valued)

-----------------------------------------------------------------------------
(* The equity curve.                                                       *)

\* One rate per symbol for every day; a symbol without one has no entry.
curve_fx_plan(holdings, rates) ==
  LET stated == {s \in DOMAIN holdings : /\ ~currency_conflict(holdings[s])
                                         /\ rates[currency_of(holdings[s])] # None}
  IN [s \in stated |-> rates[currency_of(holdings[s])].rate]

\* What a row adds to the quantity held, in the units of a day.
Signed(t, actions, day) ==
  LET qty == restate(t, split_factor(actions, t.date, day)).qty
  IN IF t.type = "BUY" THEN qty ELSE -qty

\* The net quantities of the rows up to a day, in that day's units.
compute_holdings_on(book, actions, day) ==
  LET upto == {k \in DOMAIN book : book[k].date <= day}
      Net(s) == SumOf({k \in upto : book[k].symbol = s},
                      LAMBDA k : Signed(book[k], actions[s], day))
  IN [s \in {x \in {book[k].symbol : k \in upto} : Net(x) > 0} |-> Net(s)]

\* The last raw close at or before a day (the code looks back five days).
close_on(closes, s, day) ==
  LET known == {d \in DOMAIN closes[s] : d <= day /\ closes[s][d] # None}
  IN IF known = {} THEN None ELSE closes[s][Max(known)]

\* One held position that cannot be stated drops the whole day.
\* [mutant] it drops only its own term.
statableSome(held, stated) == stated # {}
statable(held, stated) == held # {} /\ stated = held

\* The value of a day, or None.
CurvePoint(book, m, day) ==
  LET plan == curve_fx_plan(build_holdings(book, m.actions, None),
                            build_fx_rates(book, m.fx_quote))
      qty == compute_holdings_on(book, m.actions, day)
      stated == {s \in DOMAIN qty : s \in DOMAIN plan /\ close_on(m.closes, s, day) # None}
  IN IF ~statable(DOMAIN qty, stated) THEN None
     ELSE SumOf(stated, LAMBDA s : close_on(m.closes, s, day) * qty[s] * plan[s])
=============================================================================
