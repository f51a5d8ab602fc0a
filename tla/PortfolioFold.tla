--------------------------- MODULE PortfolioFold ---------------------------
(***************************************************************************)
(* build_holdings: the fold that turns a user's transactions, read in the  *)
(* order of their dates, into one position per symbol at moving weighted   *)
(* average cost, with the sales and the closed round trips on the way, and *)
(* corporate_actions: the splits that restate a lot's units.               *)
(*                                                                         *)
(* Quantities and money are integers: the instances are chosen so that     *)
(* every division is exact, and QTY_EPSILON becomes zero.                  *)
(***************************************************************************)
EXTENDS Integers, SequencesExt, FiniteSetsExt

CONSTANT None

BASE_CURRENCY == "THB"

\* Sums over the members of a set and over the entries of a sequence.
SumOf(S, F(_)) == SumFunctionOnSet([x \in S |-> F(x)], S)
SumOver(seq, F(_)) == SumOf(DOMAIN seq, LAMBDA i : F(seq[i]))

-----------------------------------------------------------------------------
(* corporate_actions.  A ratio is a pair: 2:1 is <<1, 2>>.                 *)

\* Of the recorded rows, the splits with a usable ratio; rights only flag.
parse_actions(actions) ==
  [splits |-> {a \in actions : /\ a.action_type = "SPLIT"
                               /\ a.ratio # None
                               /\ a.ratio[1] > 0
                               /\ a.ratio[1] # a.ratio[2]},
   has_rights |-> \E a \in actions : a.action_type = "RIGHTS"]

RatioProduct(splits) ==
  LET Product(j) == FoldFunctionOnSet(LAMBDA x, y : x * y, 1, [a \in splits |-> a.ratio[j]], splits)
  IN <<Product(1), Product(2)>>

\* The product of the ratios with txn_date < ex_date <= as_of; None is "now".
\* [mutant] a lot bought on the ex-date is restated too.
split_factorFromExDate(actions, txn_date, as_of) ==
  RatioProduct({a \in parse_actions(actions).splits :
                  txn_date < a.ex_date /\ (as_of = None \/ a.ex_date < as_of)})
split_factor(actions, txn_date, as_of) ==
  RatioProduct({a \in parse_actions(actions).splits :
                  txn_date < a.ex_date /\ (as_of = None \/ a.ex_date <= as_of)})

restate(lot, f) == [qty |-> (lot.qty * f[2]) \div f[1],
                    price |-> (lot.price * f[1]) \div f[2]]

-----------------------------------------------------------------------------
(* One symbol's position.                                                  *)

\* A base-currency row is 1 by definition; any other needs its own rate.
TxnFxRate(t) == IF t.currency = BASE_CURRENCY THEN 1 ELSE t.fx_rate

NewHolding ==
  [qty |-> 0, cost_basis |-> 0, cost_basis_base |-> 0, fx_complete |-> TRUE,
   currencies |-> {}, realized_fees |-> 0, sales |-> <<>>, closed_trades |-> <<>>,
   opened_on |-> None, round_open_index |-> 0, split_adjusted |-> FALSE,
   rights_unstatable |-> FALSE]

currency_conflict(h) == Cardinality(h.currencies) > 1

\* qty * avg_cost, of the native cost or of the base cost.
Released(cost, qty, h) == IF h.qty > 0 THEN (qty * cost) \div h.qty ELSE 0

\* What a purchase adds to the cost: its commission is capitalised.
\* [mutant] it is not.
lot_costBare(lot, t) == lot.qty * lot.price
lot_cost(lot, t) == lot.qty * lot.price + t.fee

\* [mutant] only the last lot's rate is looked at.
complete_withLast(h, rate) == rate # None
complete_with(h, rate) == h.fx_complete /\ rate # None

Buy(h, lot, t) ==
  LET rate == TxnFxRate(t)
  IN [h EXCEPT !.opened_on = IF @ = None THEN t.date ELSE @,
               !.qty = @ + lot.qty,
               !.cost_basis = @ + lot_cost(lot, t),
               !.cost_basis_base = IF rate = None THEN @ ELSE @ + lot_cost(lot, t) * rate,
               !.fx_complete = complete_with(h, rate)]

\* The sale on a row: *_base is None unless every open lot and the row itself
\* carry a rate.
RealizedSale(h, lot, t) ==
  LET rate == TxnFxRate(t)
      proceeds == lot.qty * lot.price
      cost == Released(h.cost_basis, lot.qty, h)
      base == Released(h.cost_basis_base, lot.qty, h)
      InBase(amount) == IF h.fx_complete /\ rate # None THEN amount ELSE None
  IN [when |-> t.date, qty |-> lot.qty, proceeds |-> proceeds, cost_released |-> cost,
      fee |-> t.fee, realized_pl |-> proceeds - cost - t.fee,
      cost_released_base |-> InBase(base),
      fee_base |-> InBase(t.fee * rate),
      realized_pl_base |-> InBase(proceeds * rate - base - t.fee * rate),
      oversold |-> lot.qty > h.qty]

\* The entries that state their profit in the base currency.
Convertible(seq) == {i \in DOMAIN seq : seq[i].realized_pl_base # None}

\* The sales since the position was last flat become one trade.
\* [mutant] the first sale of the round trip is left out.
legs_ofFromSecond(h) == SubSeq(h.sales, h.round_open_index + 2, Len(h.sales))
legs_of(h) == SubSeq(h.sales, h.round_open_index + 1, Len(h.sales))

ClosedTradeOf(legs, opened_on) ==
  LET Total(F(_)) == SumOver(legs, F)
  IN [qty |-> Total(LAMBDA s : s.qty), opened_on |-> opened_on,
      closed_on |-> Last(legs).when, cost |-> Total(LAMBDA s : s.cost_released),
      proceeds |-> Total(LAMBDA s : s.proceeds), fees |-> Total(LAMBDA s : s.fee),
      realized_pl |-> Total(LAMBDA s : s.realized_pl),
      realized_pl_base |-> IF Convertible(legs) # DOMAIN legs THEN None
                           ELSE Total(LAMBDA s : s.realized_pl_base),
      sales |-> Len(legs)]

_close_round_trip(h) ==
  LET legs == legs_of(h)
      flat == [h EXCEPT !.opened_on = None, !.round_open_index = Len(h.sales)]
  IN IF legs = <<>> THEN flat
     ELSE [flat EXCEPT !.closed_trades = Append(@, ClosedTradeOf(legs, h.opened_on))]

\* No lot is open, so all open lots have a rate.
\* [mutant] that is not reset with the costs.
FlatSticky(h) == [h EXCEPT !.cost_basis = 0, !.cost_basis_base = 0]
Flat(h) == [h EXCEPT !.cost_basis = 0, !.cost_basis_base = 0, !.fx_complete = TRUE]

\* A sale, and the reset of a position that it brings to zero.
Sell(h, lot, t) ==
  LET after == [h EXCEPT
        !.qty = @ - lot.qty,
        !.cost_basis = @ - Released(@, lot.qty, h),
        !.cost_basis_base = @ - Released(@, lot.qty, h),
        !.realized_fees = @ + t.fee,
        !.sales = Append(@, RealizedSale(h, lot, t))]
  IN IF after.qty # 0 THEN after ELSE _close_round_trip(Flat(after))

\* One transaction, its lot in the units in force on as_of.
FoldTxn(h, t, actions, as_of) ==
  LET f == split_factor(actions, t.date, as_of)
      lot == restate(t, f)
      g == [h EXCEPT !.currencies = @ \cup {t.currency},
                     !.split_adjusted = @ \/ f[1] # f[2],
                     !.rights_unstatable = @ \/ parse_actions(actions).has_rights]
  IN IF t.type = "BUY" THEN Buy(g, lot, t) ELSE Sell(g, lot, t)

\* The holding of s after each number of rows of the loop.
HoldingAfter(book, s, actions, as_of) ==
  LET h[k \in 0 .. Len(book)] ==
        IF k = 0 THEN NewHolding
        ELSE IF book[k].symbol = s THEN FoldTxn(h[k - 1], book[k], actions, as_of)
        ELSE h[k - 1]
  IN h

\* book: the user's rows in the order read; actions: the table, per symbol.
symbols_of(book) == {book[k].symbol : k \in DOMAIN book}
build_holdings(book, actions, as_of) ==
  [s \in symbols_of(book) |-> HoldingAfter(book, s, actions[s], as_of)[Len(book)]]

active_holdings(holdings) == {s \in DOMAIN holdings : holdings[s].qty > 0}

-----------------------------------------------------------------------------
(* The realized side of the same fold.                                     *)

build_realized(holdings) ==
  LET stated == {s \in DOMAIN holdings : ~currency_conflict(holdings[s])}
      Sales(s) == Convertible(holdings[s].sales)
      Trips(s) == Convertible(holdings[s].closed_trades)
      OfSales(F(_)) == SumOf(stated, LAMBDA s :
                         SumOf(Sales(s), LAMBDA i : F(holdings[s].sales[i])))
      OfTrips(F(_)) == SumOf(stated, LAMBDA s :
                         SumOf(Trips(s), LAMBDA i : F(holdings[s].closed_trades[i])))
      One(test) == IF test THEN 1 ELSE 0
  IN [realized_pl |-> OfSales(LAMBDA x : x.realized_pl_base),
      realized_fees |-> OfSales(LAMBDA x : x.fee_base),
      counted_sales |-> OfSales(LAMBDA x : 1),
      closed_positions_pl |-> OfTrips(LAMBDA x : x.realized_pl_base),
      total_trades |-> OfTrips(LAMBDA x : 1),
      wins |-> OfTrips(LAMBDA x : One(x.realized_pl_base > 0)),
      losses |-> OfTrips(LAMBDA x : One(x.realized_pl_base < 0)),
      currency_conflict_symbols |-> DOMAIN holdings \ stated,
      realized_unavailable_symbols |->
         {s \in stated : Sales(s) # DOMAIN holdings[s].sales},
      oversold_symbols |->
         {s \in stated : \E i \in DOMAIN holdings[s].sales : holdings[s].sales[i].oversold}]
=============================================================================
