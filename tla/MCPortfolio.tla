---------------------------- MODULE MCPortfolio ----------------------------
(* An instance of PortfolioBook: a Thai symbol that splits, a foreign one.  *)
EXTENDS PortfolioBook

CONSTANTS s1, s2

MCSymbol == {s1, s2}
Ids4 == Permutations(TxnId)

T(symbol, type, qty, price, fee, currency, fx_rate, date) ==
  [symbol |-> symbol, type |-> type, qty |-> qty, price |-> price, fee |-> fee,
   currency |-> currency, fx_rate |-> fx_rate, date |-> date]

MCTrade == {
  T(s1, "BUY", 2, 48, 12, "THB", None, 1),
  T(s1, "BUY", 4, 24, 0, "THB", None, 2),
  T(s1, "SELL", 2, 36, 4, "THB", None, 2),
  T(s1, "SELL", 4, 30, 0, "THB", None, 3),
  T(s2, "BUY", 2, 24, 0, "USD", 30, 3),
  T(s2, "BUY", 2, 12, 0, "USD", None, 1),
  T(s2, "SELL", 2, 36, 0, "USD", None, 2)}

MCPatch == {
  [field |-> "currency", value |-> "THB"],
  [field |-> "currency", value |-> "USD"],
  [field |-> "fx_rate", value |-> 36]}

By(a, b) == s1 :> a @@ s2 :> b
Split2for1 == [action_type |-> "SPLIT", ex_date |-> 2, ratio |-> <<1, 2>>]
Rights == [action_type |-> "RIGHTS", ex_date |-> 2, ratio |-> None]

MCMarket == {
  [quotes |-> By(60, 36), funds |-> By(None, None), fx_quote |-> <<1, 32>>,
   closes |-> By(<<48, 48, 60>>, <<24, 24, 36>>), actions |-> By({}, {}),
   stops |-> By({36}, {})],
  [quotes |-> By(24, 24), funds |-> By(None, None), fx_quote |-> <<35, 1>>,
   closes |-> By(<<48, 24, 24>>, <<24, 24, 24>>), actions |-> By({Split2for1}, {}),
   stops |-> By({20}, {18})],
  [quotes |-> By(0, None), funds |-> By(24, 30), fx_quote |-> <<5, 1>>,
   closes |-> By(<<48, None, 60>>, <<None, 30, 30>>), actions |-> By({}, {Rights}),
   stops |-> By({36}, {40})]}
=============================================================================
