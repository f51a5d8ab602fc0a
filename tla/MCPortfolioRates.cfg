SPECIFICATION Spec
CONSTANTS
  None = None
  s1 = s1
  s2 = s2
  Symbol <- MCSymbol
  TxnId = {t1, t2, t3, t4}
  Trade <- MCTrade
  Patch <- MCPatch
  Market <- MCMarket
  Limit = 50
  Today = 3
  MaxWrites = 4
SYMMETRY Ids4
INVARIANT RatesAreObserved
