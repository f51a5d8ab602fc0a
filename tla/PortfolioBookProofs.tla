------------------------ MODULE PortfolioBookProofs ------------------------
(***************************************************************************)
(* Proofs about the requests on a portfolio, for any symbols, rows, bodies *)
(* the API accepts, markets and number of overlapping requests.            *)
(***************************************************************************)
EXTENDS PortfolioBook, FiniteSetTheorems, TLAPS

Requests == {None} \cup [symbol : Symbol, body : Trade \cup Patch, overtaken : BOOLEAN]

\* What the request of a row has found in its check, until another commit on the
\* symbol overtakes it.
Checked(i) ==
  LET r == request[i]
  IN /\ txns[i] = None =>
          /\ r.body \in Trade /\ r.symbol = r.body.symbol /\ ValidTrade(r.body)
          /\ ~r.overtaken => currency_consistent(RowsOf(r.symbol), r.body.currency)
     /\ txns[i] # None =>
          /\ r.body \in Patch /\ r.symbol = txns[i].symbol /\ ValidPatch(r.body)
          /\ r.body.field = "currency" /\ ~r.overtaken =>
               currency_consistent(RowsOf(r.symbol) \ {i}, r.body.value)

CheckInv == \A i \in TxnId : request[i] # None => Checked(i)

-----------------------------------------------------------------------------
(* What a commit writes.                                                   *)

\* A quotient of a rate inside the plausible band is a rate.
LEMMA BandQuotient ==
  ASSUME NEW n \in Int, NEW d \in Nat \ {0}, 10 * d <= n
  PROVE  n \div d \in Nat \ {0}
<1> DEFINE q == n \div d
<1>1. n \in Nat /\ d \in Nat /\ d > 0
  OBVIOUS
<1>2. \A a \in Nat, b \in Nat : b > 0 => a \div b \in Nat /\ a < b * (a \div b) + b
  OBVIOUS
<1>3. q \in Nat /\ n < d * q + d
  BY <1>1, <1>2
<1> HIDE DEF q
<1>4. q # 0
  <2>1. CASE q = 0
    BY <1>1, <1>3, <2>1
  <2> QED
    BY <2>1
<1> QED
  BY <1>3, <1>4 DEF q

LEMMA ReadingTyped ==
  ASSUME NEW q \in {None} \cup (Int \X (Nat \ {0}))
  PROVE  read_fx_quote(q) = None \/ read_fx_quote(q).rate \in Nat \ {0}
<1> DEFINE reading == read_fx_quote(q)
<1>1. q = None \/ (q[1] \in Int /\ q[2] \in Nat \ {0})
  OBVIOUS
<1>2. CASE q = None \/ q[1] <= 0
  BY <1>2 DEF read_fx_quote
<1>3. CASE ~(q = None \/ q[1] <= 0)
  <2>1. q[1] \in Nat \ {0} /\ q[2] \in Nat \ {0}
    BY <1>1, <1>3
  <2>2. \A n \in Nat \ {0}, d \in Nat \ {0} : 10 * d <= n => n \div d \in Nat \ {0}
    BY BandQuotient
  <2>3. 10 * q[1] <= q[2] => q[2] \div q[1] \in Nat \ {0}
    BY <2>1, <2>2
  <2>4. 10 * q[2] <= q[1] => q[1] \div q[2] \in Nat \ {0}
    BY <2>1, <2>2
  <2> DEFINE x == q[2] \div q[1]
             y == q[1] \div q[2]
  <2>5. \/ reading = None
        \/ 10 * q[1] <= q[2] /\ reading = [rate |-> x, orientation |-> "reciprocal"]
        \/ 10 * q[2] <= q[1] /\ reading = [rate |-> y, orientation |-> "direct"]
    BY <1>3 DEF read_fx_quote, FX_PLAUSIBLE_RANGE
  <2> HIDE DEF x, y, reading
  <2>6. reading = None \/ reading.rate \in Nat \ {0}
    BY <2>3, <2>4, <2>5 DEF x, y
  <2> QED
    BY <2>6 DEF reading
<1> QED
  BY <1>2, <1>3

LEMMA RateTyped ==
  ASSUME NEW trade \in Body, ValidTrade(trade), market \in Market
  PROVE  _record_fx_rate(trade) \in (Nat \ {0}) \cup {None}
<1>1. read_fx_quote(market.fx_quote) = None \/ read_fx_quote(market.fx_quote).rate \in Nat \ {0}
  BY MarketAssumption, ReadingTyped
<1>2. trade.fx_rate # None => trade.fx_rate \in Nat \ {0}
  BY DEF Body, ValidTrade
<1> QED
  BY <1>1, <1>2 DEF _record_fx_rate

LEMMA AddedRow ==
  ASSUME NEW trade \in Body, ValidTrade(trade), market \in Market
  PROVE  LET row == [trade EXCEPT !.fx_rate = _record_fx_rate(trade)]
         IN row \in Row /\ row.symbol = trade.symbol /\ row.currency = trade.currency
<1> DEFINE rate == _record_fx_rate(trade)
<1>1. rate \in (Nat \ {0}) \cup {None}
  BY RateTyped
<1>2. trade.qty \in Nat \ {0} /\ trade.price \in Nat /\ trade.fee \in Nat
  BY DEF Body, ValidTrade
<1> HIDE DEF rate
<1> QED
  BY <1>1, <1>2 DEF Body, Row, rate

LEMMA EditedRow ==
  ASSUME NEW row \in Row, NEW patch \in Patch, ValidPatch(patch)
  PROVE  LET new == [row EXCEPT ![patch.field] = patch.value]
         IN /\ new \in Row /\ new.symbol = row.symbol
            /\ new.currency = IF patch.field = "currency" THEN patch.value ELSE row.currency
<1> DEFINE v == patch.value
<1>1. CASE patch.field = "qty" /\ v \in Int
  <2>1. v \in Nat \ {0}
    BY <1>1, PortfolioAssumption DEF ValidPatch
  <2> HIDE DEF v
  <2> QED
    BY <1>1, <2>1 DEF Row, v
<1>2. CASE patch.field \in {"price", "fee"} /\ v \in Int
  <2>1. v \in Nat
    BY <1>2 DEF ValidPatch
  <2> QED
    BY <1>2, <2>1 DEF Row
<1>3. CASE patch.field = "currency" /\ v \in {"THB", "USD"}
  BY <1>3 DEF Row
<1>4. CASE patch.field = "date" /\ v \in Nat
  BY <1>4 DEF Row
<1>5. CASE patch.field = "fx_rate" /\ v \in Int \cup {None}
  <2>1. v \in (Nat \ {0}) \cup {None}
    BY <1>5 DEF ValidPatch
  <2> QED
    BY <1>5, <2>1 DEF Row
<1> QED
  BY <1>1, <1>2, <1>3, <1>4, <1>5, BodyAssumption

-----------------------------------------------------------------------------
(* Types.                                                                  *)

LEMMA InitTyped == Init => TypeOK
BY PortfolioAssumption DEF Init, TypeOK

\* What a commit makes of the requests.
LEMMA OvertakenRequests ==
  ASSUME TypeOK, NEW i \in TxnId, NEW s
  PROVE  /\ Overtaken(i, s) \in [TxnId -> Requests]
         /\ Overtaken(i, s)[i] = None
         /\ \A j \in TxnId \ {i} :
              LET r == Overtaken(i, s)[j]
              IN IF request[j] # None /\ request[j].symbol = s
                 THEN r.symbol = s /\ r.body = request[j].body /\ r.overtaken
                 ELSE r = request[j]
<1> DEFINE Late(j) == [request[j] EXCEPT !.overtaken = TRUE]
<1>1. ASSUME NEW j \in TxnId, request[j] # None
      PROVE  /\ Late(j) \in Requests /\ Late(j).symbol = request[j].symbol
             /\ Late(j).body = request[j].body /\ Late(j).overtaken
  BY <1>1 DEF TypeOK, Requests
<1>2. \A j \in TxnId :
        Overtaken(i, s)[j] = IF j # i /\ request[j] # None /\ request[j].symbol = s THEN Late(j)
                             ELSE IF j = i THEN None ELSE request[j]
  BY DEF Overtaken
<1> HIDE DEF Late
<1>3. Overtaken(i, s) \in [TxnId -> Requests]
  <2>1. \A j \in TxnId : Overtaken(i, s)[j] \in Requests
    BY <1>1, <1>2 DEF TypeOK, Requests
  <2>2. Overtaken(i, s) = [j \in TxnId |-> Overtaken(i, s)[j]]
    BY DEF Overtaken
  <2> QED
    BY <2>1, <2>2
<1> QED
  BY <1>1, <1>2, <1>3

\* The row an insert or an update commits.
LEMMA Commit ==
  ASSUME TypeOK, CheckInv, NEW i \in TxnId, CommitAdd(i) \/ CommitUpdate(i)
  PROVE  /\ request[i] # None /\ market' = market /\ writes' = writes
         /\ request' = Overtaken(i, request[i].symbol)
         /\ \E row \in Row :
              /\ txns' = [txns EXCEPT ![i] = row] /\ row.symbol = request[i].symbol
              /\ IF txns[i] = None THEN row.currency = request[i].body.currency
                 ELSE /\ txns[i] \in Row /\ txns[i].symbol = row.symbol
                      /\ row.currency = IF request[i].body.field = "currency"
                                        THEN request[i].body.value ELSE txns[i].currency
<1>1. request[i] # None /\ Checked(i) /\ txns[i] \in Row \cup {None} /\ market \in Market
  BY DEF CommitAdd, CommitUpdate, CheckInv, TypeOK
<1>2. CASE CommitAdd(i)
  <2> DEFINE trade == request[i].body
             row == [trade EXCEPT !.fx_rate = _record_fx_rate(trade)]
  <2>1. txns[i] = None /\ trade \in Body /\ ValidTrade(trade) /\ request[i].symbol = trade.symbol
    BY <1>1, <1>2, BodyAssumption DEF CommitAdd, Checked
  <2>2. row \in Row /\ row.symbol = trade.symbol /\ row.currency = trade.currency
    BY <1>1, <2>1, AddedRow
  <2>3. /\ txns' = [txns EXCEPT ![i] = row] /\ request' = Overtaken(i, trade.symbol)
        /\ market' = market /\ writes' = writes
    BY <1>2 DEF CommitAdd
  <2> HIDE DEF row
  <2> QED
    BY <1>1, <2>1, <2>2, <2>3
<1>3. CASE CommitUpdate(i)
  <2> DEFINE patch == request[i].body
             row == [txns[i] EXCEPT ![patch.field] = patch.value]
  <2>1. txns[i] # None
    BY <1>3 DEF CommitUpdate, Ids
  <2>2. patch \in Patch /\ ValidPatch(patch) /\ request[i].symbol = txns[i].symbol
    BY <1>1, <2>1 DEF Checked
  <2>3. /\ row \in Row /\ row.symbol = txns[i].symbol
        /\ row.currency = IF patch.field = "currency" THEN patch.value ELSE txns[i].currency
    BY <1>1, <2>1, <2>2, EditedRow
  <2>4. /\ txns' = [txns EXCEPT ![i] = row] /\ request' = Overtaken(i, txns[i].symbol)
        /\ market' = market /\ writes' = writes
    BY <1>3 DEF CommitUpdate
  <2> HIDE DEF row
  <2> QED
    BY <1>1, <2>1, <2>2, <2>3, <2>4
<1> QED
  BY <1>2, <1>3

LEMMA NextTyped ==
  ASSUME TypeOK, CheckInv, [Next]_vars
  PROVE  TypeOK'
<1> USE PortfolioAssumption
<1>1. ASSUME NEW i \in TxnId, CommitAdd(i) \/ CommitUpdate(i)
      PROVE  TypeOK'
  <2>1. request' \in [TxnId -> Requests]
    BY <1>1, Commit, OvertakenRequests
  <2> QED
    BY <1>1, <2>1, Commit DEF TypeOK, Requests
<1>2. ASSUME NEW i \in TxnId, NEW trade \in Trade, BeginAdd(i, trade)
      PROVE  TypeOK'
  <2> DEFINE r == [symbol |-> trade.symbol, body |-> trade, overtaken |-> FALSE]
  <2>1. r \in Requests
    BY BodyAssumption DEF Requests, Body
  <2>2. request' = [request EXCEPT ![i] = r]
    BY <1>2 DEF BeginAdd
  <2> HIDE DEF r
  <2> QED
    BY <1>2, <2>1, <2>2 DEF BeginAdd, TypeOK, Requests
<1>3. ASSUME NEW i \in TxnId, NEW patch \in Patch, BeginUpdate(i, patch)
      PROVE  TypeOK'
  <2> DEFINE r == [symbol |-> txns[i].symbol, body |-> patch, overtaken |-> FALSE]
  <2>1. txns[i] \in Row
    BY <1>3 DEF BeginUpdate, Ids, TypeOK
  <2>2. r \in Requests
    BY <2>1 DEF Requests, Row
  <2>3. request' = [request EXCEPT ![i] = r]
    BY <1>3 DEF BeginUpdate
  <2> HIDE DEF r
  <2> QED
    BY <1>3, <2>2, <2>3 DEF BeginUpdate, TypeOK, Requests
<1>4. ASSUME NEW i \in TxnId, delete_transaction(i) \/ Rollback(i)
      PROVE  TypeOK'
  BY <1>4 DEF delete_transaction, Rollback, TypeOK
<1>5. CASE MarketMoves \/ UNCHANGED vars
  BY <1>5 DEF MarketMoves, vars, TypeOK
<1> QED
  BY <1>1, <1>2, <1>3, <1>4, <1>5 DEF Next

-----------------------------------------------------------------------------
(* The check outlives everything but a commit on the symbol.               *)

\* A commit leaves the rows of the other symbols, and the other rows of its own,
\* as they are.
LEMMA OtherRows ==
  ASSUME TypeOK, CheckInv, NEW i \in TxnId, CommitAdd(i) \/ CommitUpdate(i),
         NEW s, s = request[i].symbol
  PROVE  /\ \A j \in TxnId \ {i} : txns'[j] = txns[j]
         /\ (RowsOf(s) \ {i})' = RowsOf(s) \ {i}
         /\ \A t : t # s => RowsOf(t)' = RowsOf(t) /\ i \notin RowsOf(t)
<1>1. PICK row \in Row :
        /\ txns' = [txns EXCEPT ![i] = row] /\ row.symbol = s
        /\ txns[i] # None => txns[i].symbol = s
  BY Commit
<1>2. txns'[i] = row /\ \A j \in TxnId \ {i} : txns'[j] = txns[j]
  BY <1>1 DEF TypeOK
<1> QED
  BY <1>1, <1>2 DEF RowsOf, Ids

LEMMA CommitChecked ==
  ASSUME TypeOK, CheckInv, NEW i \in TxnId, CommitAdd(i) \/ CommitUpdate(i)
  PROVE  CheckInv'
<1>1. PICK s : s = request[i].symbol
  OBVIOUS
<1>2. request' = Overtaken(i, s)
  BY <1>1, Commit
<1>3. /\ \A j \in TxnId \ {i} : txns'[j] = txns[j]
      /\ \A t : t # s => RowsOf(t)' = RowsOf(t) /\ i \notin RowsOf(t)
  BY <1>1, OtherRows
<1>4. /\ request'[i] = None
      /\ \A j \in TxnId \ {i} :
           IF request[j] # None /\ request[j].symbol = s
           THEN request'[j].symbol = s /\ request'[j].body = request[j].body /\ request'[j].overtaken
           ELSE request'[j] = request[j]
  BY <1>2, OvertakenRequests
<1> SUFFICES ASSUME NEW j \in TxnId \ {i}, request'[j] # None
             PROVE  Checked(j)'
  BY <1>4 DEF CheckInv
<1>5. txns'[j] = txns[j]
  BY <1>3
<1>6. CASE request[j] # None /\ request[j].symbol = s
  <2>1. Checked(j)
    BY <1>6 DEF CheckInv
  <2>2. request'[j].symbol = request[j].symbol /\ request'[j].body = request[j].body
        /\ request'[j].overtaken
    BY <1>4, <1>6
  <2> QED
    BY <1>5, <2>1, <2>2 DEF Checked
<1>7. CASE ~(request[j] # None /\ request[j].symbol = s)
  <2>1. request'[j] = request[j] /\ request[j].symbol # s /\ Checked(j)
    BY <1>4, <1>7 DEF CheckInv
  <2> DEFINE t == request[j].symbol
  <2>2. RowsOf(t)' = RowsOf(t) /\ \A k \in RowsOf(t) : txns'[k] = txns[k]
    <3>1. RowsOf(t) \subseteq TxnId \ {i} /\ \A u : u = t => RowsOf(u)' = RowsOf(u)
      BY <1>3, <2>1 DEF RowsOf, Ids
    <3>2. t' = t
      BY <2>1
    <3> QED
      BY <1>3, <3>1, <3>2
  <2>3. ASSUME txns'[j] = None, ~request'[j].overtaken
        PROVE  currency_consistent(RowsOf(t), request[j].body.currency)'
    <3>1. currency_consistent(RowsOf(t), request[j].body.currency)
      BY <1>5, <2>1, <2>3 DEF Checked
    <3> QED
      BY <2>1, <2>2, <3>1 DEF currency_consistent, Currencies
  <2>4. ASSUME txns'[j] # None, request'[j].body.field = "currency", ~request'[j].overtaken
        PROVE  currency_consistent(RowsOf(t) \ {j}, request[j].body.value)'
    <3>1. currency_consistent(RowsOf(t) \ {j}, request[j].body.value)
      BY <1>5, <2>1, <2>4 DEF Checked
    <3> QED
      BY <2>1, <2>2, <3>1 DEF currency_consistent, Currencies
  <2> QED
    BY <1>5, <2>1, <2>3, <2>4 DEF Checked
<1> QED
  BY <1>6, <1>7

LEMMA InitChecked == Init => CheckInv
BY DEF Init, CheckInv

\* Where rows at most go, a request stays checked.
LEMMA RowsShrink ==
  ASSUME CheckInv, NEW j \in TxnId, request[j] # None, request'[j] = request[j],
         txns'[j] = txns[j], \A k \in TxnId : txns'[k] \in {None, txns[k]}
  PROVE  Checked(j)'
<1>1. Checked(j)
  BY DEF CheckInv
<1>2. \A s : RowsOf(s)' \subseteq RowsOf(s) /\ \A k \in RowsOf(s)' : txns'[k] = txns[k]
  BY DEF RowsOf, Ids
<1>3. ASSUME txns'[j] = None, ~request'[j].overtaken
      PROVE  currency_consistent(RowsOf(request[j].symbol), request[j].body.currency)'
  <2>1. currency_consistent(RowsOf(request[j].symbol), request[j].body.currency)
    BY <1>1, <1>3 DEF Checked
  <2>2. PICK s, c : s = request[j].symbol /\ c = request[j].body.currency
    OBVIOUS
  <2>3. currency_consistent(RowsOf(s), c)'
    BY <1>2, <2>1, <2>2 DEF currency_consistent, Currencies
  <2> QED
    BY <2>2, <2>3
<1>4. ASSUME txns'[j] # None, request'[j].body.field = "currency", ~request'[j].overtaken
      PROVE  currency_consistent(RowsOf(request[j].symbol) \ {j}, request[j].body.value)'
  <2>1. currency_consistent(RowsOf(request[j].symbol) \ {j}, request[j].body.value)
    BY <1>1, <1>4 DEF Checked
  <2>2. PICK s, c : s = request[j].symbol /\ c = request[j].body.value
    OBVIOUS
  <2>3. currency_consistent(RowsOf(s) \ {j}, c)'
    BY <1>2, <2>1, <2>2 DEF currency_consistent, Currencies
  <2> QED
    BY <2>2, <2>3
<1> QED
  BY <1>1, <1>3, <1>4 DEF Checked

LEMMA NextChecked ==
  ASSUME TypeOK, CheckInv, [Next]_vars
  PROVE  CheckInv'
<1>1. ASSUME NEW i \in TxnId, CommitAdd(i) \/ CommitUpdate(i)
      PROVE  CheckInv'
  BY <1>1, CommitChecked
<1> SUFFICES ASSUME ~ \E i \in TxnId : CommitAdd(i) \/ CommitUpdate(i),
                    NEW j \in TxnId, request'[j] # None
             PROVE  Checked(j)'
  BY <1>1 DEF CheckInv
<1>2. ASSUME request'[j] = request[j], txns'[j] = txns[j],
             \A k \in TxnId : txns'[k] \in {None, txns[k]}
      PROVE  Checked(j)'
  BY <1>2, RowsShrink
<1>3. ASSUME NEW i \in TxnId, NEW trade \in Trade, BeginAdd(i, trade)
      PROVE  Checked(j)'
  <2> DEFINE r == [symbol |-> trade.symbol, body |-> trade, overtaken |-> FALSE]
  <2>1. request' = [request EXCEPT ![i] = r] /\ txns' = txns /\ txns[i] = None
        /\ ValidTrade(trade) /\ currency_consistent(RowsOf(trade.symbol), trade.currency)
    BY <1>3 DEF BeginAdd
  <2>2. /\ request'[i].symbol = trade.symbol /\ request'[i].body = trade
        /\ \A k \in TxnId \ {i} : request'[k] = request[k]
    BY <2>1 DEF TypeOK
  <2>3. RowsOf(trade.symbol)' = RowsOf(trade.symbol)
    BY <2>1 DEF RowsOf, Ids
  <2>4. Checked(i)'
    BY <2>1, <2>2, <2>3 DEF Checked, currency_consistent, Currencies
  <2>5. CASE j # i
    BY <1>2, <2>1, <2>2, <2>5
  <2> QED
    BY <2>4, <2>5
<1>4. ASSUME NEW i \in TxnId, NEW patch \in Patch, BeginUpdate(i, patch)
      PROVE  Checked(j)'
  <2> DEFINE r == [symbol |-> txns[i].symbol, body |-> patch, overtaken |-> FALSE]
  <2>1. /\ request' = [request EXCEPT ![i] = r] /\ txns' = txns /\ txns[i] # None
        /\ ValidPatch(patch)
        /\ patch.field = "currency" =>
             currency_consistent(RowsOf(txns[i].symbol) \ {i}, patch.value)
    BY <1>4 DEF BeginUpdate, Ids
  <2>2. /\ request'[i].symbol = txns[i].symbol /\ request'[i].body = patch
        /\ \A k \in TxnId \ {i} : request'[k] = request[k]
    BY <2>1 DEF TypeOK
  <2>3. RowsOf(txns[i].symbol)' = RowsOf(txns[i].symbol)
    BY <2>1 DEF RowsOf, Ids
  <2>4. Checked(i)'
    BY <2>1, <2>2, <2>3 DEF Checked, currency_consistent, Currencies
  <2>5. CASE j # i
    BY <1>2, <2>1, <2>2, <2>5
  <2> QED
    BY <2>4, <2>5
<1>5. ASSUME NEW i \in TxnId, delete_transaction(i)
      PROVE  Checked(j)'
  <2>1. txns' = [txns EXCEPT ![i] = None] /\ request' = [request EXCEPT ![i] = None]
    BY <1>5 DEF delete_transaction
  <2>2. /\ txns'[i] = None /\ request'[i] = None
        /\ \A k \in TxnId \ {i} : txns'[k] = txns[k] /\ request'[k] = request[k]
    BY <2>1 DEF TypeOK
  <2> QED
    BY <1>2, <2>2
<1>6. ASSUME NEW i \in TxnId, Rollback(i)
      PROVE  Checked(j)'
  <2>1. txns' = txns /\ request' = [request EXCEPT ![i] = None]
    BY <1>6 DEF Rollback
  <2>2. request'[j] = request[j]
    BY <2>1 DEF TypeOK
  <2> QED
    BY <1>2, <2>1, <2>2
<1>7. CASE MarketMoves \/ UNCHANGED vars
  <2>1. txns' = txns /\ request' = request
    BY <1>7 DEF MarketMoves, vars
  <2> QED
    BY <1>2, <2>1
<1> QED
  BY <1>3, <1>4, <1>5, <1>6, <1>7 DEF Next

-----------------------------------------------------------------------------
(* Two currencies in one symbol.                                           *)

LEMMA CurrenciesCounted ==
  ASSUME NEW T \in SUBSET {"THB", "USD"}
  PROVE  IsFiniteSet(T) /\ Cardinality(T) \in Nat
<1>1. IsFiniteSet({"THB"})
  BY FS_Singleton
<1>2. IsFiniteSet({"THB"} \cup {"USD"})
  BY <1>1, FS_AddElement
<1>3. {"THB", "USD"} = {"THB"} \cup {"USD"}
  OBVIOUS
<1>4. IsFiniteSet({"THB", "USD"})
  BY <1>2, <1>3
<1> QED
  BY <1>4, FS_Subset, FS_CardinalityType

LEMMA FewCurrencies ==
  ASSUME NEW T \in SUBSET {"THB", "USD"}, ~(Cardinality(T) > 1), NEW S \in SUBSET T
  PROVE  ~(Cardinality(S) > 1)
<1>1. IsFiniteSet(T) /\ Cardinality(T) \in Nat
  BY CurrenciesCounted
<1>2. S \in SUBSET {"THB", "USD"}
  OBVIOUS
<1>3. Cardinality(S) \in Nat
  BY <1>2, CurrenciesCounted
<1>4. Cardinality(S) <= Cardinality(T)
  BY <1>1, FS_Subset
<1> QED
  BY <1>1, <1>3, <1>4

LEMMA OneCurrency ==
  ASSUME NEW c \in {"THB", "USD"}, NEW S \in SUBSET {c}
  PROVE  ~(Cardinality(S) > 1)
<1>1. Cardinality({c}) = 1
  BY FS_Singleton
<1>2. ~(Cardinality({c}) > 1) /\ {c} \in SUBSET {"THB", "USD"}
  BY <1>1
<1> QED
  BY <1>2, FewCurrencies

\* Without a commit, no symbol gains a currency.
LEMMA ConflictShrinks ==
  ASSUME TypeOK, NEW s \in Symbol, ~Conflict(s), \A k \in TxnId : txns'[k] \in {None, txns[k]}
  PROVE  ~Conflict(s)'
<1>1. RowsOf(s)' \subseteq RowsOf(s) /\ \A k \in RowsOf(s)' : txns'[k] = txns[k]
  BY DEF RowsOf, Ids
<1>2. Currencies(RowsOf(s))' \subseteq Currencies(RowsOf(s))
  BY <1>1 DEF Currencies
<1>3. Currencies(RowsOf(s)) \subseteq {"THB", "USD"}
  BY DEF Currencies, RowsOf, Ids, TypeOK, Row
<1> QED
  BY <1>2, <1>3, FewCurrencies DEF Conflict

\* A commit that no other overtook writes the currency the symbol has.
LEMMA CommitAlone ==
  ASSUME TypeOK, CheckInv, NEW i \in TxnId, CommitAdd(i) \/ CommitUpdate(i),
         ~request[i].overtaken, NEW s \in Symbol, ~Conflict(s)
  PROVE  ~Conflict(s)'
<1>1. PICK t : t = request[i].symbol
  OBVIOUS
<1>2. /\ \A j \in TxnId \ {i} : txns'[j] = txns[j]
      /\ (RowsOf(t) \ {i})' = RowsOf(t) \ {i}
      /\ \A u : u # t => RowsOf(u)' = RowsOf(u) /\ i \notin RowsOf(u)
  BY <1>1, OtherRows
<1>3. CASE s # t
  <2>1. \A k \in RowsOf(s) : k \in TxnId \ {i}
    BY <1>2, <1>3 DEF RowsOf, Ids
  <2>2. Currencies(RowsOf(s))' = Currencies(RowsOf(s))
    BY <1>2, <1>3, <2>1 DEF Currencies
  <2> QED
    BY <2>2 DEF Conflict
<1>4. CASE s = t
  <2>1. PICK row \in Row :
          /\ txns' = [txns EXCEPT ![i] = row] /\ row.symbol = s
          /\ IF txns[i] = None THEN row.currency = request[i].body.currency
             ELSE /\ txns[i] \in Row /\ txns[i].symbol = row.symbol
                  /\ row.currency = IF request[i].body.field = "currency"
                                    THEN request[i].body.value ELSE txns[i].currency
    BY <1>1, <1>4, Commit
  <2>2. txns'[i] = row /\ row.currency \in {"THB", "USD"} /\ request[i] # None /\ Checked(i)
    BY <2>1, Commit DEF TypeOK, Row, CheckInv
  <2> DEFINE c == row.currency
  <2>3. \A k \in RowsOf(s)' : k = i \/ (k \in RowsOf(s) \ {i} /\ txns'[k] = txns[k])
    BY <1>2, <1>4 DEF RowsOf, Ids
  <2>4. CASE txns[i] = None \/ request[i].body.field = "currency"
    <3>1. Currencies(RowsOf(s) \ {i}) \subseteq {c}
      BY <1>1, <1>4, <2>1, <2>2, <2>4 DEF Checked, currency_consistent, Currencies
    <3>2. Currencies(RowsOf(s))' \subseteq {c}
      BY <2>2, <2>3, <3>1 DEF Currencies
    <3> HIDE DEF c
    <3> QED
      BY <2>2, <3>2, OneCurrency DEF Conflict, c
  <2>5. CASE txns[i] # None /\ request[i].body.field # "currency"
    <3>1. i \in RowsOf(s) /\ c = txns[i].currency
      BY <2>1, <2>5 DEF RowsOf, Ids
    <3>2. Currencies(RowsOf(s))' \subseteq Currencies(RowsOf(s))
      BY <2>2, <2>3, <3>1 DEF Currencies
    <3>3. Currencies(RowsOf(s)) \subseteq {"THB", "USD"}
      BY DEF Currencies, RowsOf, Ids, TypeOK, Row
    <3> QED
      BY <3>2, <3>3, FewCurrencies DEF Conflict
  <2> QED
    BY <2>4, <2>5
<1> QED
  BY <1>3, <1>4

-----------------------------------------------------------------------------
\* Every row a commit writes has the fields and ranges of the table, whatever
\* the body the API accepted and whatever quote the rate was taken from
\* (add_transaction, update_transaction).
THEOREM PortfolioTyped == Spec => []TypeOK
<1>1. TypeOK /\ CheckInv /\ [Next]_vars => (TypeOK /\ CheckInv)'
  BY NextTyped, NextChecked
<1> QED
  BY <1>1, InitTyped, InitChecked, PTL DEF Spec

\* A symbol comes to hold two currencies only by a request that another one on
\* the symbol overtook after its check (_assert_currency_consistent): without
\* an overlap every add, edit and delete keeps a symbol in one currency.
THEOREM ConflictOnlyByOverlap == Spec => ConflictNeedsOverlap
<1> DEFINE Blame == \A s \in Symbol : ~Conflict(s) /\ Conflict(s)' =>
             \E i \in TxnId : /\ request[i] # None /\ request[i].symbol = s
                              /\ request[i].overtaken /\ request'[i] = None
<1>1. ASSUME TypeOK, CheckInv, [Next]_vars
      PROVE  [Blame]_vars
  <2> SUFFICES ASSUME NEW s \in Symbol, ~Conflict(s), Conflict(s)'
               PROVE  \E i \in TxnId : /\ request[i] # None /\ request[i].symbol = s
                                       /\ request[i].overtaken /\ request'[i] = None
    OBVIOUS
  <2>1. PICK k \in TxnId : txns'[k] \notin {None, txns[k]}
    BY <1>1, ConflictShrinks
  <2>2. PICK i \in TxnId : CommitAdd(i) \/ CommitUpdate(i)
    <3>1. ASSUME txns' = txns
          PROVE  FALSE
      BY <2>1, <3>1
    <3>2. ASSUME NEW i \in TxnId, delete_transaction(i)
          PROVE  FALSE
      BY <1>1, <2>1, <3>2 DEF delete_transaction, TypeOK
    <3> QED
      BY <1>1, <3>1, <3>2 DEF Next, BeginAdd, BeginUpdate, Rollback, MarketMoves, vars
  <2>3. request[i] # None /\ request'[i] = None
    BY <1>1, <2>2, Commit, OvertakenRequests
  <2>4. request[i].overtaken
    BY <1>1, <2>2, CommitAlone DEF TypeOK
  <2>5. request[i].symbol = s
    <3>1. PICK t : t = request[i].symbol
      OBVIOUS
    <3>2. CASE s # t
      <4>1. /\ \A j \in TxnId \ {i} : txns'[j] = txns[j]
            /\ RowsOf(s)' = RowsOf(s) /\ i \notin RowsOf(s)
        BY <1>1, <2>2, <3>1, <3>2, OtherRows
      <4>2. \A j \in RowsOf(s) : j \in TxnId \ {i}
        BY <4>1 DEF RowsOf, Ids
      <4>3. Currencies(RowsOf(s))' = Currencies(RowsOf(s))
        BY <4>1, <4>2 DEF Currencies
      <4> QED
        BY <4>3 DEF Conflict
    <3> QED
      BY <3>1, <3>2
  <2> QED
    BY <2>3, <2>4, <2>5
<1>2. TypeOK /\ CheckInv /\ [Next]_vars => (TypeOK /\ CheckInv)'
  BY NextTyped, NextChecked
<1> HIDE DEF Blame
<1>3. Spec => [][Blame]_vars
  BY <1>1, <1>2, InitTyped, InitChecked, PTL DEF Spec
<1> QED
  BY <1>3 DEF ConflictNeedsOverlap, Blame
=============================================================================
