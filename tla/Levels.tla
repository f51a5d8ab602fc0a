------------------------------- MODULE Levels -------------------------------
(***************************************************************************)
(* The sr_levels rows of one symbol and everybody who writes them: the     *)
(* daily task compute_auto_pivots (backend/workers/sr_auto_pivot.py), the  *)
(* import script (backend/scripts/import_sr_levels.py) and the routes of   *)
(* backend/api/routes/sr_levels.py, under which a user's stop lives too.   *)
(*                                                                         *)
(* Transactions are READ COMMITTED: a statement sees what is committed     *)
(* when it starts, and a transaction's own writes are seen by the others   *)
(* when it commits.                                                        *)
(***************************************************************************)
EXTENDS Integers, FiniteSets, Sequences, SequencesExt

CONSTANTS
  Histories,      \* what ohlcv_bars may hold: sequences of [high, low, close]
  FractalK,       \* 5
  TolerancePct,   \* 1: CLUSTER_TOLERANCE in percent
  BandBp,         \* 25: DEAD_BAND in hundredths of a percent
  TopN,           \* 3
  MinBars,        \* 60
  Imports,        \* sides for which an imported file may have rows
  PivotRun,       \* runs of compute_auto_pivots that may overlap
  User,
  Post,           \* requests of POST /sr-levels/{symbol} under way
  StopId,         \* bound: stop rows
  MaxMarks,       \* bound: a user's own support and resistance rows
  Null

Side == {"support", "resistance"}

LevelsAssumption ==
  /\ \A h \in Histories : h \in Seq([high : Nat, low : Nat, close : Nat]) /\ h # <<>>
  /\ Imports \subseteq SUBSET Side
  /\ {FractalK, TolerancePct, BandBp, TopN, MinBars, MaxMarks} \subseteq Nat

VARIABLES
  bars,       \* ohlcv_bars of the symbol, 1D
  manual,     \* sides that have manual_import rows
  auto,       \* auto_pivot rows
  pivot,      \* PivotRun -> its transaction, or Null
  stops,      \* User -> ids of the rows with level_type 'stop'
  marks,      \* User -> how many other user_created rows
  post        \* Post -> the request under way, or Null

pivotVars == <<bars, manual, auto, pivot>>
userVars == <<stops, marks, post>>
levelVars == <<bars, manual, auto, pivot, stops, marks, post>>

-----------------------------------------------------------------------------
(* The pivots of a history.  A cluster is <<sum, strength>>; its price is  *)
(* their quotient.                                                         *)

\* sorted(): the members of S so that any two stand in relation r.
Ordered(S, r) ==
  CHOOSE q \in SetToSeqs(S) : \A i, j \in DOMAIN q : i < j => <<q[i], q[j]>> \in r

\* detect_fractals: the days that are the extremes of their window, ties excluded;
\* of the highs in v, or with sign -1 of the lows.
Fractals(v, sign) ==
  {i \in FractalK + 1 .. Len(v) - FractalK :
     \A j \in i - FractalK .. i + FractalK : j # i => sign * v[i] > sign * v[j]}

Gap(a, b) == IF a < b THEN b - a ELSE a - b

\* cluster_pivots: a price joins when it is within the tolerance of the running
\* mean.
Joins(p, c) == c[1] # 0 /\ Gap(p * c[2], c[1]) * 100 <= TolerancePct * c[1]

Join(cs, p) ==
  IF cs # <<>> /\ Joins(p, Last(cs))
  THEN [cs EXCEPT ![Len(cs)] = <<@[1] + p, @[2] + 1>>]
  ELSE Append(cs, <<p, 1>>)

\* The prices of v on the days in at, from the lowest up, one after another.
ClustersAfter(v, ordered) ==
  LET cs[k \in 0 .. Len(ordered)] == IF k = 0 THEN <<>> ELSE Join(cs[k - 1], v[ordered[k]])
  IN cs
Clusters(v, at) ==
  LET ordered == Ordered(at, {ij \in at \X at : v[ij[1]] <= v[ij[2]]})
  IN ClustersAfter(v, ordered)[Len(ordered)]

Below(c, d) == c[1] * d[2] < d[1] * c[2]

\* classify_and_select: relative to the close, whichever pool a cluster is from.
SideOf(c, close) ==
  IF c[1] * 10000 < close * c[2] * (10000 - BandBp) THEN "support"
  ELSE IF c[1] * 10000 > close * c[2] * (10000 + BandBp) THEN "resistance"
  ELSE Null

\* On one side the distance to the close orders as the price does.
Nearer(side, c, d) == IF side = "support" THEN Below(d, c) ELSE Below(c, d)

Stronger(side, c, d) == c[2] > d[2] \/ (c[2] = d[2] /\ Nearer(side, c, d))

\* Between equally near ones the sort by distance keeps the stronger first.
Closer(side, c, d) == Nearer(side, c, d) \/ (~Nearer(side, d, c) /\ c[2] > d[2])

\* The TopN strongest of the side, tagged by their distance.
Selected(side, cs, close) ==
  LET mine == {n \in DOMAIN cs : SideOf(cs[n], close) = side}
      ranked == Ordered(mine, {mn \in mine \X mine : ~Stronger(side, cs[mn[2]], cs[mn[1]])})
      top == {ranked[k] : k \in {k \in DOMAIN ranked : k <= TopN}}
      near == Ordered(top, {mn \in top \X top : ~Closer(side, cs[mn[2]], cs[mn[1]])})
  IN {[side |-> side, tag |-> n, price |-> cs[near[n]]] : n \in DOMAIN near}

PivotRows(h) ==
  LET highs == [i \in DOMAIN h |-> h[i].high]
      lows == [i \in DOMAIN h |-> h[i].low]
      cs == Clusters(highs, Fractals(highs, 1)) \o Clusters(lows, Fractals(lows, -1))
  IN UNION {Selected(side, cs, Last(h).close) : side \in Side}

\* What a run computes, what it stores, its transaction; a request of a route.
Computed == UNION {PivotRows(h) : h \in Histories}
Stored == {[side |-> r.side, tag |-> r.tag, price |-> r.price, by |-> w] :
             r \in Computed, w \in PivotRun}
Transaction == [rows : SUBSET Computed, stage : {"read", "half", "asked", "deleted"},
                blocked : SUBSET Side, doomed : SUBSET Stored, alone : BOOLEAN]
StopRequest == [user : User, found : StopId \cup {Null}, alone : BOOLEAN]

LevelsNullAssumption ==
  Null \notin Transaction /\ Null \notin StopRequest /\ Null \notin StopId

-----------------------------------------------------------------------------
(* compute_auto_pivots, one symbol: _compute_and_write_symbol.             *)

\* The feeds change what is stored.
BarsChange ==
  /\ bars' \in Histories
  /\ UNCHANGED <<manual, auto, pivot, userVars>>

\* The bars are read, and their connection given back, before the transaction
\* that writes begins.  Too few bars or no close: the symbol is skipped.
Read(w) ==
  /\ pivot[w] = Null
  /\ Len(bars) >= MinBars
  /\ Last(bars).close > 0
  /\ pivot' = [pivot EXCEPT ![w] =
       [rows |-> PivotRows(bars), stage |-> "read", blocked |-> {}, doomed |-> {}, alone |-> TRUE]]
  /\ UNCHANGED <<bars, manual, auto, userVars>>

\* The sides a user's import owns, asked one after the other.
Ask(w, from, side, to) ==
  /\ pivot[w] # Null
  /\ pivot[w].stage = from
  /\ pivot' = [pivot EXCEPT ![w].stage = to,
                            ![w].blocked = @ \cup (manual \cap {side}),
                            ![w].alone = (from = "read" \/ @)]
  /\ UNCHANGED <<bars, manual, auto, userVars>>

\* A plausible bug: the comment beside the statement warns against a narrower
\* WHERE; here it spares the sides that are not rewritten.
DoomedUnblocked(w) == {r \in auto : r.side \notin pivot[w].blocked}

\* DELETE ... source = 'auto_pivot': whatever is committed now.
Doomed(w) == auto

Delete(w) ==
  /\ pivot[w] # Null
  /\ pivot[w].stage = "asked"
  /\ pivot' = [pivot EXCEPT ![w].stage = "deleted", ![w].doomed = Doomed(w)]
  /\ UNCHANGED <<bars, manual, auto, userVars>>

\* What is under way while somebody commits is not alone any more.
Disturb(w) == [v \in PivotRun |->
  IF v = w THEN Null ELSE IF pivot[v] = Null THEN Null ELSE [pivot[v] EXCEPT !.alone = FALSE]]

\* The inserts and the commit.  Two runs that delete the same rows wait for
\* each other, which decides who commits first and nothing else: neither sees
\* what the other inserted.
Write(w) ==
  /\ pivot[w] # Null
  /\ pivot[w].stage = "deleted"
  /\ auto' = (auto \ pivot[w].doomed)
               \cup {[side |-> r.side, tag |-> r.tag, price |-> r.price, by |-> w] :
                       r \in {r \in pivot[w].rows : r.side \notin pivot[w].blocked}}
  /\ pivot' = Disturb(w)
  /\ UNCHANGED <<bars, manual, userVars>>

\* A statement raises: everything is rolled back and the next symbol is taken.
PivotFails(w) ==
  /\ pivot[w] # Null
  /\ pivot' = [pivot EXCEPT ![w] = Null]
  /\ UNCHANGED <<bars, manual, auto, userVars>>

\* import_rows: the old rows out and the file's valid rows in, one transaction.
\* With another import at the same time the other's rows stay as well.
Import(S) ==
  /\ manual' \in {S, manual \cup S}
  /\ pivot' = Disturb(Null)
  /\ UNCHANGED <<bars, auto, userVars>>

-----------------------------------------------------------------------------
(* The routes.                                                             *)

\* A plausible bug: the stop is looked up under another level type.
FoundNothing(u) == {Null}

\* _existing_stop: the first row, in no particular order.
Existing(u) == IF stops[u] = {} THEN {Null} ELSE stops[u]

\* create_sr_level with level_type 'stop' finds the stop to move.
StopRead(q, u) ==
  /\ post[q] = Null
  /\ \E id \in Existing(u) : post' = [post EXCEPT ![q] = [user |-> u, found |-> id, alone |-> TRUE]]
  /\ UNCHANGED <<pivotVars, stops, marks>>

\* The requests of user u still under way have company when another commits.
Crossed(q, u) == [p \in Post |->
  IF p = q THEN Null
  ELSE IF post[p] # Null /\ post[p].user = u THEN [post[p] EXCEPT !.alone = FALSE] ELSE post[p]]

\* It moves that row in place (no row is left to move when it was deleted since:
\* the update fails and the request with it), or adds one, and commits.
StopWrite(q) ==
  /\ post[q] # Null
  /\ LET u == post[q].user
     IN /\ \/ post[q].found # Null /\ UNCHANGED stops
           \/ /\ post[q].found = Null
              /\ \E id \in StopId \ UNION Range(stops) :
                   stops' = [stops EXCEPT ![u] = @ \cup {id}]
        /\ post' = Crossed(q, u)
  /\ UNCHANGED <<pivotVars, marks>>

\* A support or resistance of one's own is always another row.
Mark(u) ==
  /\ marks[u] < MaxMarks
  /\ marks' = [marks EXCEPT ![u] = @ + 1]
  /\ UNCHANGED <<pivotVars, stops, post>>

\* delete_sr_level: one row, the caller's own.
DeleteMark(u) ==
  /\ marks[u] > 0
  /\ marks' = [marks EXCEPT ![u] = @ - 1]
  /\ UNCHANGED <<pivotVars, stops, post>>

DeleteStop(u, id) ==
  /\ id \in stops[u]
  /\ stops' = [stops EXCEPT ![u] = @ \ {id}]
  /\ UNCHANGED <<pivotVars, marks, post>>

-----------------------------------------------------------------------------
Init ==
  /\ bars \in Histories
  /\ manual = {} /\ auto = {}
  /\ pivot = [w \in PivotRun |-> Null]
  /\ stops = [u \in User |-> {}]
  /\ marks = [u \in User |-> 0]
  /\ post = [q \in Post |-> Null]

PivotNext ==
  \/ BarsChange
  \/ \E w \in PivotRun :
       \/ Read(w) \/ Delete(w) \/ Write(w) \/ PivotFails(w)
       \/ Ask(w, "read", "support", "half") \/ Ask(w, "half", "resistance", "asked")
  \/ \E S \in Imports : Import(S)

UserNext ==
  \/ \E q \in Post : StopWrite(q) \/ \E u \in User : StopRead(q, u)
  \/ \E u \in User : Mark(u) \/ DeleteMark(u) \/ \E id \in StopId : DeleteStop(u, id)

Next == PivotNext \/ UserNext

Spec == Init /\ [][Next]_levelVars

-----------------------------------------------------------------------------
\* Types of the rows and of the transactions under way.
TypeOK ==
  /\ Computed \subseteq [side : Side, tag : 1 .. TopN, price : Nat \X (Nat \ {0})]
  /\ bars \in Histories
  /\ manual \subseteq Side
  /\ auto \subseteq Stored
  /\ pivot \in [PivotRun -> {Null} \cup Transaction]
  /\ stops \in [User -> SUBSET StopId]
  /\ marks \in [User -> 0 .. MaxMarks]
  /\ post \in [Post -> {Null} \cup StopRequest]

\* A run that nobody's commit interrupts leaves no computed level on a side an
\* import owns and no tag twice on the other, whatever earlier imports and
\* overlapping runs have left behind (_compute_and_write_symbol, whose DELETE
\* covers the whole symbol for that reason).
PivotsSetRight ==
  [][ \A w \in PivotRun :
        /\ pivot[w] # Null /\ pivot[w].alone
        /\ pivot'[w] = Null /\ auto' # auto
        =>
          \A r, t \in auto' : /\ r.side \notin manual
                              /\ r.side = t.side /\ r.tag = t.tag => r = t ]_pivotVars

\* "One position, one stop" (create_sr_level): a request that no other of the
\* same user's overlaps never makes a second one.
StopIsMoved ==
  [][ \A q \in Post : \A u \in User :
        /\ post[q] # Null /\ post[q].user = u /\ post[q].alone
        /\ Cardinality(stops[u]) <= 1
        /\ post'[q] = Null
        => Cardinality(stops'[u]) <= 1 ]_userVars
=============================================================================
