--------------------------- MODULE DigestContent ---------------------------
(***************************************************************************)
(* What the two daily digests say: the S/R proximity digest lists watched  *)
(* symbols near a level, the gap list the movers of a user's book and why  *)
(* the rest of the book is missing.  Prices, levels and changes are        *)
(* integers; comparisons are exact.                                        *)
(***************************************************************************)
EXTENDS Integers, FiniteSets, SequencesExt

CONSTANTS
  ProximityPct,   \* PROXIMITY_PCT
  TolerancePct,   \* CROSS_SOURCE_DEDUPE_TOLERANCE
  MaxSymbols,     \* MAX_SYMBOLS_PER_MESSAGE of the proximity digest
  MaxRows,        \* GAP_LIST_MAX_SYMBOLS_PER_MESSAGE
  NoQuote,        \* nothing cached
  NoMinimum,      \* users.gap_min_pct is NULL
  Nobody          \* the owner of a shared level

ASSUME ContentAssumption ==
  /\ ProximityPct \in Nat /\ TolerancePct \in Nat
  /\ MaxSymbols \in Nat \ {0} /\ MaxRows \in Nat \ {0}
  /\ NoMinimum \notin Int

Dist(a, b) == IF a < b THEN b - a ELSE a - b

\* sort(key = f), smallest first, of the members of S in any order.
SortedBy(S, f) ==
  CHOOSE q \in SetToSeqs(S) : \A i, j \in DOMAIN q : i < j => f[q[i]] <= f[q[j]]

\* A quote; a fund's NAV has no change of its own.
Quote == [type : {"equity", "fund_nav"}, price : Int, change : Int]
ASSUME QuoteAssumption == NoQuote \notin Quote
fund_payload_to_quote(nav) ==
  IF nav = NoQuote THEN NoQuote ELSE [type |-> "fund_nav", price |-> nav, change |-> 0]

\* MGET of the quotes, then of the funds for those that missed.
Resolved(quote, fund, s) ==
  IF quote[s] # NoQuote THEN quote[s] ELSE fund_payload_to_quote(fund[s])

-----------------------------------------------------------------------------
(* The proximity digest.  A level is [price, level_type, source, owner].   *)

\* |price - level| / level, compared without dividing: one price is closer to m
\* than another is to n.
CloserTo(price, m, other, n) ==
  Dist(price, m.price) * n.price < Dist(other, n.price) * m.price
Nearer(price, m, n) == CloserTo(price, m, price, n)

InRange(levels, price, user) ==
  {l \in levels : /\ l.owner \in {Nobody, user}
                  /\ l.price > 0
                  /\ Dist(price, l.price) * 100 <= ProximityPct * l.price}

\* Sorted ascending; a level joins the cluster whose mean it is within the
\* tolerance of, or opens the next.  [sum, members]
JoinCluster(clusters, l) ==
  IF clusters = <<>> THEN <<[sum |-> l.price, members |-> {l}, n |-> 1]>>
  ELSE LET c == Last(clusters)
       IN IF Dist(l.price * c.n, c.sum) * 100 <= TolerancePct * c.sum
          THEN [clusters EXCEPT ![Len(clusters)] =
                 [sum |-> c.sum + l.price, members |-> c.members \cup {l}, n |-> c.n + 1]]
          ELSE Append(clusters, [sum |-> l.price, members |-> {l}, n |-> 1])
ClustersAfter(ordered) ==
  LET c[k \in 0 .. Len(ordered)] ==
        IF k = 0 THEN <<>> ELSE JoinCluster(c[k - 1], ordered[k])
  IN c
Clusters(levels) ==
  LET ordered == SortedBy(levels, [l \in levels |-> l.price])
  IN ClustersAfter(ordered)[Len(ordered)]

Sources(levels) == {l.source : l \in levels}
Nearest(levels, price) ==
  CHOOSE l \in levels : \A m \in levels : ~Nearer(price, m, l)

\* [mutant] the cheapest of a cluster stands for it.
KeptLowest(c, price) ==
  IF Cardinality(Sources(c.members)) >= 2
  THEN {CHOOSE l \in c.members : \A m \in c.members : l.price <= m.price}
  ELSE c.members
\* Levels seen by more than one source are one line, the nearest.
Kept(c, price) ==
  IF Cardinality(Sources(c.members)) >= 2 THEN {Nearest(c.members, price)} ELSE c.members

OfType(levels, t) == {l \in levels : l.level_type = t}
_dedupe_cross_source_matches(matches, price) ==
  UNION {UNION {Kept(c, price) : c \in ToSet(Clusters(OfType(matches, t)))} :
           t \in {l.level_type : l \in matches}}

\* The lines of one user: symbol -> the levels shown for it.
compute_proximity_for_user(watched, levels, quotes, user) ==
  [s \in watched |->
     IF quotes[s] = NoQuote THEN {}
     ELSE _dedupe_cross_source_matches(InRange(levels[s], quotes[s].price, user),
                                       quotes[s].price)]

\* results.sort: symbols by their nearest line.
Lead(lines, quotes, s) == Nearest(lines[s], quotes[s].price)
Closer(lines, quotes, s, t) ==
  CloserTo(quotes[s].price, Lead(lines, quotes, s), quotes[t].price, Lead(lines, quotes, t))

\* The first MaxSymbols symbols of the sorted results, and how many are cut.
\* [mutant] sorted the other way round.
FirstOfFarthest(near, lines, quotes, room) ==
  CHOOSE S \in SUBSET near : /\ Cardinality(S) = room
                            /\ \A s \in S, t \in near \ S : ~Closer(lines, quotes, s, t)
FirstOf(near, lines, quotes, room) ==
  CHOOSE S \in SUBSET near : /\ Cardinality(S) = room
                            /\ \A s \in S, t \in near \ S : ~Closer(lines, quotes, t, s)
build_digest_message(lines, quotes) ==
  LET near == {s \in DOMAIN lines : lines[s] # {}}
      count == Cardinality(near)
      room == IF count < MaxSymbols THEN count ELSE MaxSymbols
  IN [shown |-> FirstOf(near, lines, quotes, room), more |-> count - room]

-----------------------------------------------------------------------------
(* The gap list.                                                           *)

_priced_row(q) == q # NoQuote /\ q.type # "fund_nav" /\ q.price > 0

compute_gap_list(book, quotes, minimum) ==
  {s \in book : /\ _priced_row(quotes[s])
                /\ minimum # NoMinimum => Dist(quotes[s].change, 0) >= minimum}

Unnamed(quotes, s) ==
  \/ quotes[s] # NoQuote /\ quotes[s].type = "fund_nav"
  \/ _priced_row(quotes[s])
\* [mutant] every symbol without a row gets a reason.
ExcludedAll(book, quotes, results, open) ==
  [missed |-> {s \in book \ results : s \in open},
   market_closed |-> {s \in book \ results : s \notin open}]
classify_excluded_symbols(book, quotes, results, open) ==
  LET missing == {s \in book \ results : ~Unnamed(quotes, s)}
  IN [missed |-> missing \cap open, market_closed |-> missing \ open]

build_gap_list_message(book, quotes, minimum, open) ==
  LET results == compute_gap_list(book, quotes, minimum)
      ranked == SortedBy(results, [s \in results |-> -Dist(quotes[s].change, 0)])
      shown == SubSeq(ranked, 1, IF Len(ranked) < MaxRows THEN Len(ranked) ELSE MaxRows)
  IN [shown |-> shown,
      more |-> Len(ranked) - Len(shown),
      fresh |-> Len(ranked),
      book_count |-> Cardinality(book),
      excluded |-> classify_excluded_symbols(book, quotes, results, open)]
=============================================================================
