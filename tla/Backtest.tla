------------------------------ MODULE Backtest ------------------------------
(***************************************************************************)
(* backend/services/backtesting_engine.py: which trades the strategies     *)
(* golden_cross, rsi_reversal, macd_crossover and bb_bounce make on a      *)
(* series of closes, and what _compute_metrics reports about them.         *)
(* A state is a series; a step appends a day to it, so that a behaviour    *)
(* shows what one more day does to the trades of the days before.          *)
(*                                                                         *)
(* Indices start at 1 here and at 0 in the code.  Averages are compared by *)
(* cross multiplication: the code's floating point is taken as exact.      *)
(***************************************************************************)
EXTENDS Integers, Sequences, FiniteSets

CONSTANTS
  Closes,         \* closing prices that occur
  Fast, Slow,     \* golden_cross: fast_period and slow_period; macd_crossover: fast and slow
  Signal,         \* macd_crossover: signal
  Period,         \* rsi_reversal and bb_bounce: period
  Oversold, Overbought,
  StdDev,         \* bb_bounce: std_dev
  Enough,         \* 50 bars
  MaxBars         \* bound: length of a series

BacktestAssumption ==
  /\ Closes \subseteq Nat \ {0}
  /\ {Fast, Slow, Signal, Period, Oversold, Overbought, StdDev, Enough, MaxBars} \subseteq Nat \ {0}

Strategy == {"golden_cross", "rsi_reversal", "macd_crossover", "bb_bounce"}

VARIABLE series

-----------------------------------------------------------------------------
(* Indicators.                                                             *)

Sums(s) ==
  LET sum[k \in 0 .. Len(s)] == IF k = 0 THEN 0 ELSE sum[k - 1] + s[k]
  IN sum
Sum(s) == Sums(s)[Len(s)]

\* The last p closes on day i.
Window(c, p, i) == SubSeq(c, i - p + 1, i)

\* _sma, times p; a missing previous average counts as 0.
Sma(c, p, i) == IF i < p THEN 0 ELSE Sum(Window(c, p, i))

FastAbove(c, i) == Sma(c, Fast, i) * Slow > Sma(c, Slow, i) * Fast
FastBelow(c, i) == Sma(c, Fast, i) * Slow < Sma(c, Slow, i) * Fast

Gain(c, i) == IF c[i] > c[i - 1] THEN c[i] - c[i - 1] ELSE 0
Loss(c, i) == IF c[i] < c[i - 1] THEN c[i - 1] - c[i] ELSE 0

\* Wilder's average of _rsi, times a power of Period that is the same for gains
\* and losses.
Smoothed(c, moves) ==
  LET avg[i \in Period + 1 .. Len(c)] ==
        IF i = Period + 1 THEN Sum([k \in 1 .. Period |-> moves[k + 1]])
        ELSE avg[i - 1] * (Period - 1) + moves[i] * Period ^ (i - Period - 1)
  IN avg

\* _rsi compared with a level: 100 without losses, else 100 G / (G + L).
RsiAtLeast(g, l, level) == IF l = 0 THEN 100 >= level ELSE 100 * g >= level * (g + l)
RsiAtMost(g, l, level) == IF l = 0 THEN 100 <= level ELSE 100 * g <= level * (g + l)

\* _ema, times Unit(p), which makes every average of up to MaxBars values whole.
Unit(p) == p * (p + 1) ^ (MaxBars - p)
Ema(v, p) ==
  LET e[i \in p .. Len(v)] ==
        IF i = p THEN (Unit(p) \div p) * Sum(SubSeq(v, 1, p))
        ELSE (2 * Unit(p) * v[i] + (p - 1) * e[i - 1]) \div (p + 1)
  IN e

\* The difference of two averages; where one is missing the code counts 0.
Macd(c) ==
  LET f == Ema(c, Fast)
      s == Ema(c, Slow)
  IN [i \in DOMAIN c |-> IF i < Fast \/ i < Slow THEN 0
                         ELSE Unit(Slow) * f[i] - Unit(Fast) * s[i]]

\* A plausible bug: the bands are those of the whole series.
BandsOfAll(c, i) == c

\* What the bands of day i are computed from.
Bands(c, i) == Window(c, Period, i)

\* How far a close is below the mean, times the length, and the square of
\* std_dev deviations, times its square.
UnderMean(w, x) == Sum(w) - Len(w) * x
Reach(w) == StdDev ^ 2 * (Len(w) * Sum([k \in DOMAIN w |-> w[k] ^ 2]) - Sum(w) ^ 2)

AtLower(w, x) == UnderMean(w, x) >= 0 /\ UnderMean(w, x) ^ 2 >= Reach(w)
AtUpper(w, x) == UnderMean(w, x) <= 0 /\ UnderMean(w, x) ^ 2 >= Reach(w)

-----------------------------------------------------------------------------
(* Strategies.                                                             *)

\* The loop all strategies share: out of a trade it looks for an entry, in one
\* for an exit.  A walk is the trades that are settled and the day the open one
\* was entered on, or 0.
Idle == [settled |-> <<>>, entry |-> 0]

OneDay(w, i, enters, exits) ==
  IF w.entry = 0 /\ i \in enters THEN [w EXCEPT !.entry = i]
  ELSE IF w.entry # 0 /\ i \in exits
  THEN [settled |-> Append(w.settled, [entry |-> w.entry, exit |-> i]), entry |-> 0]
  ELSE w

Walks(c, enters, exits) ==
  LET walk[i \in 0 .. Len(c)] ==
        IF i = 0 THEN Idle ELSE OneDay(walk[i - 1], i, enters, exits)
  IN walk
Walk(c, enters, exits) == Walks(c, enters, exits)[Len(c)]

\* The days each strategy looks at, those it enters on and those it exits on.
GoldenCross(c) ==
  LET days == {i \in Slow + 1 .. Len(c) : i >= Fast}
  IN [enters |-> {i \in days : ~FastAbove(c, i - 1) /\ FastAbove(c, i)},
      exits |-> {i \in days : ~FastBelow(c, i - 1) /\ FastBelow(c, i)}]

RsiReversal(c) ==
  LET days == Period + 2 .. Len(c)
      g == Smoothed(c, [i \in 2 .. Len(c) |-> Gain(c, i)])
      l == Smoothed(c, [i \in 2 .. Len(c) |-> Loss(c, i)])
  IN [enters |-> {i \in days : /\ RsiAtMost(g[i - 1], l[i - 1], Oversold)
                               /\ ~RsiAtMost(g[i], l[i], Oversold)},
      exits |-> {i \in days : RsiAtLeast(g[i], l[i], Overbought)}]

MacdCrossover(c) ==
  LET days == {i \in Slow + Signal + 1 .. Len(c) : i > Fast}
      m == Macd(c)
      s == Ema(m, Signal)
      ahead(i) == Unit(Signal) * m[i] - s[i]
  IN [enters |-> {i \in days : ahead(i - 1) <= 0 /\ ahead(i) > 0},
      exits |-> {i \in days : ahead(i - 1) >= 0 /\ ahead(i) < 0}]

BbBounce(c) ==
  LET days == Period + 1 .. Len(c)
  IN [enters |-> {i \in days : AtLower(Bands(c, i), c[i])},
      exits |-> {i \in days : AtUpper(Bands(c, i), c[i])}]

Signals(st, c) ==
  CASE st = "golden_cross" -> GoldenCross(c)
    [] st = "rsi_reversal" -> RsiReversal(c)
    [] st = "macd_crossover" -> MacdCrossover(c)
    [] st = "bb_bounce" -> BbBounce(c)

\* run_backtest: nothing is simulated on too few bars.
Simulated(st, c) ==
  IF Len(c) < Enough THEN Idle
  ELSE LET signals == Signals(st, c) IN Walk(c, signals.enters, signals.exits)

\* The trades reported: an open one is closed on the last day.
Trades(c, w) ==
  IF w.entry = 0 THEN w.settled ELSE Append(w.settled, [entry |-> w.entry, exit |-> Len(c)])

-----------------------------------------------------------------------------
(* The report.  Capital is counted in units that make every equity whole;  *)
(* rates, averages and the Sharpe ratio, which are read off it, are left   *)
(* out.                                                                    *)

Priced(c, t) == [n \in DOMAIN t |-> [entry |-> c[t[n].entry], exit |-> c[t[n].exit]]]

Winning(t) == {n \in DOMAIN t : t[n].exit > t[n].entry}
Losing(t) == {n \in DOMAIN t : t[n].exit <= t[n].entry}
Pnl(t, which) == Sum([n \in DOMAIN t |-> IF n \in which THEN t[n].exit - t[n].entry ELSE 0])

Products(s) ==
  LET product[k \in 0 .. Len(s)] == IF k = 0 THEN 1 ELSE product[k - 1] * s[k]
  IN product
Product(s) == Products(s)[Len(s)]

\* The capital after the first k trades, all of it in each.
Capital(t, k) == Product([n \in DOMAIN t |-> IF n <= k THEN t[n].exit ELSE t[n].entry])

\* A plausible bug: the curve begins after the first trade.
EquityCurveTail(t) == [k \in 1 .. Len(t) |-> Capital(t, k)]
EquityCurve(t) == [k \in 1 .. Len(t) + 1 |-> Capital(t, k - 1)]

\* The largest share of a peak that was lost since.
Deeper(d, eq) ==
  LET peak == IF eq > d.peak THEN eq ELSE d.peak
  IN IF (peak - eq) * d.of > d.drop * peak
     THEN [peak |-> peak, drop |-> peak - eq, of |-> peak]
     ELSE [d EXCEPT !.peak = peak]
Drawdowns(curve) ==
  LET d[k \in 0 .. Len(curve)] ==
        IF k = 0 THEN [peak |-> curve[1], drop |-> 0, of |-> 1]
        ELSE Deeper(d[k - 1], curve[k])
  IN d
MaxDrawdown(curve) == Drawdowns(curve)[Len(curve)]

EmptyReport == [trades |-> 0, winning |-> 0, losing |-> 0, gross_loss |-> 0,
                initial |-> 1, final |-> 1, drop |-> 0, of |-> 1]

Report(t) ==
  LET dd == MaxDrawdown(EquityCurve(t))
  IN IF t = <<>> THEN EmptyReport
     ELSE [trades |-> Len(t), winning |-> Cardinality(Winning(t)),
           losing |-> Cardinality(Losing(t)),
           gross_loss |-> -Pnl(t, Losing(t)),
           initial |-> Capital(t, 0), final |-> Capital(t, Len(t)),
           drop |-> dd.drop, of |-> dd.of]

-----------------------------------------------------------------------------
Init == series = <<>>

NextDay ==
  /\ Len(series) < MaxBars
  /\ \E x \in Closes : series' = Append(series, x)

Next == NextDay

Spec == Init /\ [][Next]_series

-----------------------------------------------------------------------------
\* A series, and trades within it.
TypeOK ==
  /\ series \in Seq(Closes) /\ Len(series) <= MaxBars
  /\ \A st \in Strategy : \A w \in {Simulated(st, series)} :
       \A n \in DOMAIN Trades(series, w) :
         Trades(series, w)[n].exit \in Trades(series, w)[n].entry .. Len(series)

\* No strategy trades on what it cannot know yet: another day neither adds nor
\* moves nor removes a trade settled before it, it can only settle one that day;
\* and a trade that was open stays entered where it was (the four _strategy_*
\* functions, which compute their indicators on the whole series first).
NoHindsight ==
  [][ \A st \in Strategy : Len(series) >= Enough =>
        LET before == Simulated(st, series)
            after == Simulated(st, series')
        IN \/ /\ after.settled = before.settled
              /\ before.entry # 0 => after.entry = before.entry
           \/ /\ before.entry # 0
              /\ after = [settled |-> Append(before.settled,
                                        [entry |-> before.entry, exit |-> Len(series')]),
                          entry |-> 0] ]_series

\* The numbers of a report agree, though each is computed by a loop of its own:
\* no more capital is lost than the drawdown says, there is a drawdown when and
\* only when there is a gross loss (then profit_factor is not None), and trades
\* that all win leave more than was put in.
ReportAddsUp ==
  [][ \A c \in {series'} : \A st \in Strategy : \A w \in {Simulated(st, c)} :
        \A r \in {Report(Priced(c, Trades(c, w)))} :
          /\ r.final * r.of >= r.initial * (r.of - r.drop)
          /\ r.drop > 0 <=> r.gross_loss > 0
          /\ r.trades > 0 /\ r.losing = 0 => r.final > r.initial ]_series
=============================================================================
