------------------------------- MODULE Alerts -------------------------------
(***************************************************************************)
(* Standing alerts: the Celery task check_all_alerts (several overlapping  *)
(* runs of it), the claim that is its dedupe key, the caches it reads, and *)
(* the API handlers that create, edit, pause and delete alerts meanwhile.  *)
(*                                                                         *)
(* A run SELECTs the active alerts, then takes them one by one: it reads   *)
(* the cached data and decides, claims the row with one conditional UPDATE *)
(* and commits, and only then notifies.  Each of these is a step of its    *)
(* own; anything else may happen between two of them.                      *)
(***************************************************************************)
EXTENDS Integers, Sequences, FiniteSets

CONSTANTS
  Alert,       \* alert ids (serial primary keys, never reused)
  Symbol,
  Fund,        \* the symbols priced by a fund NAV; the others have live quotes
  Run,         \* check_all_alerts executions that can be alive at once
  Kind,        \* the <<symbol, alert_type>> pairs an alert may be created with
  Level,       \* prices, indicator readings and the user's thresholds
  Cooldown,    \* settings.alert_cooldown_minutes
  DayLength,   \* clock units in a day
  MaxTime,     \* bound on the clock
  MaxEdits,    \* bound on the edits, pauses and deletions users ask for
  Null         \* SQL NULL, Python None, a cache miss

PriceTypes == {"PRICE_ABOVE", "PRICE_BELOW"}
IndicatorTypes ==
  {"RSI_OVERBOUGHT", "RSI_OVERSOLD", "GOLDEN_CROSS", "DEATH_CROSS", "VOLUME_SPIKE"}

ASSUME ShapeAssumption ==
  /\ Kind \subseteq Symbol \X (PriceTypes \cup IndicatorTypes)
  /\ Fund \subseteq Symbol
  /\ Level \subseteq Nat /\ Level # {}
ASSUME BoundAssumption ==
  /\ Cooldown \in Nat \ {0}
  /\ DayLength \in Nat \ {0}
  /\ MaxTime \in Nat
  /\ MaxEdits \in Nat
ASSUME NullAssumption == Null \notin Int /\ Null \notin Alert

VARIABLES
  now,      \* datetime.now(), the same clock for every process
  nav,      \* [Fund -> the NAV the registrar last published, and its date]
  quote,    \* the Redis keys quote:{symbol}
  fund,     \* the Redis keys fund:{symbol}
  ohlcv,    \* the newest closed bar's reading under ohlcv:{symbol}:1D
  kind,     \* the columns symbol and alert_type, which no handler changes
  life,     \* [Alert -> "unused", "live" or "deleted"]
  rows,     \* the alerts table; a row counts only while life is "live"
  edits,    \* edits, pauses and deletions so far
  run,      \* local state of every check_all_alerts execution
  fires,    \* history: the claims each alert won, in order
  sent      \* history: the claims whose call of send_telegram_message succeeded

caches == <<nav, quote, fund, ohlcv>>
history == <<fires, sent>>
vars == <<now, caches, kind, life, rows, edits, run, history>>

Time == 0 .. MaxTime
OrNull(S) == S \cup {Null}

Reading == [price : Level, ts : OrNull(Time), date : OrNull(Time)]
Row == [value : Level, is_active : BOOLEAN, status : {"ACTIVE", "TRIGGERED"},
        triggered_at : OrNull(Time), triggered_data_at : OrNull(Time),
        trigger_count : Nat]
FireRecord == [at : Time, data : OrNull(Time), date : OrNull(Time)]
RunState == [pc : {"idle", "scan", "claim", "notify"},
             todo : SUBSET Alert, seen : [Alert -> Level], expired : BOOLEAN,
             alert : OrNull(Alert), now : Time, value_ts : OrNull(Time),
             date : OrNull(Time), fire : Nat]

Published == [price : Level, date : Time]
Live == {a \in Alert : life[a] = "live"}
Busy(r) == run[r].pc \in {"claim", "notify"}

\* [mutant] trigger_count without its server default.
BlankRowNoDefault(v) ==
  [value |-> v, is_active |-> TRUE, status |-> "ACTIVE", triggered_at |-> Null,
   triggered_data_at |-> Null, trigger_count |-> Null]
BlankRow(v) ==
  [value |-> v, is_active |-> TRUE, status |-> "ACTIVE", triggered_at |-> Null,
   triggered_data_at |-> Null, trigger_count |-> 0]
IdleRun ==
  [pc |-> "idle", todo |-> {}, seen |-> [a \in Alert |-> CHOOSE v \in Level : TRUE],
   expired |-> FALSE, alert |-> Null, now |-> 0, value_ts |-> Null, date |-> Null,
   fire |-> 0]

Init ==
  /\ now = 0
  /\ nav = [s \in Fund |-> [price |-> CHOOSE p \in Level : TRUE, date |-> 0]]
  /\ quote = [s \in Symbol |-> Null]
  /\ fund = [s \in Symbol |-> Null]
  /\ ohlcv = [s \in Symbol |-> Null]
  /\ kind \in [Alert -> Kind]
  /\ life = [a \in Alert |-> "unused"]
  /\ rows = [a \in Alert |-> BlankRow(CHOOSE v \in Level : TRUE)]
  /\ edits = 0
  /\ run = [r \in Run |-> IdleRun]
  /\ fires = [a \in Alert |-> <<>>]
  /\ sent = [a \in Alert |-> {}]

SymbolOf(a) == kind[a][1]
TypeOf(a) == kind[a][2]
Indicator(a) == TypeOf(a) \in IndicatorTypes

\* Keys that no alert would read are left out.
PricesRead(s) == \E a \in Alert : SymbolOf(a) = s /\ ~Indicator(a)
BarsRead(s) == \E a \in Alert : SymbolOf(a) = s /\ Indicator(a)

-----------------------------------------------------------------------------
(* The data feeds.  Time passes and Redis TTLs run out on their own.       *)

Tick ==
  /\ now < MaxTime
  /\ now' = now + 1
  /\ UNCHANGED <<caches, kind, life, rows, edits, run, history>>

\* A fund's registrar publishes a NAV for a new day (not every day: weekends).
PublishNav(s, p) ==
  /\ s \in Fund /\ PricesRead(s)
  /\ nav[s].date < now
  /\ nav' = [nav EXCEPT ![s] = [price |-> p, date |-> now]]
  /\ UNCHANGED <<now, quote, fund, ohlcv, kind, life, rows, edits, run, history>>

\* price_fetcher, alert_symbol_refresher, on_demand_listener: the payload
\* carries the time of the write.
cache_and_publish_quotes(s, p) ==
  /\ s \notin Fund /\ PricesRead(s)
  /\ quote' = [quote EXCEPT ![s] = [price |-> p, ts |-> now, date |-> Null]]
  /\ UNCHANGED <<now, nav, fund, ohlcv, kind, life, rows, edits, run, history>>

\* The API's own fetch, written up to 20 s after it found the key missing: a
\* StockQuote has no ts field.
fetch_quote_now(s, p) ==
  /\ s \notin Fund /\ PricesRead(s)
  /\ quote' = [quote EXCEPT ![s] = [price |-> p, ts |-> Null, date |-> Null]]
  /\ UNCHANGED <<now, nav, fund, ohlcv, kind, life, rows, edits, run, history>>

\* The daily NAV task: ts is the time of the fetch, whatever the NAV's date.
fetch_thai_fund_navs(s) ==
  /\ s \in Fund /\ PricesRead(s)
  /\ fund' = [fund EXCEPT ![s] = [price |-> nav[s].price, ts |-> now, date |-> nav[s].date]]
  /\ UNCHANGED <<now, nav, quote, ohlcv, kind, life, rows, edits, run, history>>

\* Canary symbols are refetched at every beat, the others once their key is cold
\* (and on demand by the API).  A bar is dated by its day's start; the newest
\* closed one is today's once the exchange has closed, else yesterday's.
Today == now - (now % DayLength)
prefetch_history(s, p) ==
  /\ s \notin Fund /\ BarsRead(s)
  /\ \E day \in {Today - DayLength, Today} \cap Time :
       ohlcv' = [ohlcv EXCEPT ![s] = [price |-> p, ts |-> day, date |-> day]]
  /\ UNCHANGED <<now, nav, quote, fund, kind, life, rows, edits, run, history>>

ExpireKeys(s) ==
  /\ \/ quote[s] # Null /\ quote' = [quote EXCEPT ![s] = Null] /\ UNCHANGED <<fund, ohlcv>>
     \/ fund[s] # Null /\ fund' = [fund EXCEPT ![s] = Null] /\ UNCHANGED <<quote, ohlcv>>
     \/ ohlcv[s] # Null /\ ohlcv' = [ohlcv EXCEPT ![s] = Null] /\ UNCHANGED <<quote, fund>>
  /\ UNCHANGED <<now, nav, kind, life, rows, edits, run, history>>

-----------------------------------------------------------------------------
(* What an alert compares, and when its condition holds.                   *)

\* quote:{symbol}, else the fund payload shaped as a quote; indicators read bars.
Compared(a) ==
  LET s == SymbolOf(a)
  IN IF Indicator(a) THEN ohlcv[s] ELSE IF quote[s] # Null THEN quote[s] ELSE fund[s]

\* A cross has no level: its reading says whether the averages crossed.
Holds(a, reading, level) ==
  \/ TypeOf(a) \in {"PRICE_ABOVE", "RSI_OVERBOUGHT"} /\ reading > level
  \/ TypeOf(a) \in {"PRICE_BELOW", "RSI_OVERSOLD"} /\ reading < level
  \/ TypeOf(a) = "VOLUME_SPIKE" /\ reading >= level
  \/ TypeOf(a) \in {"GOLDEN_CROSS", "DEATH_CROSS"} /\ reading # 0

\* A threshold of 0 never arms a price alert (`alert.value and ...`).
Triggered(a, reading, level) ==
  (Indicator(a) \/ level # 0) /\ Holds(a, reading, level)

-----------------------------------------------------------------------------
(* API handlers (api/routes/alerts.py).                                    *)

\* Refused with 409 when the condition already holds and confirm is not set;
\* read_quote sees quote:{symbol} only, never the fund key.
AlreadyTrue(a, v) ==
  LET d == IF Indicator(a) THEN ohlcv[SymbolOf(a)] ELSE quote[SymbolOf(a)]
  IN d # Null /\ Holds(a, d.price, v)

create_alert(a, v, confirm) ==
  /\ life[a] = "unused"
  /\ ~(AlreadyTrue(a, v) /\ ~confirm)
  /\ life' = [life EXCEPT ![a] = "live"]
  /\ rows' = [rows EXCEPT ![a] = BlankRow(v)]
  /\ UNCHANGED <<now, caches, kind, edits, run, history>>

update_alert(a, v) ==
  /\ a \in Live
  /\ edits < MaxEdits
  /\ edits' = edits + 1
  /\ rows[a].value # v
  /\ rows' = [rows EXCEPT ![a].value = v]
  /\ UNCHANGED <<now, caches, kind, life, run, history>>

delete_alert(a) ==
  /\ a \in Live
  /\ edits < MaxEdits
  /\ edits' = edits + 1
  /\ life' = [life EXCEPT ![a] = "deleted"]
  /\ UNCHANGED <<now, caches, kind, rows, run, history>>

\* The handler reads is_active and later writes its negation: two at once may
\* write the same value, which is one of them doing nothing.
toggle_alert(a) ==
  /\ a \in Live
  /\ edits < MaxEdits
  /\ edits' = edits + 1
  /\ rows' = [rows EXCEPT ![a].is_active = ~@]
  /\ UNCHANGED <<now, caches, kind, life, run, history>>

-----------------------------------------------------------------------------
(* check_all_alerts.                                                       *)

\* [mutant] the one-shot selection: a fired alert is spent.
SelectedUnfired == {a \in Live : rows[a].is_active /\ rows[a].status = "ACTIVE"}
Selected == {a \in Live : rows[a].is_active}

StartRun(r) ==
  /\ run[r].pc = "idle"
  /\ Selected # {}
  /\ run' = [run EXCEPT ![r] = [IdleRun EXCEPT
       !.pc = "scan", !.todo = Selected, !.seen = [a \in Alert |-> rows[a].value]]]
  /\ UNCHANGED <<now, caches, kind, life, rows, edits, history>>

\* Until its first commit a run sees the SELECT's values; after it every ORM
\* row is expired and read again when touched.
LevelSeen(r, a) == IF run[r].expired THEN rows[a].value ELSE run[r].seen[a]
RowGone(r, a) == run[r].expired /\ a \notin Live

\* Read the cache, decide, and enter claim_alert (which captures its own now).
Skipped(r, a) == [run[r] EXCEPT !.todo = @ \ {a}]
Decided(r, a, d) ==
  [Skipped(r, a) EXCEPT !.pc = "claim", !.alert = a, !.now = now,
                        !.value_ts = d.ts, !.date = d.date]
Evaluate(r, a) ==
  LET d == Compared(a)
      hit == d # Null /\ Triggered(a, d.price, LevelSeen(r, a))
  IN /\ run[r].pc = "scan"
     /\ a \in run[r].todo
     /\ ~RowGone(r, a)
     /\ run' = [run EXCEPT ![r] = IF hit THEN Decided(r, a, d) ELSE Skipped(r, a)]
     /\ UNCHANGED <<now, caches, kind, life, rows, edits, history>>

\* The WHERE clause of the claim, evaluated on the row the UPDATE locks.
\* [mutant] the cutoff without the cooldown.
CooledDownAtOnce(row, at) == row.triggered_at # Null => row.triggered_at <= at
CooledDown(row, at) == row.triggered_at # Null => row.triggered_at <= at - Cooldown
\* [mutant] data of the same as-of may fire again.
NewerOrEqualData(row, ts) ==
  ts # Null /\ row.triggered_data_at # Null => row.triggered_data_at <= ts
NewerData(row, ts) ==
  ts # Null /\ row.triggered_data_at # Null => row.triggered_data_at < ts
\* [mutant] is_active checked by the SELECT only.
EligibleThoughPaused(a, at, ts) ==
  /\ a \in Live
  /\ CooledDown(rows[a], at)
  /\ NewerData(rows[a], ts)
Eligible(a, at, ts) ==
  /\ a \in Live
  /\ rows[a].is_active
  /\ CooledDown(rows[a], at)
  /\ NewerData(rows[a], ts)

\* [mutant] an as-of made up for data that has none.
ClaimedRowInvents(row, at, ts) ==
  [row EXCEPT !.status = "TRIGGERED", !.triggered_at = at,
              !.triggered_data_at = IF ts = Null THEN at ELSE ts,
              !.trigger_count = @ + 1]
ClaimedRow(row, at, ts) ==
  [row EXCEPT !.status = "TRIGGERED", !.triggered_at = at,
              !.triggered_data_at = IF ts = Null THEN @ ELSE ts,
              !.trigger_count = @ + 1]

\* Every claim commits, which expires the rows the SELECT loaded.
BackToScan(r) ==
  [IdleRun EXCEPT !.pc = "scan", !.todo = run[r].todo, !.expired = TRUE]

WinClaim(r) ==
  LET c == run[r]
  IN /\ c.pc = "claim"
     /\ Eligible(c.alert, c.now, c.value_ts)
     /\ rows' = [rows EXCEPT ![c.alert] = ClaimedRow(@, c.now, c.value_ts)]
     /\ fires' = [fires EXCEPT ![c.alert] =
                    Append(@, [at |-> c.now, data |-> c.value_ts, date |-> c.date])]
     /\ run' = [run EXCEPT ![r] = [@ EXCEPT
                  !.pc = "notify", !.expired = TRUE, !.fire = Len(fires[c.alert]) + 1]]
     /\ UNCHANGED <<now, caches, kind, life, edits, sent>>

\* [mutant] rowcount ignored: the loser notifies as well.
LoserNotifies(r) ==
  [run[r] EXCEPT !.pc = "notify", !.expired = TRUE,
                 !.fire = rows[run[r].alert].trigger_count]
\* What a loser does next: log the alert's id and go on with the next alert.
AfterLostClaim(r) == BackToScan(r)
LoseClaim(r) ==
  LET c == run[r]
  IN /\ c.pc = "claim"
     /\ ~Eligible(c.alert, c.now, c.value_ts)
     /\ c.alert \in Live
     /\ run' = [run EXCEPT ![r] = AfterLostClaim(r)]
     /\ UNCHANGED <<now, caches, kind, life, rows, edits, history>>

\* The channel may be another one, the chat id missing, or both attempts of
\* send_telegram_message fail: the run logs it and goes on.
Notify(r, delivered) ==
  LET a == run[r].alert
  IN /\ run[r].pc = "notify"
     /\ a \in Live
     /\ sent' = IF delivered THEN [sent EXCEPT ![a] = @ \cup {run[r].fire}] ELSE sent
     /\ run' = [run EXCEPT ![r] = BackToScan(r)]
     /\ UNCHANGED <<now, caches, kind, life, rows, edits, fires>>

FinishRun(r) ==
  /\ run[r].pc = "scan"
  /\ run[r].todo = {}
  /\ run' = [run EXCEPT ![r] = IdleRun]
  /\ UNCHANGED <<now, caches, kind, life, rows, edits, history>>

\* Touching an expired row that was deleted raises ObjectDeletedError, and so
\* does the handler that logs alert.id: self.retry ends this execution.
AbortRun(r) ==
  /\ \/ run[r].pc = "scan" /\ \E a \in run[r].todo : RowGone(r, a)
     \/ Busy(r) /\ run[r].alert \notin Live
  /\ run' = [run EXCEPT ![r] = IdleRun]
  /\ UNCHANGED <<now, caches, kind, life, rows, edits, history>>

\* A killed worker; task_acks_late redelivers the task, which starts afresh.
Crash(r) ==
  /\ run[r].pc # "idle"
  /\ run' = [run EXCEPT ![r] = IdleRun]
  /\ UNCHANGED <<now, caches, kind, life, rows, edits, history>>

-----------------------------------------------------------------------------
Feeds ==
  \/ Tick
  \/ \E s \in Symbol, p \in Level :
       \/ PublishNav(s, p)
       \/ cache_and_publish_quotes(s, p)
       \/ fetch_quote_now(s, p)
       \/ prefetch_history(s, p)
  \/ \E s \in Symbol : fetch_thai_fund_navs(s) \/ ExpireKeys(s)

Requests ==
  \/ \E a \in Alert, v \in Level :
       \/ \E confirm \in BOOLEAN : create_alert(a, v, confirm)
       \/ update_alert(a, v)
  \/ \E a \in Alert : delete_alert(a) \/ toggle_alert(a)

\* The next step the code of check_all_alerts takes in execution r.
RunStep(r) ==
  \/ \E a \in Alert : Evaluate(r, a)
  \/ WinClaim(r)
  \/ LoseClaim(r)
  \/ \E delivered \in BOOLEAN : Notify(r, delivered)
  \/ FinishRun(r)
  \/ AbortRun(r)

Step ==
  \/ Feeds
  \/ Requests
  \/ \E r \in Run : StartRun(r) \/ RunStep(r)

Next == Step \/ \E r \in Run : Crash(r)

\* Beat starts the task every 60 s and a started run keeps executing.  Nothing
\* else is assumed: not the clock, not the feeds, not the user.
Fairness == \A r \in Run : WF_vars(StartRun(r)) /\ WF_vars(RunStep(r))

Spec == Init /\ [][Next]_vars
\* Workers are killed at any step, but not for ever: a checker killed in every
\* run it makes promises nothing.
FairSpec == Spec /\ Fairness /\ <>[][Step]_vars

-----------------------------------------------------------------------------
(* Properties.                                                             *)

\* Every variable stays in its type.
TypeOK ==
  /\ now \in Time
  /\ nav \in [Fund -> Published]
  /\ quote \in [Symbol -> OrNull(Reading)]
  /\ fund \in [Symbol -> OrNull(Reading)]
  /\ ohlcv \in [Symbol -> OrNull(Reading)]
  /\ kind \in [Alert -> Kind]
  /\ life \in [Alert -> {"unused", "live", "deleted"}]
  /\ rows \in [Alert -> Row]
  /\ edits \in 0 .. MaxEdits
  /\ run \in [Run -> RunState]
  /\ fires \in [Alert -> Seq(FireRecord)]
  /\ sent \in [Alert -> SUBSET Nat]

\* What claim_alert's comments call the dedupe key: overlapping runs, retries
\* and redelivered tasks included, two fires of one alert lie at least the
\* cooldown apart.
FiresSpaced ==
  \A a \in Alert : \A i, j \in DOMAIN fires[a] :
    i < j => fires[a][i].at + Cooldown <= fires[a][j].at

\* An alert never fires twice on data with one as-of, nor on older data than
\* it fired on before (a cache may be refilled with an older bar).
DataFiresOnce ==
  \A a \in Alert : \A i, j \in DOMAIN fires[a] :
    i < j => \/ fires[a][i].data = Null
             \/ fires[a][j].data = Null
             \/ fires[a][i].data < fires[a][j].data

\* The row tells the truth about its fires: how many there were, when the last
\* one was, and the newest as-of any of them rested on (never one made up for a
\* fire on data without an as-of).
RowTellsItsFires ==
  \A a \in Live :
    LET f == fires[a]
        row == rows[a]
        asofs == {f[i].data : i \in DOMAIN f} \ {Null}
    IN /\ row.trigger_count = Len(f)
       /\ row.status = (IF f = <<>> THEN "ACTIVE" ELSE "TRIGGERED")
       /\ row.triggered_at = (IF f = <<>> THEN Null ELSE f[Len(f)].at)
       /\ IF asofs = {} THEN row.triggered_data_at = Null
          ELSE /\ row.triggered_data_at \in asofs
               /\ \A asof \in asofs : asof <= row.triggered_data_at

\* Only the run that won a claim is about to notify for it: the fire exists,
\* was not handed over before, and no other run holds it.
OneSenderPerFire ==
  \A r \in Run : run[r].pc = "notify" =>
    LET a == run[r].alert
        n == run[r].fire
    IN /\ n \in DOMAIN fires[a] \ sent[a]
       /\ \A q \in Run \ {r} :
            run[q].pc = "notify" => <<run[q].alert, run[q].fire>> # <<a, n>>

\* A paused alert does not fire, however stale the SELECT that found it active.
PausedNeverFires ==
  [][\A a \in Alert : fires'[a] # fires[a] => life[a] = "live" /\ rows[a].is_active]_vars

\* An alert whose condition holds now and which nothing bars from firing does
\* not stay that way for ever: a run finds it, also after it has fired before,
\* and whatever claims of another run, deletions that abort the run, and killed
\* workers come first.
Due(a) ==
  LET d == Compared(a)
  IN /\ d # Null
     /\ Triggered(a, d.price, rows[a].value)
     /\ Eligible(a, now, d.ts)
DueNeverForever == \A a \in Alert : []<>~Due(a)

\* The checker keeps the promise stated apart from it.
Promise == INSTANCE AlertPromise WITH
             Alert <- Alert, Time <- Time, Cooldown <- Cooldown, Null <- Null,
             fires <- fires, sent <- sent
KeepsPromise == Promise!Spec

\* A module comment of alert_checker.py says of a fund that the same NAV can win
\* a claim at most once.
NavFiresOnce ==
  \A a \in Alert : TypeOf(a) \in PriceTypes /\ SymbolOf(a) \in Fund =>
    \A i, j \in DOMAIN fires[a] : i < j => fires[a][i].date # fires[a][j].date
=============================================================================
