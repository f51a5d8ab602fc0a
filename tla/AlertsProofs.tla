---------------------------- MODULE AlertsProofs ----------------------------
(***************************************************************************)
(* Proofs about Alerts for every set of alerts, runs and symbols, every    *)
(* cooldown and every bound.                                               *)
(***************************************************************************)
EXTENDS Alerts, SequenceTheorems, TLAPS

USE DEF OrNull, Time

\* The blank values the model resets to have their types.
LEMMA BlanksTyped ==
  /\ \A v \in Level : BlankRow(v) \in Row
  /\ (CHOOSE v \in Level : TRUE) \in Level
  /\ IdleRun \in RunState
<1>1. (CHOOSE v \in Level : TRUE) \in Level
  BY ShapeAssumption
<1>2. \A v \in Level : BlankRow(v) \in Row
  BY DEF BlankRow, Row
<1>3. IdleRun \in RunState
  BY <1>1, BoundAssumption DEF IdleRun, RunState
<1> QED
  BY <1>1, <1>2, <1>3

\* Writing columns of a row leaves a row.
LEMMA RowWritesTyped ==
  ASSUME NEW row \in Row
  PROVE  /\ \A v \in Level : [row EXCEPT !.value = v] \in Row
         /\ [row EXCEPT !.is_active = ~@] \in Row
         /\ \A at \in Time, ts \in OrNull(Time) : ClaimedRow(row, at, ts) \in Row
<1>1. \A v \in Level : [row EXCEPT !.value = v] \in Row
  BY DEF Row
<1>2. [row EXCEPT !.is_active = ~@] \in Row
  <2> DEFINE paused == ~row.is_active
  <2>1. paused \in BOOLEAN
    OBVIOUS
  <2> HIDE DEF paused
  <2>2. [row EXCEPT !.is_active = paused] \in Row
    BY <2>1 DEF Row
  <2> QED
    BY <2>2, Zenon DEF paused
<1>3. \A at \in Time, ts \in OrNull(Time) : ClaimedRow(row, at, ts) \in Row
  <2> SUFFICES ASSUME NEW at \in Time, NEW ts \in OrNull(Time)
               PROVE  ClaimedRow(row, at, ts) \in Row
    OBVIOUS
  <2> DEFINE data == IF ts = Null THEN row.triggered_data_at ELSE ts
             count == row.trigger_count + 1
  <2>1. data \in OrNull(Time) /\ count \in Nat
    BY DEF Row
  <2>2. ClaimedRow(row, at, ts)
          = [row EXCEPT !.status = "TRIGGERED", !.triggered_at = at,
                        !.triggered_data_at = data, !.trigger_count = count]
    BY DEF ClaimedRow
  <2> HIDE DEF data, count
  <2> QED
    BY <2>1, <2>2 DEF Row
<1> QED
  BY <1>1, <1>2, <1>3

\* So does recording a decision or a won claim in the local state of a run.
LEMMA RunWritesTyped ==
  ASSUME NEW st \in RunState
  PROVE  /\ \A a \in Alert : [st EXCEPT !.todo = @ \ {a}] \in RunState
         /\ \A a \in Alert, t \in Time, ts \in OrNull(Time), d \in OrNull(Time) :
              [st EXCEPT !.pc = "claim", !.alert = a, !.now = t,
                         !.value_ts = ts, !.date = d] \in RunState
         /\ \A n \in Nat :
              [st EXCEPT !.pc = "notify", !.expired = TRUE, !.fire = n] \in RunState
<1>1. \A a \in Alert : [st EXCEPT !.todo = @ \ {a}] \in RunState
  BY DEF RunState
<1>2. \A a \in Alert, t \in Time, ts \in OrNull(Time), d \in OrNull(Time) :
        [st EXCEPT !.pc = "claim", !.alert = a, !.now = t,
                   !.value_ts = ts, !.date = d] \in RunState
  BY DEF RunState
<1>3. \A n \in Nat : [st EXCEPT !.pc = "notify", !.expired = TRUE, !.fire = n] \in RunState
  BY DEF RunState
<1> QED
  BY <1>1, <1>2, <1>3

\* Every reachable state is well typed (the type invariant of Alerts).
THEOREM TypeCorrect == Spec => []TypeOK
<1>1. Init => TypeOK
  <2> SUFFICES ASSUME Init
               PROVE  TypeOK
    OBVIOUS
  <2>1. now \in Time /\ edits \in 0 .. MaxEdits
    BY BoundAssumption DEF Init
  <2>2. nav \in [Fund -> Published]
    BY BlanksTyped, BoundAssumption DEF Init, Published
  <2>3. /\ quote \in [Symbol -> OrNull(Reading)]
        /\ fund \in [Symbol -> OrNull(Reading)]
        /\ ohlcv \in [Symbol -> OrNull(Reading)]
    BY DEF Init
  <2>4. kind \in [Alert -> Kind] /\ life \in [Alert -> {"unused", "live", "deleted"}]
    BY DEF Init
  <2>5. rows \in [Alert -> Row] /\ run \in [Run -> RunState]
    BY BlanksTyped DEF Init
  <2>6. <<>> \in Seq(FireRecord) /\ {} \in SUBSET Nat
    OBVIOUS
  <2>7. fires \in [Alert -> Seq(FireRecord)] /\ sent \in [Alert -> SUBSET Nat]
    BY <2>6 DEF Init
  <2> QED
    BY <2>1, <2>2, <2>3, <2>4, <2>5, <2>7 DEF TypeOK
<1>2. TypeOK /\ [Next]_vars => TypeOK'
  <2> SUFFICES ASSUME TypeOK, [Next]_vars
               PROVE  TypeOK'
    OBVIOUS
  <2> USE ShapeAssumption, BoundAssumption
  <2>1. CASE Tick
    BY <2>1 DEF Tick, TypeOK, caches, history
  <2>2. ASSUME NEW s \in Symbol, NEW p \in Level, PublishNav(s, p)
        PROVE  TypeOK'
    BY <2>2 DEF PublishNav, TypeOK, Published, history
  <2>3. ASSUME NEW s \in Symbol, NEW p \in Level, cache_and_publish_quotes(s, p)
        PROVE  TypeOK'
    BY <2>3 DEF cache_and_publish_quotes, TypeOK, Reading, history
  <2>4. ASSUME NEW s \in Symbol, NEW p \in Level, fetch_quote_now(s, p)
        PROVE  TypeOK'
    BY <2>4 DEF fetch_quote_now, TypeOK, Reading, history
  <2>5. ASSUME NEW s \in Symbol, NEW p \in Level, prefetch_history(s, p)
        PROVE  TypeOK'
    BY <2>5 DEF prefetch_history, TypeOK, Reading, history
  <2>6. ASSUME NEW s \in Symbol, fetch_thai_fund_navs(s)
        PROVE  TypeOK'
    BY <2>6 DEF fetch_thai_fund_navs, TypeOK, Reading, Published, history
  <2>7. ASSUME NEW s \in Symbol, ExpireKeys(s)
        PROVE  TypeOK'
    BY <2>7 DEF ExpireKeys, TypeOK, history
  <2>8. ASSUME NEW a \in Alert, NEW v \in Level, NEW confirm \in BOOLEAN,
               create_alert(a, v, confirm)
        PROVE  TypeOK'
    BY <2>8, BlanksTyped DEF create_alert, TypeOK, caches, history
  <2>9. ASSUME NEW a \in Alert, NEW v \in Level, update_alert(a, v)
        PROVE  TypeOK'
    <3>1. [rows[a] EXCEPT !.value = v] \in Row
      BY RowWritesTyped DEF TypeOK
    <3>2. rows' = [rows EXCEPT ![a] = [rows[a] EXCEPT !.value = v]]
      BY <2>9 DEF update_alert
    <3>3. rows' \in [Alert -> Row]
      BY <3>1, <3>2 DEF TypeOK
    <3> QED
      BY <2>9, <3>3 DEF update_alert, TypeOK, caches, history
  <2>10. ASSUME NEW a \in Alert, delete_alert(a)
         PROVE  TypeOK'
    BY <2>10 DEF delete_alert, TypeOK, caches, history
  <2>11. ASSUME NEW a \in Alert, toggle_alert(a)
         PROVE  TypeOK'
    <3>1. [rows[a] EXCEPT !.is_active = ~@] \in Row
      BY RowWritesTyped DEF TypeOK
    <3>2. rows' = [rows EXCEPT ![a] = [rows[a] EXCEPT !.is_active = ~@]]
      BY <2>11, Zenon DEF toggle_alert
    <3>3. rows' \in [Alert -> Row]
      BY <3>1, <3>2 DEF TypeOK
    <3> QED
      BY <2>11, <3>3 DEF toggle_alert, TypeOK, caches, history
  <2>12. ASSUME NEW r \in Run, StartRun(r)
         PROVE  TypeOK'
    BY <2>12, BlanksTyped DEF StartRun, Selected, Live, TypeOK, RunState, Row, caches, history
  <2>13. ASSUME NEW r \in Run, NEW a \in Alert, Evaluate(r, a)
         PROVE  TypeOK'
    <3> DEFINE d == Compared(a)
               hit == d # Null /\ Triggered(a, d.price, LevelSeen(r, a))
    <3>1. run' = [run EXCEPT ![r] = IF hit THEN Decided(r, a, d) ELSE Skipped(r, a)]
      BY <2>13 DEF Evaluate
    <3>2. Skipped(r, a) \in RunState
      BY RunWritesTyped DEF TypeOK, Skipped
    <3>3. ASSUME d # Null
          PROVE  Decided(r, a, d) \in RunState
      <4>1. SymbolOf(a) \in Symbol
        BY DEF SymbolOf, TypeOK
      <4>2. d.ts \in OrNull(Time) /\ d.date \in OrNull(Time)
        BY <3>3, <4>1 DEF Compared, TypeOK, Reading
      <4>3. now \in Time
        BY DEF TypeOK
      <4> QED
        BY <3>2, <4>2, <4>3, RunWritesTyped DEF Decided
    <3>4. run' \in [Run -> RunState]
      <4>1. CASE hit
        BY <3>1, <3>3, <4>1 DEF TypeOK
      <4>2. CASE ~hit
        BY <3>1, <3>2, <4>2 DEF TypeOK
      <4> QED
        BY <4>1, <4>2
    <3> QED
      BY <2>13, <3>4 DEF Evaluate, TypeOK, caches, history
  <2>14. ASSUME NEW r \in Run, WinClaim(r)
         PROVE  TypeOK'
    <3> DEFINE a == run[r].alert
               f == [at |-> run[r].now, data |-> run[r].value_ts, date |-> run[r].date]
               won == [run[r] EXCEPT !.pc = "notify", !.expired = TRUE,
                                     !.fire = Len(fires[a]) + 1]
               claimed == ClaimedRow(rows[a], run[r].now, run[r].value_ts)
    <3>1. a \in Alert
      BY <2>14 DEF WinClaim, Eligible, Live
    <3>2. /\ rows' = [rows EXCEPT ![a] = claimed]
          /\ fires' = [fires EXCEPT ![a] = Append(@, f)]
          /\ run' = [run EXCEPT ![r] = won]
      BY <2>14 DEF WinClaim
    <3>3. run[r].now \in Time /\ run[r].value_ts \in OrNull(Time)
      BY DEF TypeOK, RunState
    <3>4. claimed \in Row
      BY <3>1, <3>3, RowWritesTyped DEF TypeOK
    <3>5. Len(fires[a]) + 1 \in Nat
      BY <3>1 DEF TypeOK
    <3>6. won \in RunState
      BY <3>5, RunWritesTyped DEF TypeOK
    <3>7. f \in FireRecord
      BY DEF TypeOK, RunState, FireRecord
    <3>8. Append(fires[a], f) \in Seq(FireRecord)
      BY <3>1, <3>7 DEF TypeOK
    <3> HIDE DEF f, won, claimed
    <3>9. /\ rows' \in [Alert -> Row]
          /\ fires' \in [Alert -> Seq(FireRecord)]
          /\ run' \in [Run -> RunState]
      BY <3>1, <3>2, <3>4, <3>6, <3>8 DEF TypeOK
    <3> QED
      BY <2>14, <3>9 DEF WinClaim, TypeOK, caches, history
  <2>15. ASSUME NEW r \in Run, LoseClaim(r)
         PROVE  TypeOK'
    BY <2>15, BlanksTyped DEF LoseClaim, AfterLostClaim, BackToScan, TypeOK, RunState, caches, history
  <2>16. ASSUME NEW r \in Run, NEW delivered \in BOOLEAN, Notify(r, delivered)
         PROVE  TypeOK'
    <3>1. BackToScan(r) \in RunState
      BY BlanksTyped DEF BackToScan, TypeOK, RunState
    <3>2. run[r].fire \in Nat
      BY DEF TypeOK, RunState
    <3>3. run' \in [Run -> RunState]
      BY <2>16, <3>1 DEF Notify, TypeOK
    <3>4. sent' \in [Alert -> SUBSET Nat]
      <4>1. CASE delivered
        BY <2>16, <3>2, <4>1 DEF Notify, TypeOK
      <4>2. CASE ~delivered
        BY <2>16, <4>2 DEF Notify, TypeOK
      <4> QED
        BY <4>1, <4>2
    <3> QED
      BY <2>16, <3>3, <3>4 DEF Notify, TypeOK, caches
  <2>17. ASSUME NEW r \in Run, FinishRun(r) \/ AbortRun(r) \/ Crash(r)
         PROVE  TypeOK'
    BY <2>17, BlanksTyped DEF FinishRun, AbortRun, Crash, TypeOK, caches, history
  <2>18. CASE UNCHANGED vars
    BY <2>18 DEF vars, TypeOK, caches, history
  <2> QED
    BY <2>1, <2>2, <2>3, <2>4, <2>5, <2>6, <2>7, <2>8, <2>9, <2>10, <2>11, <2>12,
       <2>13, <2>14, <2>15, <2>16, <2>17, <2>18
       DEF Next, Step, Feeds, Requests, RunStep
<1> QED
  BY <1>1, <1>2, PTL DEF Spec

-----------------------------------------------------------------------------
(* The fires of an alert.  What makes their spacing inductive: everything  *)
(* an alert ever fired on lies at or below what its row remembers, so the  *)
(* claim's WHERE clause, which sees only the row, speaks for all of them.  *)

LogBelowRow ==
  \A a \in Alert :
    /\ life[a] = "unused" => fires[a] = <<>>
    /\ \A i \in DOMAIN fires[a] :
         /\ rows[a].triggered_at # Null
         /\ fires[a][i].at <= rows[a].triggered_at
         /\ fires[a][i].data # Null =>
              /\ rows[a].triggered_data_at # Null
              /\ fires[a][i].data <= rows[a].triggered_data_at

FireInv == TypeOK /\ LogBelowRow /\ FiresSpaced /\ DataFiresOnce

\* What a step that wins no claim may do to the log and the columns it rests on.
LogKept ==
  /\ fires' = fires
  /\ \A a \in Alert : life'[a] = "unused" => life[a] = "unused"
  /\ \A a \in Alert :
       \/ life'[a] # "live"
       \/ life[a] = "live"
       \/ /\ life[a] = "unused"
          /\ \E v \in Level : rows'[a] = BlankRow(v)
  /\ \A a \in Alert :
       \/ life[a] = "unused"
       \/ /\ rows'[a].trigger_count = rows[a].trigger_count
          /\ rows'[a].status = rows[a].status
          /\ rows'[a].triggered_at = rows[a].triggered_at
          /\ rows'[a].triggered_data_at = rows[a].triggered_data_at

\* Only a won claim adds a fire or moves a row's triggered columns.
LEMMA OnlyClaimsFire ==
  ASSUME TypeOK, [Next]_vars
  PROVE  LogKept \/ \E r \in Run : WinClaim(r)
<1>1. CASE Tick
  BY <1>1 DEF Tick, LogKept, caches, history
<1>2. CASE \E s \in Symbol, p \in Level :
             PublishNav(s, p) \/ cache_and_publish_quotes(s, p)
             \/ fetch_quote_now(s, p) \/ prefetch_history(s, p)
  BY <1>2 DEF PublishNav, cache_and_publish_quotes, fetch_quote_now, prefetch_history,
              LogKept, history
<1>3. CASE \E s \in Symbol : fetch_thai_fund_navs(s) \/ ExpireKeys(s)
  BY <1>3 DEF fetch_thai_fund_navs, ExpireKeys, LogKept, history
<1>4. ASSUME NEW a \in Alert, NEW v \in Level, NEW confirm \in BOOLEAN,
             create_alert(a, v, confirm)
      PROVE  LogKept
  BY <1>4 DEF create_alert, LogKept, TypeOK, history
<1>5. ASSUME NEW a \in Alert, NEW v \in Level, update_alert(a, v)
      PROVE  LogKept
  <2>1. rows' = [rows EXCEPT ![a] = [rows[a] EXCEPT !.value = v]]
    BY <1>5 DEF update_alert
  <2> QED
    BY <1>5, <2>1 DEF update_alert, LogKept, TypeOK, Row, history
<1>6. ASSUME NEW a \in Alert, delete_alert(a)
      PROVE  LogKept
  BY <1>6 DEF delete_alert, LogKept, TypeOK, history
<1>7. ASSUME NEW a \in Alert, toggle_alert(a)
      PROVE  LogKept
  <2> DEFINE paused == ~rows[a].is_active
  <2>1. rows' = [rows EXCEPT ![a] = [rows[a] EXCEPT !.is_active = paused]]
    BY <1>7, Zenon DEF toggle_alert
  <2> HIDE DEF paused
  <2> QED
    BY <1>7, <2>1 DEF toggle_alert, LogKept, TypeOK, Row, history
<1>8. ASSUME NEW r \in Run, StartRun(r) \/ LoseClaim(r) \/ FinishRun(r) \/ AbortRun(r) \/ Crash(r)
      PROVE  LogKept
  BY <1>8 DEF StartRun, LoseClaim, FinishRun, AbortRun, Crash, LogKept, history
<1>9. ASSUME NEW r \in Run, NEW a \in Alert, Evaluate(r, a)
      PROVE  LogKept
  BY <1>9 DEF Evaluate, LogKept, history
<1>10. ASSUME NEW r \in Run, NEW delivered \in BOOLEAN, Notify(r, delivered)
       PROVE  LogKept
  BY <1>10 DEF Notify, LogKept
<1>11. CASE UNCHANGED vars
  BY <1>11 DEF vars, LogKept, history
<1> QED
  BY <1>1, <1>2, <1>3, <1>4, <1>5, <1>6, <1>7, <1>8, <1>9, <1>10, <1>11
     DEF Next, Step, Feeds, Requests, RunStep

\* The values a won claim rests on, and what it makes of the log and the row.
LEMMA WonClaim ==
  ASSUME TypeOK, NEW r \in Run, WinClaim(r)
  PROVE  LET a == run[r].alert
             f == [at |-> run[r].now, data |-> run[r].value_ts, date |-> run[r].date]
         IN /\ a \in Alert /\ life[a] = "live"
            /\ f \in FireRecord
            /\ fires' = [fires EXCEPT ![a] = Append(@, f)]
            /\ rows' = [rows EXCEPT ![a] = ClaimedRow(rows[a], f.at, f.data)]
            /\ rows[a] \in Row
            /\ CooledDown(rows[a], f.at) /\ NewerData(rows[a], f.data)
            /\ life' = life /\ sent' = sent
<1>1. run[r].alert \in Alert /\ life[run[r].alert] = "live"
  BY DEF WinClaim, Eligible, Live
<1>2. [at |-> run[r].now, data |-> run[r].value_ts, date |-> run[r].date] \in FireRecord
  BY DEF TypeOK, RunState, FireRecord
<1>3. rows[run[r].alert] \in Row
  BY <1>1 DEF TypeOK
<1> QED
  BY <1>1, <1>2, <1>3 DEF WinClaim, Eligible

\* What ClaimedRow writes into the columns the claim's guard reads.
LEMMA ClaimedColumns ==
  ASSUME NEW row \in Row, NEW at, NEW ts
  PROVE  /\ ClaimedRow(row, at, ts).triggered_at = at
         /\ ts = Null => ClaimedRow(row, at, ts).triggered_data_at = row.triggered_data_at
         /\ ts # Null => ClaimedRow(row, at, ts).triggered_data_at = ts
BY DEF ClaimedRow, Row

\* The claim's guard, read on the row, bounds every earlier fire of the alert.
LEMMA GuardSpeaksForLog ==
  ASSUME TypeOK, LogBelowRow, NEW a \in Alert, NEW f \in FireRecord,
         CooledDown(rows[a], f.at), NewerData(rows[a], f.data),
         NEW i \in DOMAIN fires[a]
  PROVE  /\ fires[a][i] \in FireRecord
         /\ fires[a][i].at + Cooldown <= f.at
         /\ fires[a][i].data # Null /\ f.data # Null => fires[a][i].data < f.data
<1>1. fires[a] \in Seq(FireRecord)
  BY DEF TypeOK
<1>2. fires[a][i] \in FireRecord
  BY <1>1
<1>3. rows[a] \in Row
  BY DEF TypeOK
<1>4. /\ rows[a].triggered_at # Null
      /\ fires[a][i].at <= rows[a].triggered_at
      /\ fires[a][i].data # Null => /\ rows[a].triggered_data_at # Null
                                    /\ fires[a][i].data <= rows[a].triggered_data_at
  BY DEF LogBelowRow
<1>5. fires[a][i].at \in Int /\ f.at \in Int /\ Cooldown \in Int /\ rows[a].triggered_at \in Int
  BY <1>2, <1>3, <1>4, BoundAssumption DEF FireRecord, Row
<1>6. fires[a][i].at + Cooldown <= f.at
  BY <1>4, <1>5 DEF CooledDown
<1>7. ASSUME fires[a][i].data # Null, f.data # Null
      PROVE  fires[a][i].data < f.data
  <2>1. fires[a][i].data \in Int /\ f.data \in Int /\ rows[a].triggered_data_at \in Int
    BY <1>2, <1>3, <1>4, <1>7, BoundAssumption DEF FireRecord, Row
  <2> QED
    BY <1>4, <1>7, <2>1 DEF NewerData
<1> QED
  BY <1>2, <1>6, <1>7

LEMMA FireInvStep ==
  ASSUME FireInv, [Next]_vars, TypeOK'
  PROVE  FireInv'
<1> USE DEF FireInv
<1>1. CASE LogKept
  <2>1. LogBelowRow'
    <3> SUFFICES ASSUME NEW a \in Alert
                 PROVE  /\ life'[a] = "unused" => fires'[a] = <<>>
                        /\ \A i \in DOMAIN fires'[a] :
                             /\ rows'[a].triggered_at # Null
                             /\ fires'[a][i].at <= rows'[a].triggered_at
                             /\ fires'[a][i].data # Null =>
                                  /\ rows'[a].triggered_data_at # Null
                                  /\ fires'[a][i].data <= rows'[a].triggered_data_at
      BY DEF LogBelowRow
    <3>1. CASE life[a] = "unused"
      <4>1. fires'[a] = <<>>
        BY <1>1, <3>1 DEF LogKept, LogBelowRow
      <4> QED
        BY <4>1
    <3>2. CASE life[a] # "unused"
      BY <1>1, <3>2 DEF LogKept, LogBelowRow
    <3> QED
      BY <3>1, <3>2
  <2>2. FiresSpaced' /\ DataFiresOnce'
    BY <1>1 DEF LogKept, FiresSpaced, DataFiresOnce
  <2> QED
    BY <2>1, <2>2
<1>2. ASSUME NEW r \in Run, WinClaim(r)
      PROVE  FireInv'
  <2> DEFINE a == run[r].alert
             f == [at |-> run[r].now, data |-> run[r].value_ts, date |-> run[r].date]
             s == fires[a]
             row == ClaimedRow(rows[a], f.at, f.data)
  <2>1. /\ a \in Alert /\ life[a] = "live"
        /\ f \in FireRecord
        /\ fires' = [fires EXCEPT ![a] = Append(@, f)]
        /\ rows' = [rows EXCEPT ![a] = row]
        /\ rows[a] \in Row
        /\ CooledDown(rows[a], f.at) /\ NewerData(rows[a], f.data)
        /\ life' = life
    BY <1>2, WonClaim
  <2>2. /\ row.triggered_at = f.at
        /\ f.data = Null => row.triggered_data_at = rows[a].triggered_data_at
        /\ f.data # Null => row.triggered_data_at = f.data
    BY <2>1, ClaimedColumns
  <2> HIDE DEF f, row
  <2>3. s \in Seq(FireRecord) /\ Len(s) \in Nat
    BY <2>1 DEF TypeOK
  <2>4. /\ fires'[a] = Append(s, f)
        /\ rows'[a] = row
        /\ \A b \in Alert \ {a} : fires'[b] = fires[b] /\ rows'[b] = rows[b]
    BY <2>1 DEF TypeOK
  <2>5. /\ DOMAIN Append(s, f) = 1 .. Len(s) + 1
        /\ DOMAIN s = 1 .. Len(s)
        /\ Append(s, f)[Len(s) + 1] = f
        /\ \A i \in 1 .. Len(s) : Append(s, f)[i] = s[i]
    BY <2>1, <2>3
  <2>6. \A i \in 1 .. Len(s) :
           /\ s[i] \in FireRecord
           /\ s[i].at + Cooldown <= f.at
           /\ s[i].data # Null /\ f.data # Null => s[i].data < f.data
    BY <2>1, <2>5, GuardSpeaksForLog
  <2>7. FiresSpaced'
    <3> SUFFICES ASSUME NEW b \in Alert, NEW i \in DOMAIN fires'[b], NEW j \in DOMAIN fires'[b],
                        i < j
                 PROVE  fires'[b][i].at + Cooldown <= fires'[b][j].at
      BY DEF FiresSpaced
    <3>1. CASE b # a
      BY <2>4, <3>1 DEF FiresSpaced
    <3>2. CASE b = a /\ j \in 1 .. Len(s)
      <4>1. i \in 1 .. Len(s)
        BY <2>3, <2>4, <2>5, <3>2
      <4> QED
        BY <2>1, <2>4, <2>5, <3>2, <4>1 DEF FiresSpaced
    <3>3. CASE b = a /\ j = Len(s) + 1
      <4>1. i \in 1 .. Len(s)
        BY <2>3, <2>4, <2>5, <3>3
      <4> QED
        BY <2>4, <2>5, <2>6, <3>3, <4>1
    <3>4. b = a => j \in 1 .. Len(s) \/ j = Len(s) + 1
      BY <2>3, <2>4, <2>5
    <3> QED
      BY <3>1, <3>2, <3>3, <3>4
  <2>8. DataFiresOnce'
    <3> SUFFICES ASSUME NEW b \in Alert, NEW i \in DOMAIN fires'[b], NEW j \in DOMAIN fires'[b],
                        i < j
                 PROVE  \/ fires'[b][i].data = Null
                        \/ fires'[b][j].data = Null
                        \/ fires'[b][i].data < fires'[b][j].data
      BY DEF DataFiresOnce
    <3>1. CASE b # a
      BY <2>4, <3>1 DEF DataFiresOnce
    <3>2. CASE b = a /\ j \in 1 .. Len(s)
      <4>1. i \in 1 .. Len(s)
        BY <2>3, <2>4, <2>5, <3>2
      <4> QED
        BY <2>1, <2>4, <2>5, <3>2, <4>1 DEF DataFiresOnce
    <3>3. CASE b = a /\ j = Len(s) + 1
      <4>1. i \in 1 .. Len(s)
        BY <2>3, <2>4, <2>5, <3>3
      <4> QED
        BY <2>4, <2>5, <2>6, <3>3, <4>1
    <3>4. b = a => j \in 1 .. Len(s) \/ j = Len(s) + 1
      BY <2>3, <2>4, <2>5
    <3> QED
      BY <3>1, <3>2, <3>3, <3>4
  <2>9. LogBelowRow'
    <3> SUFFICES ASSUME NEW b \in Alert
                 PROVE  /\ life'[b] = "unused" => fires'[b] = <<>>
                        /\ \A i \in DOMAIN fires'[b] :
                             /\ rows'[b].triggered_at # Null
                             /\ fires'[b][i].at <= rows'[b].triggered_at
                             /\ fires'[b][i].data # Null =>
                                  /\ rows'[b].triggered_data_at # Null
                                  /\ fires'[b][i].data <= rows'[b].triggered_data_at
      BY DEF LogBelowRow
    <3>1. CASE b # a
      BY <2>1, <2>4, <3>1 DEF LogBelowRow
    <3>2. CASE b = a
      <4>1. life'[b] # "unused"
        BY <2>1, <3>2
      <4>2. f.at \in Int /\ f.at # Null /\ f.data \in Int \cup {Null} /\ Cooldown \in Nat
        BY <2>1, BoundAssumption, NullAssumption DEF FireRecord
      <4>3. ASSUME NEW i \in 1 .. Len(s)
            PROVE  /\ s[i].at <= f.at
                   /\ s[i].data # Null => /\ row.triggered_data_at # Null
                                          /\ s[i].data <= row.triggered_data_at
        <5>1. s[i].at \in Int /\ s[i].data \in Int \cup {Null}
          BY <2>6 DEF FireRecord
        <5>2. s[i].data # Null => /\ rows[a].triggered_data_at # Null
                                  /\ s[i].data <= rows[a].triggered_data_at
          BY <2>1, <2>5 DEF LogBelowRow
        <5>3. CASE f.data = Null
          BY <2>2, <2>6, <4>2, <5>1, <5>2, <5>3
        <5>4. CASE f.data # Null
          BY <2>2, <2>6, <4>2, <5>1, <5>4
        <5> QED
          BY <5>3, <5>4
      <4>4. ASSUME NEW i \in 1 .. Len(s) + 1
            PROVE  /\ rows'[b].triggered_at # Null
                   /\ fires'[b][i].at <= rows'[b].triggered_at
                   /\ fires'[b][i].data # Null =>
                        /\ rows'[b].triggered_data_at # Null
                        /\ fires'[b][i].data <= rows'[b].triggered_data_at
        <5>1. CASE i \in 1 .. Len(s)
          BY <2>2, <2>4, <2>5, <3>2, <4>2, <4>3, <5>1
        <5>2. CASE i = Len(s) + 1
          BY <2>2, <2>4, <2>5, <3>2, <4>2, <5>2
        <5> QED
          BY <2>3, <5>1, <5>2
      <4> QED
        BY <2>4, <2>5, <3>2, <4>1, <4>4
    <3> QED
      BY <3>1, <3>2
  <2> QED
    BY <2>7, <2>8, <2>9
<1> QED
  BY <1>1, <1>2, OnlyClaimsFire

\* FireInv holds in every reachable state.
LEMMA FireInvariant == Spec => []FireInv
<1>1. Init => LogBelowRow /\ FiresSpaced /\ DataFiresOnce
  <2> SUFFICES ASSUME Init
               PROVE  LogBelowRow /\ FiresSpaced /\ DataFiresOnce
    OBVIOUS
  <2>1. \A a \in Alert : fires[a] = <<>> /\ DOMAIN fires[a] = {}
    BY DEF Init
  <2> QED
    BY <2>1 DEF LogBelowRow, FiresSpaced, DataFiresOnce
<1>2. TypeOK /\ LogBelowRow /\ FiresSpaced /\ DataFiresOnce => FireInv
  BY DEF FireInv
<1>3. FireInv /\ TypeOK' /\ [Next]_vars => FireInv'
  BY FireInvStep
<1> QED
  BY <1>1, <1>2, <1>3, TypeCorrect, PTL DEF Spec

\* Two fires of an alert lie at least the cooldown apart, whatever runs
\* overlap, retry or crash: the claim is the dedupe key.
THEOREM SpacingHolds == Spec => []FiresSpaced
BY FireInvariant, PTL DEF FireInv

\* No alert fires twice on data of one as-of, nor on older data.
THEOREM DataOnceHolds == Spec => []DataFiresOnce
BY FireInvariant, PTL DEF FireInv

\* What RowTellsItsFires says of a row and its fires.
AsOfs(f) == {f[i].data : i \in DOMAIN f} \ {Null}
Tells(row, f) ==
  /\ row.trigger_count = Len(f)
  /\ row.status = (IF f = <<>> THEN "ACTIVE" ELSE "TRIGGERED")
  /\ row.triggered_at = (IF f = <<>> THEN Null ELSE f[Len(f)].at)
  /\ IF AsOfs(f) = {} THEN row.triggered_data_at = Null
     ELSE /\ row.triggered_data_at \in AsOfs(f)
          /\ \A asof \in AsOfs(f) : asof <= row.triggered_data_at

\* A created row tells of no fire.
LEMMA BlankTells ==
  ASSUME NEW v \in Level
  PROVE  Tells(BlankRow(v), <<>>)
<1>1. DOMAIN <<>> = {} /\ Len(<<>>) = 0
  OBVIOUS
<1>2. AsOfs(<<>>) = {}
  BY <1>1 DEF AsOfs
<1> QED
  BY <1>1, <1>2 DEF Tells, BlankRow

\* A won claim writes the row that tells of one fire more.
LEMMA ClaimTells ==
  ASSUME NEW row \in Row, NEW s \in Seq(FireRecord), NEW f \in FireRecord,
         Tells(row, s), NewerData(row, f.data)
  PROVE  Tells(ClaimedRow(row, f.at, f.data), Append(s, f))
<1> DEFINE new == ClaimedRow(row, f.at, f.data)
           t == Append(s, f)
<1>1. /\ t # <<>> /\ Len(t) = Len(s) + 1 /\ t[Len(t)] = f
      /\ \A i \in DOMAIN s : t[i] = s[i]
      /\ DOMAIN t = DOMAIN s \cup {Len(t)}
      /\ Len(s) \in Nat
  OBVIOUS
<1>2. /\ new.trigger_count = row.trigger_count + 1 /\ new.status = "TRIGGERED"
      /\ new.triggered_at = f.at
      /\ f.data = Null => new.triggered_data_at = row.triggered_data_at
      /\ f.data # Null => new.triggered_data_at = f.data
  BY DEF ClaimedRow, Row
<1> HIDE DEF new, t
<1>3. AsOfs(t) = (AsOfs(s) \cup {f.data}) \ {Null}
  BY <1>1 DEF AsOfs
<1>4. \A asof \in AsOfs(s) : asof \in Int
  <2>1. \A i \in DOMAIN s : s[i] \in FireRecord
    OBVIOUS
  <2>2. \A g \in FireRecord : g.data # Null => g.data \in Int
    BY BoundAssumption DEF FireRecord
  <2> QED
    BY <2>1, <2>2 DEF AsOfs
<1>5. f.data # Null => f.data \in Int
  BY BoundAssumption DEF FireRecord
<1>6. IF AsOfs(t) = {} THEN new.triggered_data_at = Null
      ELSE /\ new.triggered_data_at \in AsOfs(t)
           /\ \A asof \in AsOfs(t) : asof <= new.triggered_data_at
  <2>1. CASE f.data = Null
    <3>1. AsOfs(t) = AsOfs(s)
      BY <1>3, <2>1 DEF AsOfs
    <3> QED
      BY <1>2, <2>1, <3>1 DEF Tells
  <2>2. CASE f.data # Null
    <3>1. AsOfs(t) = AsOfs(s) \cup {f.data}
      BY <1>3, <2>2 DEF AsOfs
    <3>2. \A asof \in AsOfs(s) : asof <= f.data
      <4> SUFFICES ASSUME NEW asof \in AsOfs(s)
                   PROVE  asof <= f.data
        OBVIOUS
      <4>1. /\ row.triggered_data_at \in AsOfs(s) /\ asof <= row.triggered_data_at
            /\ row.triggered_data_at # Null
        BY DEF Tells, AsOfs
      <4>2. row.triggered_data_at < f.data
        BY <2>2, <4>1 DEF NewerData
      <4> QED
        BY <1>4, <1>5, <2>2, <4>1, <4>2
    <3> QED
      BY <1>2, <1>5, <2>2, <3>1, <3>2
  <2> QED
    BY <2>1, <2>2
<1>7. new.trigger_count = Len(t)
  BY <1>1, <1>2 DEF Tells
<1> QED
  BY <1>1, <1>2, <1>6, <1>7 DEF Tells, new, t

TellsInv == \A a \in Live : Tells(rows[a], fires[a])

LEMMA TellsStep ==
  ASSUME FireInv, TellsInv, [Next]_vars
  PROVE  TellsInv'
<1> SUFFICES ASSUME NEW a \in Alert, life'[a] = "live"
             PROVE  Tells(rows'[a], fires'[a])
  BY DEF TellsInv, Live
<1>1. CASE LogKept
  <2>1. CASE life[a] = "live"
    <3>1. Tells(rows[a], fires[a])
      BY <2>1 DEF TellsInv, Live
    <3> QED
      BY <1>1, <2>1, <3>1 DEF LogKept, Tells
  <2>2. CASE life[a] # "live"
    <3>1. fires'[a] = <<>> /\ \E v \in Level : rows'[a] = BlankRow(v)
      BY <1>1, <2>2 DEF LogKept, FireInv, LogBelowRow
    <3> QED
      BY <3>1, BlankTells
  <2> QED
    BY <2>1, <2>2
<1>2. ASSUME NEW r \in Run, WinClaim(r)
      PROVE  Tells(rows'[a], fires'[a])
  <2> DEFINE b == run[r].alert
             f == [at |-> run[r].now, data |-> run[r].value_ts, date |-> run[r].date]
  <2>1. /\ b \in Alert /\ f \in FireRecord /\ life' = life
        /\ fires' = [fires EXCEPT ![b] = Append(@, f)]
        /\ rows' = [rows EXCEPT ![b] = ClaimedRow(rows[b], f.at, f.data)]
        /\ rows[b] \in Row /\ NewerData(rows[b], f.data)
    BY <1>2, WonClaim DEF FireInv
  <2> HIDE DEF f, b
  <2>2. Tells(rows[a], fires[a]) /\ fires[a] \in Seq(FireRecord)
    BY <2>1 DEF TellsInv, Live, FireInv, TypeOK
  <2>3. CASE a = b
    <3>1. /\ fires'[a] = Append(fires[a], f)
          /\ rows'[a] = ClaimedRow(rows[a], f.at, f.data)
      BY <2>1, <2>3 DEF FireInv, TypeOK
    <3> QED
      BY <2>1, <2>2, <2>3, <3>1, ClaimTells
  <2>4. CASE a # b
    <3>1. fires'[a] = fires[a] /\ rows'[a] = rows[a]
      BY <2>1, <2>4 DEF FireInv, TypeOK
    <3> QED
      BY <2>2, <3>1
  <2> QED
    BY <2>3, <2>4
<1> QED
  BY <1>1, <1>2, OnlyClaimsFire DEF FireInv

\* The row of a live alert counts its fires, remembers the last one and the
\* newest as-of among them: what the API shows is what the checker did.
THEOREM RowTells == Spec => []RowTellsItsFires
<1>1. Init => TellsInv
  BY DEF Init, TellsInv, Live
<1>2. FireInv /\ TellsInv /\ [Next]_vars => TellsInv'
  BY TellsStep
<1>3. TellsInv => RowTellsItsFires
  BY DEF TellsInv, Tells, AsOfs, RowTellsItsFires
<1> QED
  BY <1>1, <1>2, <1>3, FireInvariant, PTL DEF Spec

-----------------------------------------------------------------------------
(* Who may notify.  A run about to notify holds a fire that exists, that   *)
(* nobody has handed over and that no other run holds; a new claim takes   *)
(* the next number, which no run can hold yet.                             *)

SentInLog == \A a \in Alert : sent[a] \subseteq DOMAIN fires[a]
NotifiersNamed == \A r \in Run : run[r].pc = "notify" => run[r].alert \in Alert
SenderInv == OneSenderPerFire /\ SentInLog /\ NotifiersNamed

\* Every step that neither wins a claim nor notifies leaves the senders alone
\* or makes one of them idle.
SendersKept ==
  /\ fires' = fires
  /\ sent' = sent
  /\ \A r \in Run : run'[r].pc = "notify" => run'[r] = run[r]

LEMMA SendersChange ==
  ASSUME TypeOK, [Next]_vars
  PROVE  \/ SendersKept
         \/ \E r \in Run : WinClaim(r)
         \/ \E r \in Run, delivered \in BOOLEAN : Notify(r, delivered)
<1>0. IdleRun.pc = "idle"
  BY DEF IdleRun
<1>1. CASE Tick \/ \E s \in Symbol : fetch_thai_fund_navs(s) \/ ExpireKeys(s)
  BY <1>1 DEF Tick, fetch_thai_fund_navs, ExpireKeys, SendersKept, history
<1>2. CASE \E s \in Symbol, p \in Level :
             PublishNav(s, p) \/ cache_and_publish_quotes(s, p)
             \/ fetch_quote_now(s, p) \/ prefetch_history(s, p)
  BY <1>2 DEF PublishNav, cache_and_publish_quotes, fetch_quote_now, prefetch_history,
              SendersKept, history
<1>3. CASE Requests
  BY <1>3 DEF Requests, create_alert, update_alert, delete_alert, toggle_alert,
              SendersKept, history
<1>4. ASSUME NEW r \in Run, StartRun(r)
      PROVE  SendersKept
  <2> DEFINE st == [IdleRun EXCEPT !.pc = "scan", !.todo = Selected,
                                   !.seen = [a \in Alert |-> rows[a].value]]
  <2>1. run' = [run EXCEPT ![r] = st]
    BY <1>4 DEF StartRun
  <2>2. st.pc = "scan"
    BY DEF IdleRun
  <2> HIDE DEF st
  <2> QED
    BY <1>4, <2>1, <2>2 DEF StartRun, SendersKept, TypeOK, history
<1>5. ASSUME NEW r \in Run, NEW a \in Alert, Evaluate(r, a)
      PROVE  SendersKept
  <2>1. run[r] \in RunState /\ run[r].pc = "scan"
    BY <1>5 DEF Evaluate, TypeOK
  <2>2. Skipped(r, a).pc = "scan"
    BY <2>1 DEF Skipped, RunState
  <2>3. Skipped(r, a) \in RunState
    BY <2>1, RunWritesTyped DEF Skipped
  <2>4. \A d : Decided(r, a, d).pc = "claim"
    BY <2>3 DEF Decided, RunState
  <2>5. \E st : st.pc # "notify" /\ run' = [run EXCEPT ![r] = st]
    BY <1>5, <2>2, <2>4, Zenon DEF Evaluate
  <2> QED
    BY <1>5, <2>5 DEF Evaluate, SendersKept, TypeOK, history
<1>6. ASSUME NEW r \in Run, LoseClaim(r)
      PROVE  SendersKept
  <2>1. BackToScan(r).pc = "scan"
    BY DEF BackToScan, IdleRun
  <2> QED
    BY <1>6, <2>1 DEF LoseClaim, AfterLostClaim, SendersKept, TypeOK, history
<1>7. ASSUME NEW r \in Run, FinishRun(r) \/ AbortRun(r) \/ Crash(r)
      PROVE  SendersKept
  BY <1>0, <1>7 DEF FinishRun, AbortRun, Crash, SendersKept, TypeOK, history
<1>8. CASE UNCHANGED vars
  BY <1>8 DEF vars, SendersKept, history
<1> QED
  BY <1>1, <1>2, <1>3, <1>4, <1>5, <1>6, <1>7, <1>8 DEF Next, Step, Feeds, RunStep

LEMMA SenderInvStep ==
  ASSUME TypeOK, SenderInv, [Next]_vars
  PROVE  SenderInv'
<1> USE DEF SenderInv
<1>1. CASE SendersKept
  BY <1>1 DEF SendersKept, OneSenderPerFire, SentInLog, NotifiersNamed
<1>2. ASSUME NEW r \in Run, WinClaim(r)
      PROVE  SenderInv'
  <2> DEFINE a == run[r].alert
             f == [at |-> run[r].now, data |-> run[r].value_ts, date |-> run[r].date]
             n == Len(fires[a]) + 1
             st == [run[r] EXCEPT !.pc = "notify", !.expired = TRUE, !.fire = n]
  <2>1. /\ a \in Alert /\ f \in FireRecord
        /\ fires' = [fires EXCEPT ![a] = Append(@, f)]
        /\ sent' = sent
    BY <1>2, WonClaim
  <2>2. run' = [run EXCEPT ![r] = st]
    BY <1>2 DEF WinClaim
  <2>3. st.pc = "notify" /\ st.alert = a /\ st.fire = n
    BY DEF TypeOK, RunState
  <2> HIDE DEF f, st
  <2>4. fires[a] \in Seq(FireRecord)
    BY <2>1 DEF TypeOK
  <2>5. /\ DOMAIN fires[a] = 1 .. Len(fires[a])
        /\ DOMAIN Append(fires[a], f) = 1 .. n
        /\ n \notin DOMAIN fires[a] /\ n \in 1 .. n
        /\ 1 .. Len(fires[a]) \subseteq 1 .. n
    BY <2>1, <2>4
  <2> HIDE DEF n
  <2>6. /\ fires'[a] = Append(fires[a], f)
        /\ \A b \in Alert \ {a} : fires'[b] = fires[b]
        /\ \A b \in Alert : DOMAIN fires[b] \subseteq DOMAIN fires'[b]
    BY <2>1, <2>5 DEF TypeOK
  <2>7. run'[r] = st /\ \A q \in Run \ {r} : run'[q] = run[q]
    BY <2>2 DEF TypeOK
  <2>8. SentInLog'
    BY <2>1, <2>6 DEF SentInLog
  <2>9. \A q \in Run \ {r} : run[q].pc = "notify" => <<run[q].alert, run[q].fire>> # <<a, n>>
    BY <2>5 DEF OneSenderPerFire
  <2>10. OneSenderPerFire'
    <3> SUFFICES ASSUME NEW q \in Run, run'[q].pc = "notify"
                 PROVE  /\ run'[q].fire \in DOMAIN fires'[run'[q].alert] \ sent'[run'[q].alert]
                        /\ \A p \in Run \ {q} : run'[p].pc = "notify" =>
                             <<run'[p].alert, run'[p].fire>> # <<run'[q].alert, run'[q].fire>>
      BY DEF OneSenderPerFire
    <3>1. CASE q = r
      <4>1. n \in DOMAIN fires'[a] \ sent'[a]
        BY <2>1, <2>5, <2>6 DEF SentInLog
      <4> QED
        BY <2>3, <2>7, <2>9, <3>1, <4>1
    <3>2. CASE q # r
      <4>1. /\ run'[q] = run[q] /\ run[q].pc = "notify"
            /\ run[q].fire \in DOMAIN fires[run[q].alert] \ sent[run[q].alert]
        BY <2>7, <3>2 DEF OneSenderPerFire
      <4>2. run[q].alert \in Alert
        BY <4>1 DEF NotifiersNamed
      <4>3. \A p \in Run \ {q} : run'[p].pc = "notify" =>
              <<run'[p].alert, run'[p].fire>> # <<run'[q].alert, run'[q].fire>>
        BY <2>3, <2>7, <2>9, <3>2, <4>1 DEF OneSenderPerFire
      <4> QED
        BY <2>1, <2>6, <4>1, <4>2, <4>3
    <3> QED
      BY <3>1, <3>2
  <2>11. NotifiersNamed'
    BY <2>1, <2>3, <2>7 DEF NotifiersNamed
  <2> QED
    BY <2>8, <2>10, <2>11
<1>3. ASSUME NEW r \in Run, NEW delivered \in BOOLEAN, Notify(r, delivered)
      PROVE  SenderInv'
  <2> DEFINE a == run[r].alert
             n == run[r].fire
  <2>1. a \in Alert /\ run[r].pc = "notify" /\ fires' = fires
    BY <1>3 DEF Notify, Live
  <2>2. BackToScan(r).pc = "scan"
    BY DEF BackToScan, IdleRun
  <2>3. run'[r].pc # "notify" /\ \A q \in Run \ {r} : run'[q] = run[q]
    BY <1>3, <2>2 DEF Notify, TypeOK
  <2>4. n \in DOMAIN fires[a]
    BY <2>1 DEF OneSenderPerFire
  <2>5. /\ sent'[a] \subseteq sent[a] \cup {n}
        /\ \A b \in Alert \ {a} : sent'[b] = sent[b]
    BY <1>3, <2>1 DEF Notify, TypeOK
  <2>6. SentInLog'
    BY <2>1, <2>4, <2>5 DEF SentInLog
  <2>7. OneSenderPerFire'
    <3> SUFFICES ASSUME NEW q \in Run, run'[q].pc = "notify"
                 PROVE  /\ run'[q].fire \in DOMAIN fires'[run'[q].alert] \ sent'[run'[q].alert]
                        /\ \A p \in Run \ {q} : run'[p].pc = "notify" =>
                             <<run'[p].alert, run'[p].fire>> # <<run'[q].alert, run'[q].fire>>
      BY DEF OneSenderPerFire
    <3>1. q # r /\ run'[q] = run[q] /\ run[q].pc = "notify"
      BY <2>3
    <3>2. /\ run[q].fire \in DOMAIN fires[run[q].alert] \ sent[run[q].alert]
          /\ <<run[q].alert, run[q].fire>> # <<a, n>>
      BY <2>1, <3>1 DEF OneSenderPerFire
    <3>3. run[q].alert \in Alert
      BY <3>1 DEF NotifiersNamed
    <3> QED
      BY <2>1, <2>3, <2>5, <3>1, <3>2, <3>3 DEF OneSenderPerFire
  <2>8. NotifiersNamed'
    BY <2>3 DEF NotifiersNamed
  <2> QED
    BY <2>6, <2>7, <2>8
<1> QED
  BY <1>1, <1>2, <1>3, SendersChange

\* SenderInv holds in every reachable state.
LEMMA SenderInvariant == Spec => []SenderInv
<1>1. Init => SenderInv
  <2> SUFFICES ASSUME Init
               PROVE  SenderInv
    OBVIOUS
  <2>1. IdleRun.pc = "idle"
    BY DEF IdleRun
  <2>2. \A r \in Run : run[r].pc = "idle"
    BY <2>1 DEF Init
  <2> QED
    BY <2>2 DEF SenderInv, OneSenderPerFire, SentInLog, NotifiersNamed, Init
<1>2. TypeOK /\ SenderInv /\ [Next]_vars => SenderInv'
  BY SenderInvStep
<1> QED
  BY <1>1, <1>2, TypeCorrect, PTL DEF Spec

\* No fire is ever about to be notified by two runs, or for a second time.
THEOREM OneSender == Spec => []OneSenderPerFire
BY SenderInvariant, PTL DEF SenderInv

-----------------------------------------------------------------------------
(* The checker implements AlertPromise: a won claim is a Fire, a delivered *)
(* notification a Deliver, and nothing else touches what the user sees.    *)

\* A won claim is a Fire of the promise.
LEMMA ClaimIsFire ==
  ASSUME FireInv, NEW r \in Run, WinClaim(r)
  PROVE  Promise!Next
<1> DEFINE a == run[r].alert
           f == [at |-> run[r].now, data |-> run[r].value_ts, date |-> run[r].date]
<1>1. /\ a \in Alert /\ f \in FireRecord
      /\ fires' = [fires EXCEPT ![a] = Append(@, f)]
      /\ CooledDown(rows[a], f.at) /\ NewerData(rows[a], f.data)
      /\ sent' = sent
  BY WonClaim DEF FireInv
<1> HIDE DEF f
<1>2. FireRecord = Promise!FireRecord
  BY DEF FireRecord, Promise!FireRecord, Promise!Stamp
<1>3. \A i \in DOMAIN fires[a] :
         /\ fires[a][i].at + Cooldown <= f.at
         /\ fires[a][i].data # Null /\ f.data # Null => fires[a][i].data < f.data
  BY <1>1, GuardSpeaksForLog DEF FireInv
<1>4. Promise!Fire(a, f)
  BY <1>1, <1>3 DEF Promise!Fire
<1>5. fires'[a] # fires[a]
  <2>1. fires[a] \in Seq(FireRecord) /\ fires'[a] = Append(fires[a], f)
    BY <1>1 DEF FireInv, TypeOK
  <2>2. Len(Append(fires[a], f)) = Len(fires[a]) + 1 /\ Len(fires[a]) \in Nat
    BY <1>1, <2>1
  <2> QED
    BY <2>1, <2>2
<1> QED
  BY <1>1, <1>2, <1>4, <1>5 DEF Promise!Next

\* A notification is a Deliver of the promise, or nothing when it failed.
LEMMA NotifyIsDeliver ==
  ASSUME SenderInv, NEW r \in Run, NEW delivered \in BOOLEAN, Notify(r, delivered)
  PROVE  [Promise!Next]_Promise!vars
<1>1. /\ run[r].alert \in Alert
      /\ run[r].fire \in DOMAIN fires[run[r].alert] \ sent[run[r].alert]
  BY DEF Notify, Live, SenderInv, OneSenderPerFire
<1>2. CASE delivered
  BY <1>1, <1>2 DEF Notify, Promise!Deliver, Promise!Next
<1>3. CASE ~delivered
  BY <1>3 DEF Notify, Promise!vars
<1> QED
  BY <1>2, <1>3

\* Every behaviour of the checker is one the promise allows: at most one fire
\* per cooldown, none on data already fired on, each notified by one call at most.
THEOREM ImplementsPromise == Spec => KeepsPromise
<1>1. Init => Promise!Init
  BY DEF Init, Promise!Init
<1>2. FireInv /\ SenderInv /\ [Next]_vars => [Promise!Next]_Promise!vars
  <2> SUFFICES ASSUME FireInv, SenderInv, [Next]_vars
               PROVE  [Promise!Next]_Promise!vars
    OBVIOUS
  <2>1. CASE SendersKept
    BY <2>1 DEF SendersKept, Promise!vars
  <2>2. ASSUME NEW r \in Run, WinClaim(r)
        PROVE  Promise!Next
    BY <2>2, ClaimIsFire
  <2>3. ASSUME NEW r \in Run, NEW delivered \in BOOLEAN, Notify(r, delivered)
        PROVE  [Promise!Next]_Promise!vars
    BY <2>3, NotifyIsDeliver
  <2> QED
    BY <2>1, <2>2, <2>3, SendersChange DEF FireInv
<1> QED
  BY <1>1, <1>2, FireInvariant, SenderInvariant, PTL DEF Spec, KeepsPromise, Promise!Spec

\* A step that makes an alert fire finds it live and active, however stale the
\* SELECT its run started from.
THEOREM NeverFiresPaused == Spec => PausedNeverFires
<1>1. TypeOK /\ [Next]_vars =>
        [\A a \in Alert : fires'[a] # fires[a] => life[a] = "live" /\ rows[a].is_active]_vars
  <2> SUFFICES ASSUME TypeOK, [Next]_vars, NEW a \in Alert, fires'[a] # fires[a]
               PROVE  life[a] = "live" /\ rows[a].is_active
    OBVIOUS
  <2>1. PICK r \in Run : WinClaim(r)
    BY OnlyClaimsFire DEF LogKept
  <2>2. run[r].alert = a
    BY <2>1 DEF WinClaim, TypeOK
  <2> QED
    BY <2>1, <2>2 DEF WinClaim, Eligible, Live
<1> QED
  BY <1>1, TypeCorrect, PTL DEF Spec, PausedNeverFires
=============================================================================
