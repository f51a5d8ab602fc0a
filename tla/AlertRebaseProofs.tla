-------------------------- MODULE AlertRebaseProofs --------------------------
(***************************************************************************)
(* Proofs about AlertRebase for every set of alerts, workers, splits and   *)
(* levels, and every bound on days, edits and failures: type correctness,  *)
(* NeverTwice and UnfiredLevelsCurrent.                                    *)
(***************************************************************************)
EXTENDS AlertRebase, WellFoundedInduction, TLAPS

USE DEF OrNull

-----------------------------------------------------------------------------
(* Data.                                                                   *)

\* The least-number principle, for the splits still to be inserted.
LEMMA LeastSplit ==
  ASSUME NEW T \in SUBSET Split, T # {}
  PROVE  NextSplit(T) \in T /\ \A t \in T : NextSplit(T) <= t
<1> DEFINE Less == {p \in Nat \X Nat : p[1] < p[2]}
<1>1. OpToRel(<, Nat) = Less
  BY DEF OpToRel
<1>2. \A x, y \in Nat : <<x, y>> \in Less <=> x < y
  OBVIOUS
<1>3. T \subseteq Nat
  BY SplitAssumption
<1> HIDE DEF Less
<1>4. IsWellFoundedOn(Less, Nat)
  BY <1>1, NatLessThanWellFounded, Zenon
<1>5. PICK s \in T : \A t \in T : <<t, s>> \notin Less
  BY <1>3, <1>4, WFMin
<1>6. \A t \in T : ~(t < s)
  BY <1>2, <1>3, <1>5
<1>7. \A t \in T : s <= t
  BY <1>3, <1>6
<1> QED
  BY <1>7 DEF NextSplit

LEMMA Splits ==
  ASSUME NEW s \in Split
  PROVE  s \in Day /\ s \in Nat /\ s # Null
BY SplitAssumption, RebaseNullAssumption DEF Day

LEMMA TypedValue ==
  ASSUME NEW l \in Level
  PROVE  /\ Typed(l) \in Value
         /\ Typed(l).units = {s \in Split : s <= today}
         /\ \A s \in Split : Typed(l).applied[s] = 0
BY DEF Typed, Value

LEMMA RebasedValue ==
  ASSUME NEW v \in Value, NEW s \in Split
  PROVE  /\ Rebased(v, s) \in Value
         /\ Rebased(v, s).units = v.units
         /\ Rebased(v, s).applied[s] = v.applied[s] + 1
         /\ \A t \in Split \ {s} : Rebased(v, s).applied[t] = v.applied[t]
<1> DEFINE applied == [v.applied EXCEPT ![s] = @ + 1]
<1>1. /\ applied \in [Split -> Nat] /\ applied[s] = v.applied[s] + 1
      /\ \A t \in Split \ {s} : applied[t] = v.applied[t]
  BY DEF Value
<1>2. Rebased(v, s) = [v EXCEPT !.applied = applied]
  BY DEF Rebased
<1> HIDE DEF applied
<1>3. /\ Rebased(v, s) \in Value
      /\ Rebased(v, s).applied = applied /\ Rebased(v, s).units = v.units
  BY <1>1, <1>2 DEF Value
<1> QED
  BY <1>1, <1>3

-----------------------------------------------------------------------------
(* What each step of a transaction writes.                                 *)

Is(j, pc, todo, split, inserted, found, written, saved) ==
  /\ j.pc = pc /\ j.todo = todo /\ j.split = split /\ j.inserted = inserted
  /\ j.found = found /\ j.written = written /\ j.saved = saved

OnlyJob(w) ==
  /\ job' \in [Worker -> Job]
  /\ \A v \in Worker \ {w} : job'[v] = job[v]

LEMMA IdleTyped ==
  IdleJob \in Job /\ Is(IdleJob, "idle", {}, Null, {}, NoRows, NoRows, NoRows)
BY DEF IdleJob, Job, NoRows, Is

LEMMA Ends ==
  ASSUME TypeOK, NEW w \in Worker, Commit(w) \/ Abort(w)
  PROVE  OnlyJob(w) /\ Is(job'[w], "idle", {}, Null, {}, NoRows, NoRows, NoRows)
BY IdleTyped DEF TypeOK, Commit, Abort, OnlyJob

LEMMA Fetches ==
  ASSUME TypeOK, NEW w \in Worker, FetchSplits(w)
  PROVE  OnlyJob(w) /\ Is(job'[w], "rows", reported, Null, {}, NoRows, NoRows, NoRows)
<1>1. LET j == [IdleJob EXCEPT !.pc = "rows", !.todo = reported]
      IN j \in Job /\ Is(j, "rows", reported, Null, {}, NoRows, NoRows, NoRows)
  BY IdleTyped DEF TypeOK, Is, Job
<1> QED
  BY <1>1 DEF TypeOK, FetchSplits, OnlyJob

LEMMA Inserts ==
  ASSUME TypeOK, NEW w \in Worker, InsertSplit(w)
  PROVE  LET i == job[w]
             s == NextSplit(i.todo)
         IN /\ OnlyJob(w)
            /\ Is(job'[w], "select", i.todo \ {s}, s, i.inserted \cup {s}, i.found,
                  i.written, i.written)
            /\ s \in i.todo /\ s \in Split /\ \A t \in i.todo : s <= t
            /\ i.pc = "rows" /\ i.found = NoRows
            /\ \A v \in Worker \ {w} : s \notin job[v].inserted
<1> DEFINE i == job[w]
           s == NextSplit(i.todo)
           j == [i EXCEPT !.pc = "select", !.split = s, !.todo = @ \ {s},
                          !.inserted = @ \cup {s}, !.saved = i.written]
<1>1. i \in Job
  BY DEF TypeOK
<1>2. s \in i.todo /\ s \in Split /\ \A t \in i.todo : s <= t
  BY <1>1, LeastSplit DEF InsertSplit, Job
<1>3. job' = [job EXCEPT ![w] = j]
  BY DEF InsertSplit
<1> HIDE DEF s
<1>4. j \in Job
  BY <1>1, <1>2 DEF Job
<1>5. Is(j, "select", i.todo \ {s}, s, i.inserted \cup {s}, i.found, i.written, i.written)
  BY <1>1 DEF Job, Is
<1> HIDE DEF j
<1>6. OnlyJob(w) /\ job'[w] = j
  BY <1>3, <1>4 DEF OnlyJob, TypeOK
<1> QED
  BY <1>2, <1>5, <1>6 DEF InsertSplit, Between, s

LEMMA Selects ==
  ASSUME TypeOK, NEW w \in Worker, SelectAlerts(w)
  PROVE  LET i == job[w]
             f == [a \in Alert |-> IF a \in Found(w) THEN Seen(w, a).value ELSE Null]
         IN /\ OnlyJob(w)
            /\ Is(job'[w], "rows", i.todo, i.split, i.inserted, f, i.written, i.saved)
            /\ i.pc = "select"
<1> DEFINE i == job[w]
           f == [a \in Alert |-> IF a \in Found(w) THEN Seen(w, a).value ELSE Null]
           j == [i EXCEPT !.pc = "rows", !.found = f]
<1>1. i \in Job
  BY DEF TypeOK
<1>2. \A a \in Alert : Seen(w, a).value \in Value
  BY <1>1 DEF Seen, TypeOK, Job, Stamped, Row
<1>3. f \in [Alert -> Value \cup {Null}]
  BY <1>2
<1>4. job' = [job EXCEPT ![w] = j]
  BY DEF SelectAlerts
<1> HIDE DEF f
<1>5. j \in Job /\ Is(j, "rows", i.todo, i.split, i.inserted, f, i.written, i.saved)
  BY <1>1, <1>3 DEF Job, Is
<1> HIDE DEF j
<1>6. OnlyJob(w) /\ job'[w] = j
  BY <1>4, <1>5 DEF OnlyJob, TypeOK
<1> QED
  BY <1>5, <1>6 DEF SelectAlerts, f

\* The row an UPDATE leaves to its transaction.
NewRow(w, a) ==
  [value |-> Rebased(job[w].found[a], job[w].split), value_as_of |-> job[w].split]

LEMMA Updates ==
  ASSUME TypeOK, NEW w \in Worker, NEW a \in Alert, UpdateAlert(w, a), job[w].split # Null
  PROVE  LET i == job[w]
             f == [i.found EXCEPT ![a] = Null]
             g == [i.written EXCEPT ![a] = IF a \in Live THEN NewRow(w, a) ELSE @]
         IN /\ OnlyJob(w)
            /\ Is(job'[w], i.pc, i.todo, i.split, i.inserted, f, g, i.saved)
            /\ i.split \in Split /\ i.found[a] \in Value /\ i.found[a] # Null
<1> DEFINE i == job[w]
           f == [i.found EXCEPT ![a] = Null]
           g == [i.written EXCEPT ![a] = IF a \in Live THEN NewRow(w, a) ELSE @]
           j == [i EXCEPT !.found[a] = Null,
                          !.written[a] = IF a \in Live THEN NewRow(w, a) ELSE @]
<1>1. i \in Job
  BY DEF TypeOK
<1>2. i.split \in Split /\ i.found[a] \in Value /\ i.found[a] # Null
  BY <1>1 DEF Job, UpdateAlert
<1>3. NewRow(w, a) \in Stamped
  BY <1>2, RebasedValue, Splits DEF Stamped, NewRow
<1>4. job' = [job EXCEPT ![w] = j]
  BY DEF UpdateAlert, NewRow
<1>5. f \in [Alert -> Value \cup {Null}]
  BY <1>1 DEF Job
<1>6. g \in [Alert -> Stamped \cup {Null}]
  BY <1>1, <1>3 DEF Job
<1>7. j \in Job /\ Is(j, i.pc, i.todo, i.split, i.inserted, f, g, i.saved)
  <2>1. j = [i EXCEPT !.found = f, !.written = g]
    BY <1>1 DEF Job
  <2> HIDE DEF f, g, j
  <2> QED
    BY <1>1, <1>5, <1>6, <2>1 DEF Job, Is
<1> HIDE DEF j
<1>8. OnlyJob(w) /\ job'[w] = j
  BY <1>4, <1>7 DEF OnlyJob, TypeOK
<1> QED
  BY <1>2, <1>7, <1>8

LEMMA Skips ==
  ASSUME TypeOK, NEW w \in Worker, SkipRebase(w)
  PROVE  LET i == job[w]
         IN /\ OnlyJob(w)
            /\ Is(job'[w], "rows", i.todo, i.split, i.inserted, NoRows, i.saved, i.saved)
<1> DEFINE i == job[w]
           j == [i EXCEPT !.pc = "rows", !.found = NoRows, !.written = i.saved]
<1>1. i \in Job
  BY DEF TypeOK
<1>2. j \in Job /\ Is(j, "rows", i.todo, i.split, i.inserted, NoRows, i.saved, i.saved)
  BY <1>1 DEF Job, NoRows, Is
<1> HIDE DEF j
<1> QED
  BY <1>2 DEF SkipRebase, OnlyJob, TypeOK, j

\* What a commit makes of the rows.
LEMMA Commits ==
  ASSUME TypeOK, NEW w \in Worker, Commit(w)
  PROVE  /\ rows' \in [Alert -> Row]
         /\ \A a \in Alert :
              LET x == job[w].written[a]
              IN /\ x = Null => rows'[a] = rows[a]
                 /\ x # Null => /\ rows'[a].value = x.value
                                /\ rows'[a].value_as_of = x.value_as_of
                                /\ rows'[a].status = rows[a].status
<1>1. \A a \in Alert : rows[a] \in Row /\ job[w].written[a] \in Stamped \cup {Null}
  BY DEF TypeOK, Job
<1>2. rows' = [a \in Alert |->
        IF job[w].written[a] = Null THEN rows[a]
        ELSE [rows[a] EXCEPT !.value = job[w].written[a].value,
                             !.value_as_of = job[w].written[a].value_as_of]]
  BY DEF Commit
<1>3. ASSUME NEW a \in Alert
      PROVE  LET x == job[w].written[a]
             IN /\ rows'[a] \in Row
                /\ x = Null => rows'[a] = rows[a]
                /\ x # Null => /\ rows'[a].value = x.value
                               /\ rows'[a].value_as_of = x.value_as_of
                               /\ rows'[a].status = rows[a].status
  <2> DEFINE x == job[w].written[a]
  <2>1. CASE x = Null
    BY <1>1, <1>2, <2>1
  <2>2. CASE x # Null
    <3>1. x.value \in Value /\ x.value_as_of \in Day
      BY <1>1, <2>2 DEF Stamped
    <3>2. rows'[a] = [rows[a] EXCEPT !.value = x.value, !.value_as_of = x.value_as_of]
      BY <1>2, <2>2
    <3> HIDE DEF x
    <3>3. /\ rows'[a] \in Row /\ rows'[a].status = rows[a].status
          /\ rows'[a].value = x.value /\ rows'[a].value_as_of = x.value_as_of
      BY <1>1, <3>1, <3>2 DEF Row
    <3> QED
      BY <2>2, <3>3 DEF x
  <2> QED
    BY <2>1, <2>2
<1> QED
  BY <1>2, <1>3

-----------------------------------------------------------------------------
(* What the users' requests and the checker write.                         *)

OnlyRow(a) ==
  /\ rows' \in [Alert -> Row]
  /\ \A b \in Alert \ {a} : rows'[b] = rows[b]

LEMMA Creates ==
  ASSUME TypeOK, NEW a \in Alert, NEW l \in Level, create_alert(a, l)
  PROVE  /\ OnlyRow(a) /\ life' = [life EXCEPT ![a] = "live"] /\ life[a] = "unused"
         /\ rows'[a].value = Typed(l) /\ rows'[a].value_as_of = today
<1>1. [value |-> Typed(l), value_as_of |-> today, status |-> "ACTIVE"] \in Row
  BY TypedValue DEF TypeOK, Row
<1> QED
  BY <1>1 DEF create_alert, OnlyRow, TypeOK

LEMMA Loads ==
  ASSUME TypeOK, NEW a \in Alert, NEW l \in Level, PutLoad(a, l)
  PROVE  \E p \in PutState :
           /\ put' = [put EXCEPT ![a] = p]
           /\ p.as_of = today /\ \A s \in Split : p.new.applied[s] = 0
<1> DEFINE p == [new |-> Typed(l), as_of |-> today,
                 loaded |-> [value |-> rows[a].value, value_as_of |-> rows[a].value_as_of]]
<1>1. p \in PutState
  BY TypedValue DEF TypeOK, Row, PutState, Stamped
<1>2. p.as_of = today /\ p.new = Typed(l)
  OBVIOUS
<1>3. put' = [put EXCEPT ![a] = p]
  BY DEF PutLoad
<1> HIDE DEF p
<1> QED
  BY <1>1, <1>2, <1>3, TypedValue

\* The flush keeps or replaces the value, and keeps the stamp or sets the PUT's.
LEMMA Flushes ==
  ASSUME TypeOK, NEW a \in Alert, PutFlush(a)
  PROVE  /\ OnlyRow(a) /\ put' = [put EXCEPT ![a] = Null]
         /\ put[a] # Null /\ put[a] \in PutState
         /\ rows'[a].status = rows[a].status
         /\ rows'[a].value \in {rows[a].value, put[a].new}
         /\ rows'[a].value_as_of \in {rows[a].value_as_of, put[a].as_of}
<1> DEFINE p == put[a]
           kept == IsNumber(p.loaded.value, p.new.level) /\ ~IsNumber(rows[a].value, p.new.level)
           v == IF kept THEN rows[a].value ELSE p.new
           d == IF p.loaded.value_as_of = p.as_of THEN rows[a].value_as_of ELSE p.as_of
<1>1. p # Null /\ p \in PutState /\ rows[a] \in Row
  BY DEF PutFlush, TypeOK
<1>2. v \in Value /\ d \in Day
  BY <1>1 DEF PutState, Row
<1>3. CASE a \in Live
  <2>1. rows' = [rows EXCEPT ![a].value = v, ![a].value_as_of = d]
    BY <1>3 DEF PutFlush
  <2>2. v \in {rows[a].value, put[a].new} /\ d \in {rows[a].value_as_of, put[a].as_of}
    OBVIOUS
  <2> HIDE DEF v, d
  <2>3. rows' = [rows EXCEPT ![a] = [rows[a] EXCEPT !.value = v, !.value_as_of = d]]
    BY <2>1 DEF TypeOK
  <2> DEFINE row == [rows[a] EXCEPT !.value = v, !.value_as_of = d]
  <2>4. /\ row \in Row /\ row.status = rows[a].status
        /\ row.value = v /\ row.value_as_of = d
    BY <1>1, <1>2 DEF Row
  <2>5. rows' = [rows EXCEPT ![a] = row]
    BY <2>3
  <2> HIDE DEF row
  <2>6. OnlyRow(a) /\ rows'[a] = row
    BY <2>4, <2>5 DEF OnlyRow, TypeOK
  <2> QED
    BY <1>1, <2>2, <2>4, <2>6 DEF PutFlush
<1>4. CASE a \notin Live
  BY <1>1, <1>4 DEF PutFlush, OnlyRow, TypeOK
<1> QED
  BY <1>3, <1>4

LEMMA Fires ==
  ASSUME TypeOK, NEW a \in Alert, claim_alert(a)
  PROVE  /\ OnlyRow(a) /\ rows'[a].status = "TRIGGERED"
         /\ rows'[a].value = rows[a].value /\ rows'[a].value_as_of = rows[a].value_as_of
<1> DEFINE row == [rows[a] EXCEPT !.status = "TRIGGERED"]
<1>1. /\ row \in Row /\ row.status = "TRIGGERED"
      /\ row.value = rows[a].value /\ row.value_as_of = rows[a].value_as_of
  BY DEF TypeOK, Row
<1>2. rows' = [rows EXCEPT ![a] = row]
  BY DEF claim_alert
<1> HIDE DEF row
<1> QED
  BY <1>1, <1>2 DEF OnlyRow, TypeOK

-----------------------------------------------------------------------------
(* Type correctness: inductive once it is known that a transaction with    *)
(* rows to select or to write has a split in hand.                         *)

InHand(w) ==
  job[w].pc = "select" \/ (\E a \in Alert : job[w].found[a] # Null) => job[w].split # Null
TypeInv == TypeOK /\ \A w \in Worker : InHand(w)

LEMMA InitTyped == Init => TypeInv
<1> SUFFICES ASSUME Init
             PROVE  TypeInv
  OBVIOUS
<1> DEFINE v == [Typed(CHOOSE l \in Level : TRUE) EXCEPT !.units = {}]
<1>1. v \in Value
  BY LevelAssumption, TypedValue DEF Value
<1>2. today \in Day /\ edits \in 0 .. MaxEdits /\ failures \in 0 .. MaxFailures
  BY SplitAssumption, BoundAssumption DEF Init, Day
<1>3. rows = [a \in Alert |-> [value |-> v, value_as_of |-> 0, status |-> "ACTIVE"]]
  BY DEF Init
<1> HIDE DEF v
<1>4. [value |-> v, value_as_of |-> 0, status |-> "ACTIVE"] \in Row
  BY <1>1, <1>2 DEF Row, Init
<1>5. rows \in [Alert -> Row]
  BY <1>3, <1>4
<1>6. TypeOK
  BY <1>2, <1>5, IdleTyped DEF Init, TypeOK
<1>7. \A w \in Worker : InHand(w)
  BY IdleTyped DEF Init, InHand, Is, NoRows
<1> QED
  BY <1>6, <1>7 DEF TypeInv

\* One step of one transaction.
LEMMA JobStepTyped ==
  ASSUME TypeInv, NEW w \in Worker, JobStep(w) \/ SkipRebase(w) \/ Abort(w)
  PROVE  OnlyJob(w) /\ InHand(w)'
<1> USE DEF TypeInv
<1>1. CASE FetchSplits(w)
  BY <1>1, Fetches DEF InHand, Is, NoRows
<1>2. CASE InsertSplit(w)
  BY <1>2, Inserts, Splits DEF InHand, Is
<1>3. CASE SelectAlerts(w)
  BY <1>3, Selects DEF InHand, Is
<1>4. ASSUME NEW a \in Alert, UpdateAlert(w, a)
      PROVE  OnlyJob(w) /\ InHand(w)'
  <2>1. job[w].split # Null
    BY <1>4 DEF InHand, UpdateAlert
  <2> QED
    BY <1>4, <2>1, Updates DEF InHand, Is
<1>5. CASE Commit(w) \/ Abort(w)
  BY <1>5, Ends DEF InHand, Is, NoRows
<1>6. CASE SkipRebase(w)
  BY <1>6, Skips DEF InHand, Is, NoRows
<1> QED
  BY <1>1, <1>2, <1>3, <1>4, <1>5, <1>6 DEF JobStep

LEMMA NextTyped == TypeInv /\ [Next]_vars => TypeInv'
<1> SUFFICES ASSUME TypeInv, [Next]_vars
             PROVE  TypeInv'
  OBVIOUS
<1>0. TypeOK
  BY DEF TypeInv
<1> USE DEF TypeInv
<1>1. CASE NextDay
  BY <1>1, SplitAssumption DEF NextDay, TypeOK, InHand, Day, users
<1>2. ASSUME NEW s \in Split, Report(s)
      PROVE  TypeInv'
  BY <1>2 DEF Report, TypeOK, InHand, users
<1>3. ASSUME NEW a \in Alert, NEW l \in Level, create_alert(a, l)
      PROVE  TypeInv'
  BY <1>0, <1>3, Creates DEF create_alert, OnlyRow, TypeOK, InHand
<1>4. ASSUME NEW a \in Alert, NEW l \in Level, PutLoad(a, l)
      PROVE  TypeInv'
  <2>1. put' \in [Alert -> PutState \cup {Null}]
    BY <1>0, <1>4, Loads DEF TypeOK
  <2>2. edits' \in 0 .. MaxEdits
    BY <1>4, BoundAssumption DEF PutLoad, TypeOK
  <2> QED
    BY <1>4, <2>1, <2>2 DEF PutLoad, TypeOK, InHand
<1>5. ASSUME NEW a \in Alert, PutFlush(a)
      PROVE  TypeInv'
  BY <1>0, <1>5, Flushes DEF PutFlush, OnlyRow, TypeOK, InHand
<1>6. ASSUME NEW a \in Alert, delete_alert(a)
      PROVE  TypeInv'
  BY <1>6 DEF delete_alert, TypeOK, InHand
<1>7. ASSUME NEW a \in Alert, claim_alert(a)
      PROVE  TypeInv'
  BY <1>0, <1>7, Fires DEF claim_alert, OnlyRow, TypeOK, InHand, users
<1>8. ASSUME NEW w \in Worker, JobStep(w) \/ SkipRebase(w) \/ Abort(w)
      PROVE  TypeInv'
  <2>1. OnlyJob(w) /\ InHand(w)'
    BY <1>8, JobStepTyped
  <2>2. \A v \in Worker : InHand(v)'
    BY <2>1 DEF OnlyJob, InHand
  <2>3. job' \in [Worker -> Job]
    BY <2>1 DEF OnlyJob
  <2>4. failures' \in 0 .. MaxFailures
    <3>1. failures' = failures \/ Fail
      BY <1>8 DEF JobStep, FetchSplits, InsertSplit, SelectAlerts, UpdateAlert, Commit,
         SkipRebase, Abort
    <3> QED
      BY <3>1, BoundAssumption DEF Fail, TypeOK
  <2>5. UNCHANGED <<today, reported, users>>
    BY <1>8 DEF JobStep, FetchSplits, InsertSplit, SelectAlerts, UpdateAlert, Commit,
       SkipRebase, Abort
  <2>6. CASE Commit(w)
    <3>1. rows' \in [Alert -> Row]
      BY <1>0, <2>6, Commits
    <3>2. actions' \in SUBSET Split
      BY <2>6 DEF Commit, TypeOK, Job
    <3> QED
      BY <2>2, <2>3, <2>4, <2>5, <3>1, <3>2 DEF TypeOK, users
  <2>7. CASE ~Commit(w)
    <3>1. UNCHANGED <<actions, rows>>
      BY <1>8, <2>7 DEF JobStep, FetchSplits, InsertSplit, SelectAlerts, UpdateAlert,
         SkipRebase, Abort
    <3> QED
      BY <2>2, <2>3, <2>4, <2>5, <3>1 DEF TypeOK, users
  <2> QED
    BY <2>6, <2>7
<1>9. CASE UNCHANGED vars
  BY <1>9 DEF vars, TypeOK, InHand, users
<1> QED
  BY <1>1, <1>2, <1>3, <1>4, <1>5, <1>6, <1>7, <1>8, <1>9 DEF Next, Users

LEMMA AlwaysTyped == Spec => []TypeInv
BY InitTyped, NextTyped, PTL DEF Spec

\* Every reachable state is well typed (the type invariant of AlertRebase).
THEOREM RebaseTyped == Spec => []TypeOK
<1>1. TypeInv => TypeOK
  BY DEF TypeInv
<1> QED
  BY <1>1, AlwaysTyped, PTL

-----------------------------------------------------------------------------
(* NeverTwice.  It is value_as_of that makes it inductive: a split is in a *)
(* value only from its own date on, so the SELECT, which takes values      *)
(* older than the split, finds none that holds it; and what a transaction  *)
(* carries from there to its commit holds no split that is neither on      *)
(* record nor among its own inserts.                                       *)

\* No split is in the value twice, before its date, or without a record.
Sound(v, as_of, record) ==
  \A s \in Split : /\ v.applied[s] <= 1
                   /\ v.applied[s] > 0 => s <= as_of /\ s \in record

RowSound(a) ==
  /\ rows[a].value_as_of <= today
  /\ Sound(rows[a].value, rows[a].value_as_of, actions)
PutSound(a) ==
  put[a] # Null => put[a].as_of = today /\ \A s \in Split : put[a].new.applied[s] = 0

\* A row a transaction wrote, and a value it read to rebase it.
WrittenSound(w, x) ==
  x # Null => /\ x.value_as_of \in job[w].inserted
              /\ Sound(x.value, x.value_as_of, actions \cup job[w].inserted)
FoundSound(w, v) ==
  v # Null => Sound(v, job[w].split - 1, actions \cup job[w].inserted)

JobSound(w) ==
  /\ job[w].todo \subseteq reported /\ job[w].inserted \subseteq reported
  /\ job[w].split # Null => job[w].split \in job[w].inserted
  /\ \A a \in Alert : /\ WrittenSound(w, job[w].written[a])
                      /\ WrittenSound(w, job[w].saved[a])
                      /\ FoundSound(w, job[w].found[a])

OnceInv ==
  /\ \A s \in reported : s <= today
  /\ actions \subseteq reported
  /\ \A a \in Alert : RowSound(a) /\ PutSound(a)
  /\ \A w \in Worker : JobSound(w)

LEMMA SoundGrows ==
  ASSUME NEW v \in Value, NEW d \in Int, NEW e \in Int, d <= e,
         NEW R, NEW S, R \subseteq S, Sound(v, d, R)
  PROVE  Sound(v, e, S)
BY Splits DEF Sound

LEMMA SoundFresh ==
  ASSUME NEW v \in Value, \A s \in Split : v.applied[s] = 0, NEW d, NEW R
  PROVE  Sound(v, d, R)
BY DEF Sound

\* Multiplying a split into a value older than it.
LEMMA SoundRebased ==
  ASSUME NEW v \in Value, NEW s \in Split, NEW R, s \in R, Sound(v, s - 1, R)
  PROVE  Sound(Rebased(v, s), s, R)
<1>1. ASSUME NEW t \in Split
      PROVE  /\ Rebased(v, s).applied[t] <= 1
             /\ Rebased(v, s).applied[t] > 0 => t <= s /\ t \in R
  <2>1. v.applied[t] \in Nat /\ v.applied[t] <= 1
    BY DEF Sound, Value
  <2>2. v.applied[t] > 0 => t <= s - 1 /\ t \in R
    BY DEF Sound
  <2>3. CASE t = s
    <3>1. v.applied[s] = 0
      BY <2>1, <2>2, <2>3, Splits
    <3> QED
      BY <2>3, <3>1, Splits, RebasedValue
  <2>4. CASE t # s
    BY <2>1, <2>2, <2>4, Splits, RebasedValue
  <2> QED
    BY <2>3, <2>4
<1> QED
  BY <1>1 DEF Sound

LEMMA InitOnce == Init => OnceInv
<1> SUFFICES ASSUME Init
             PROVE  OnceInv
  OBVIOUS
<1>1. TypeInv
  BY InitTyped
<1>2. \A a \in Alert : RowSound(a)
  <2> DEFINE v == [Typed(CHOOSE l \in Level : TRUE) EXCEPT !.units = {}]
  <2>1. v \in Value /\ \A s \in Split : v.applied[s] = 0
    BY LevelAssumption, TypedValue DEF Value
  <2>2. rows = [a \in Alert |-> [value |-> v, value_as_of |-> 0, status |-> "ACTIVE"]]
    BY DEF Init
  <2> HIDE DEF v
  <2>3. \A a \in Alert : rows[a].value = v /\ rows[a].value_as_of = 0
    BY <2>2
  <2>4. Sound(v, 0, actions)
    BY <2>1, SoundFresh
  <2> QED
    BY <2>3, <2>4 DEF Init, RowSound
<1>3. \A w \in Worker : JobSound(w)
  BY IdleTyped DEF Init, JobSound, Is, NoRows, WrittenSound, FoundSound
<1> QED
  BY <1>2, <1>3 DEF Init, OnceInv, PutSound

\* A step that leaves the transactions and the record alone.
LEMMA JobsKeepSound ==
  ASSUME OnceInv, UNCHANGED <<job, actions>>, reported \subseteq reported'
  PROVE  \A w \in Worker : JobSound(w)'
BY DEF OnceInv, JobSound, WrittenSound, FoundSound

\* What a user's request may leave behind.
LEMMA UsersSound ==
  ASSUME TypeInv, OnceInv, NEW a \in Alert, UNCHANGED <<job, actions, reported, today>>,
         OnlyRow(a), RowSound(a)', \A b \in Alert : PutSound(b)'
  PROVE  OnceInv'
<1>1. \A b \in Alert \ {a} : RowSound(b)'
  BY DEF OnceInv, RowSound, OnlyRow
<1> QED
  BY <1>1, JobsKeepSound DEF OnceInv

\* One step of one transaction, the commit apart.
LEMMA JobStepSound ==
  ASSUME TypeInv, OnceInv, NEW w \in Worker, JobStep(w) \/ SkipRebase(w) \/ Abort(w)
  PROVE  actions \subseteq actions' /\ JobSound(w)'
<1>0. TypeOK /\ job[w] \in Job /\ JobSound(w) /\ actions \subseteq reported
  BY DEF TypeInv, TypeOK, OnceInv
<1>1. CASE FetchSplits(w)
  <2>1. UNCHANGED <<actions, reported>>
    BY <1>1 DEF FetchSplits
  <2>2. Is(job'[w], "rows", reported, Null, {}, NoRows, NoRows, NoRows)
    BY <1>0, <1>1, Fetches
  <2> QED
    BY <2>1, <2>2 DEF JobSound, Is, NoRows, WrittenSound, FoundSound
<1>2. CASE InsertSplit(w)
  <2> DEFINE i == job[w]
             s == NextSplit(i.todo)
  <2>1. UNCHANGED <<actions, reported>>
    BY <1>2 DEF InsertSplit
  <2>2. /\ Is(job'[w], "select", i.todo \ {s}, s, i.inserted \cup {s}, i.found, i.written,
              i.written)
        /\ s \in i.todo /\ i.found = NoRows
    BY <1>0, <1>2, Inserts
  <2> HIDE DEF s
  <2>3. ASSUME NEW a \in Alert, i.written[a] # Null
        PROVE  /\ i.written[a].value_as_of \in job'[w].inserted
               /\ Sound(i.written[a].value, i.written[a].value_as_of,
                        actions' \cup job'[w].inserted)
    <3>1. i.written[a] \in Stamped
      BY <1>0, <2>3 DEF Job
    <3>2. /\ i.written[a].value_as_of \in i.inserted
          /\ Sound(i.written[a].value, i.written[a].value_as_of, actions \cup i.inserted)
      BY <1>0, <2>3 DEF JobSound, WrittenSound
    <3>3. i.inserted \subseteq job'[w].inserted /\ actions' = actions
      BY <2>1, <2>2 DEF Is
    <3> QED
      BY <3>1, <3>2, <3>3 DEF Sound
  <2> QED
    BY <1>0, <2>1, <2>2, <2>3 DEF JobSound, Is, NoRows, WrittenSound, FoundSound
<1>3. CASE SelectAlerts(w)
  <2> DEFINE i == job[w]
             f == [a \in Alert |-> IF a \in Found(w) THEN Seen(w, a).value ELSE Null]
             record == actions \cup i.inserted
  <2>1. UNCHANGED <<actions, reported>>
    BY <1>3 DEF SelectAlerts
  <2>2. Is(job'[w], "rows", i.todo, i.split, i.inserted, f, i.written, i.saved)
    BY <1>0, <1>3, Selects
  <2>3. i.split \in Split
    BY <1>0, <1>3 DEF Job, TypeInv, InHand, SelectAlerts
  <2>4. ASSUME NEW a \in Alert, a \in Found(w)
        PROVE  Sound(Seen(w, a).value, i.split - 1, record)
    <3> DEFINE x == Seen(w, a)
    <3>1. x.value \in Value /\ x.value_as_of \in Day /\ x.value_as_of < i.split
      BY <1>0, <2>4 DEF Found, Older, Seen, TypeOK, Job, Stamped, Row
    <3>2. Sound(x.value, x.value_as_of, record)
      <4>1. CASE i.written[a] # Null
        BY <1>0, <4>1 DEF JobSound, WrittenSound, Seen
      <4>2. CASE i.written[a] = Null
        BY <1>0, <4>2 DEF OnceInv, RowSound, Seen, Sound
      <4> QED
        BY <4>1, <4>2
    <3> HIDE DEF x, record
    <3>3. x.value_as_of \in Int /\ i.split - 1 \in Int /\ x.value_as_of <= i.split - 1
      BY <2>3, <3>1, Splits, SplitAssumption DEF Day
    <3>4. Sound(x.value, i.split - 1, record)
      BY <3>1, <3>2, <3>3, SoundGrows
    <3> QED
      BY <3>4 DEF x
  <2>5. \A a \in Alert : f[a] # Null => Sound(f[a], i.split - 1, record)
    BY <2>4
  <2> HIDE DEF f
  <2> QED
    BY <1>0, <2>1, <2>2, <2>5 DEF JobSound, Is, WrittenSound, FoundSound
<1>4. ASSUME NEW a \in Alert, UpdateAlert(w, a)
      PROVE  actions \subseteq actions' /\ JobSound(w)'
  <2> DEFINE i == job[w]
             f == [i.found EXCEPT ![a] = Null]
             g == [i.written EXCEPT ![a] = IF a \in Live THEN NewRow(w, a) ELSE @]
             record == actions \cup i.inserted
  <2>1. UNCHANGED <<actions, reported>>
    BY <1>4 DEF UpdateAlert
  <2>2. i.split # Null
    BY <1>4 DEF TypeInv, InHand, UpdateAlert
  <2>3. /\ Is(job'[w], i.pc, i.todo, i.split, i.inserted, f, g, i.saved)
        /\ i.split \in Split /\ i.found[a] \in Value /\ i.found[a] # Null
    BY <1>0, <1>4, <2>2, Updates
  <2>4. i.split \in i.inserted /\ Sound(i.found[a], i.split - 1, record)
    BY <1>0, <2>2, <2>3 DEF JobSound, FoundSound
  <2>5. Sound(NewRow(w, a).value, NewRow(w, a).value_as_of, record)
    <3>1. Sound(Rebased(i.found[a], i.split), i.split, record)
      BY <2>3, <2>4, SoundRebased
    <3> QED
      BY <3>1 DEF NewRow
  <2>6. NewRow(w, a).value_as_of = i.split
    BY DEF NewRow
  <2>7. \A b \in Alert : f[b] # Null => Sound(f[b], i.split - 1, record)
    BY <1>0 DEF JobSound, FoundSound, Job
  <2>8. \A b \in Alert :
          g[b] # Null => g[b].value_as_of \in i.inserted
                         /\ Sound(g[b].value, g[b].value_as_of, record)
    <3>1. \A b \in Alert : g[b] = i.written[b] \/ g[b] = NewRow(w, a)
      BY <1>0 DEF Job
    <3>2. \A b \in Alert :
            i.written[b] # Null =>
              /\ i.written[b].value_as_of \in i.inserted
              /\ Sound(i.written[b].value, i.written[b].value_as_of, record)
      BY <1>0 DEF JobSound, WrittenSound
    <3> HIDE DEF g, record
    <3> QED
      BY <2>4, <2>5, <2>6, <3>1, <3>2
  <2> HIDE DEF f, g
  <2> QED
    BY <1>0, <2>1, <2>3, <2>7, <2>8 DEF JobSound, Is, WrittenSound, FoundSound
<1>5. CASE Commit(w) \/ Abort(w)
  <2>1. actions \subseteq actions'
    BY <1>5 DEF Commit, Abort
  <2>2. Is(job'[w], "idle", {}, Null, {}, NoRows, NoRows, NoRows)
    BY <1>0, <1>5, Ends
  <2> QED
    BY <2>1, <2>2 DEF JobSound, Is, NoRows, WrittenSound, FoundSound
<1>6. CASE SkipRebase(w)
  <2>1. UNCHANGED <<actions, reported>>
    BY <1>6 DEF SkipRebase
  <2>2. Is(job'[w], "rows", job[w].todo, job[w].split, job[w].inserted, NoRows, job[w].saved,
           job[w].saved)
    BY <1>0, <1>6, Skips
  <2> QED
    BY <1>0, <2>1, <2>2 DEF JobSound, Is, NoRows, WrittenSound, FoundSound
<1> QED
  BY <1>1, <1>2, <1>3, <1>4, <1>5, <1>6 DEF JobStep

LEMMA NextOnce == TypeInv /\ OnceInv /\ [Next]_vars => OnceInv'
<1> SUFFICES ASSUME TypeInv, OnceInv, [Next]_vars
             PROVE  OnceInv'
  OBVIOUS
<1>0. TypeOK /\ \A a \in Alert : rows[a] \in Row /\ RowSound(a) /\ PutSound(a)
  BY DEF TypeInv, TypeOK, OnceInv
<1>1. CASE NextDay
  <2>1. \A a \in Alert : rows[a].value_as_of \in Day /\ today \in Day
    BY <1>0 DEF TypeOK, Row
  <2>2. \A a \in Alert : RowSound(a)'
    BY <1>0, <1>1, <2>1, SplitAssumption DEF NextDay, RowSound, Day
  <2>3. \A a \in Alert : PutSound(a)'
    BY <1>1 DEF NextDay, PutSound, users
  <2>4. \A s \in reported : s <= today'
    BY <1>0, <1>1, <2>1, Splits DEF NextDay, OnceInv, TypeOK, Day
  <2> QED
    BY <1>1, <2>2, <2>3, <2>4, JobsKeepSound DEF NextDay, OnceInv
<1>2. ASSUME NEW s \in Split, Report(s)
      PROVE  OnceInv'
  BY <1>2, JobsKeepSound DEF Report, OnceInv, RowSound, PutSound, users
<1>3. ASSUME NEW a \in Alert, NEW l \in Level, create_alert(a, l)
      PROVE  OnceInv'
  <2>1. /\ OnlyRow(a) /\ rows'[a].value = Typed(l) /\ rows'[a].value_as_of = today
    BY <1>0, <1>3, Creates
  <2>2. UNCHANGED <<job, actions, reported, today, put>>
    BY <1>3 DEF create_alert
  <2>3. RowSound(a)'
    BY <1>0, <2>1, <2>2, TypedValue, SoundFresh DEF RowSound, TypeOK, Day
  <2>4. \A b \in Alert : PutSound(b)'
    BY <1>0, <2>2 DEF PutSound
  <2> QED
    BY <2>1, <2>2, <2>3, <2>4, UsersSound
<1>4. ASSUME NEW a \in Alert, NEW l \in Level, PutLoad(a, l)
      PROVE  OnceInv'
  <2>1. PICK p \in PutState : /\ put' = [put EXCEPT ![a] = p] /\ p.as_of = today
                              /\ \A s \in Split : p.new.applied[s] = 0
    BY <1>0, <1>4, Loads
  <2>2. UNCHANGED <<job, actions, reported, today, rows>>
    BY <1>4 DEF PutLoad
  <2>3. \A b \in Alert : PutSound(b)'
    BY <1>0, <2>1, <2>2 DEF PutSound, TypeOK
  <2>4. RowSound(a)' /\ OnlyRow(a)
    BY <1>0, <2>2 DEF RowSound, OnlyRow, TypeOK
  <2> QED
    BY <2>2, <2>3, <2>4, UsersSound
<1>5. ASSUME NEW a \in Alert, PutFlush(a)
      PROVE  OnceInv'
  <2>1. /\ OnlyRow(a) /\ put' = [put EXCEPT ![a] = Null]
        /\ put[a] # Null /\ put[a] \in PutState
        /\ rows'[a].value \in {rows[a].value, put[a].new}
        /\ rows'[a].value_as_of \in {rows[a].value_as_of, put[a].as_of}
    BY <1>0, <1>5, Flushes
  <2>2. UNCHANGED <<job, actions, reported, today>>
    BY <1>5 DEF PutFlush
  <2>3. \A b \in Alert : PutSound(b)'
    BY <1>0, <2>1, <2>2 DEF PutSound, TypeOK
  <2>4. RowSound(a)'
    <3>1. /\ rows[a].value \in Value /\ rows[a].value_as_of \in Day /\ today \in Day
          /\ put[a].new \in Value /\ put[a].as_of = today
          /\ \A s \in Split : put[a].new.applied[s] = 0
      BY <1>0, <2>1 DEF Row, PutState, PutSound, TypeOK
    <3>2. rows'[a].value_as_of \in Int /\ rows'[a].value_as_of <= today
          /\ rows[a].value_as_of <= rows'[a].value_as_of
      BY <1>0, <2>1, <3>1, SplitAssumption DEF RowSound, Day
    <3>3. Sound(rows[a].value, rows'[a].value_as_of, actions)
      BY <1>0, <3>1, <3>2, SoundGrows, SplitAssumption DEF RowSound, Day
    <3>4. Sound(put[a].new, rows'[a].value_as_of, actions)
      BY <3>1, SoundFresh
    <3> QED
      BY <2>1, <2>2, <3>2, <3>3, <3>4 DEF RowSound
  <2> QED
    BY <2>1, <2>2, <2>3, <2>4, UsersSound
<1>6. ASSUME NEW a \in Alert, delete_alert(a)
      PROVE  OnceInv'
  BY <1>6, JobsKeepSound DEF delete_alert, OnceInv, RowSound, PutSound
<1>7. ASSUME NEW a \in Alert, claim_alert(a)
      PROVE  OnceInv'
  <2>1. /\ OnlyRow(a) /\ rows'[a].value = rows[a].value
        /\ rows'[a].value_as_of = rows[a].value_as_of
    BY <1>0, <1>7, Fires
  <2>2. UNCHANGED <<job, actions, reported, today, put>>
    BY <1>7 DEF claim_alert, users
  <2>3. RowSound(a)' /\ \A b \in Alert : PutSound(b)'
    BY <1>0, <2>1, <2>2 DEF RowSound, PutSound
  <2> QED
    BY <2>1, <2>2, <2>3, UsersSound
<1>8. ASSUME NEW w \in Worker, JobStep(w) \/ SkipRebase(w) \/ Abort(w)
      PROVE  OnceInv'
  <2>1. actions \subseteq actions' /\ JobSound(w)' /\ OnlyJob(w)
    BY <1>8, JobStepSound, JobStepTyped
  <2>2. UNCHANGED <<today, reported, users>>
    BY <1>8 DEF JobStep, FetchSplits, InsertSplit, SelectAlerts, UpdateAlert, Commit,
       SkipRebase, Abort
  <2>3. \A v \in Worker \ {w} : JobSound(v)'
    <3> SUFFICES ASSUME NEW v \in Worker \ {w}
                 PROVE  JobSound(v)'
      OBVIOUS
    <3>1. JobSound(v) /\ job'[v] = job[v]
      BY <2>1 DEF OnceInv, OnlyJob
    <3>2. ASSUME NEW a \in Alert
          PROVE  WrittenSound(v, job[v].written[a])' /\ WrittenSound(v, job[v].saved[a])'
                 /\ FoundSound(v, job[v].found[a])'
      BY <2>1, <3>1 DEF JobSound, WrittenSound, FoundSound, Sound
    <3> QED
      BY <2>2, <3>1, <3>2 DEF JobSound
  <2>4. actions' \subseteq reported'
    <3>1. CASE Commit(w)
      BY <2>2, <3>1 DEF Commit, OnceInv, JobSound
    <3>2. CASE ~Commit(w)
      BY <1>8, <2>2, <3>2 DEF JobStep, FetchSplits, InsertSplit, SelectAlerts, UpdateAlert,
         SkipRebase, Abort, OnceInv
    <3> QED
      BY <3>1, <3>2
  <2>5. \A a \in Alert : RowSound(a)'
    <3>1. CASE Commit(w)
      <4> SUFFICES ASSUME NEW a \in Alert
                   PROVE  RowSound(a)'
        OBVIOUS
      <4> DEFINE x == job[w].written[a]
      <4>1. actions' = actions \cup job[w].inserted
        BY <3>1 DEF Commit
      <4>2. CASE x = Null
        <5>1. rows'[a] = rows[a]
          BY <1>0, <3>1, <4>2, Commits
        <5> QED
          BY <1>0, <2>1, <2>2, <5>1 DEF RowSound, Sound
      <4>3. CASE x # Null
        <5>1. rows'[a].value = x.value /\ rows'[a].value_as_of = x.value_as_of
          BY <1>0, <3>1, <4>3, Commits
        <5>2. /\ x.value_as_of \in job[w].inserted /\ job[w].inserted \subseteq reported
              /\ Sound(x.value, x.value_as_of, actions')
          BY <4>1, <4>3 DEF OnceInv, JobSound, WrittenSound
        <5>3. x.value_as_of <= today
          BY <5>2 DEF OnceInv
        <5> QED
          BY <2>2, <5>1, <5>2, <5>3 DEF RowSound
      <4> QED
        BY <4>2, <4>3
    <3>2. CASE ~Commit(w)
      <4>1. UNCHANGED <<actions, rows>>
        BY <1>8, <3>2 DEF JobStep, FetchSplits, InsertSplit, SelectAlerts, UpdateAlert,
           SkipRebase, Abort
      <4> QED
        BY <1>0, <2>2, <4>1 DEF RowSound
    <3> QED
      BY <3>1, <3>2
  <2>6. \A a \in Alert : PutSound(a)'
    BY <1>0, <2>2 DEF PutSound, users
  <2> QED
    BY <2>1, <2>2, <2>3, <2>4, <2>5, <2>6 DEF OnceInv
<1>9. CASE UNCHANGED vars
  BY <1>9, JobsKeepSound DEF vars, OnceInv, RowSound, PutSound, users
<1> QED
  BY <1>1, <1>2, <1>3, <1>4, <1>5, <1>6, <1>7, <1>8, <1>9 DEF Next, Users

LEMMA AlwaysSound == Spec => []OnceInv
BY AlwaysTyped, InitOnce, NextOnce, PTL DEF Spec

\* No split is multiplied into a level twice, and none without its record
\* (the daily task's retries, overlaps and failures against PUTs and fires).
THEOREM RebasedOnce == Spec => []NeverTwice
<1>1. TypeInv /\ OnceInv => NeverTwice
  BY DEF TypeInv, TypeOK, Row, Value, OnceInv, RowSound, Sound, NeverTwice
<1> QED
  BY <1>1, AlwaysTyped, AlwaysSound, PTL

-----------------------------------------------------------------------------
(* UnfiredLevelsCurrent.  Splits are inserted in their order and every run *)
(* starts with the first, so the unique key lets only one transaction at a *)
(* time past its first insert: what it read stays true until it commits.   *)

InUnits(v, s) == s \in v.units \/ v.applied[s] > 0
Covers(v, as_of) == \A s \in Split : s <= as_of => InUnits(v, s)
Unfired(a) == life[a] = "live" /\ rows[a].status = "ACTIVE"
DownTo(S) == \A s \in S : \A t \in Split : t < s => t \in S

\* A stamp vouches for every split up to it, and an unfired level's for every
\* split on record.
RowCurrent(a) ==
  /\ put[a] = Null
  /\ Covers(rows[a].value, rows[a].value_as_of)
  /\ Unfired(a) => \A t \in actions : t <= rows[a].value_as_of

InOrder(w) ==
  /\ DownTo(job[w].todo \cup job[w].inserted)
  /\ \A s \in job[w].inserted : \A t \in job[w].todo : s < t
  /\ job[w].split # Null => \A s \in job[w].inserted : s <= job[w].split
  /\ job[w].inserted # {} => job[w].split # Null
  /\ job[w].inserted = {} =>
       /\ job[w].pc # "select"
       /\ \A a \in Alert : job[w].found[a] = Null /\ job[w].written[a] = Null

Alone == \A v, w \in Worker : v # w => job[v].inserted = {} \/ job[w].inserted = {}

\* Every unfired level has been through the splits inserted so far; the one in
\* hand is still to be selected or written.
Through(w, a) ==
  Unfired(a) =>
    \A t \in job[w].inserted :
      t # job[w].split \/ (job[w].pc = "rows" /\ job[w].found[a] = Null)
        => t <= Seen(w, a).value_as_of
FoundCurrent(w, a) ==
  job[w].found[a] # Null =>
    /\ life[a] # "unused" /\ rows[a].value_as_of < job[w].split
    /\ \A t \in Split : t < job[w].split => InUnits(job[w].found[a], t)
WrittenCurrent(w, a) ==
  job[w].written[a] # Null =>
    /\ life[a] # "unused" /\ rows[a].value_as_of <= job[w].written[a].value_as_of
    /\ Covers(job[w].written[a].value, job[w].written[a].value_as_of)
Rebasing(w, a) == Through(w, a) /\ FoundCurrent(w, a) /\ WrittenCurrent(w, a)

CurrentCore ==
  /\ DownTo(reported)
  /\ \A a \in Alert : RowCurrent(a)
  /\ Alone
  /\ \A w \in Worker : InOrder(w)
  /\ \A w \in Worker : \A a \in Alert : Rebasing(w, a)
CurrentInv == Undisturbed => CurrentCore

\* A transaction that is not alone has read and written nothing.
LEMMA OthersBlank ==
  ASSUME CurrentCore, NEW w \in Worker, job[w].inserted # {}, NEW v \in Worker \ {w}
  PROVE  /\ job[v].inserted = {} /\ job[v].pc # "select"
         /\ \A a \in Alert : job[v].found[a] = Null /\ job[v].written[a] = Null
BY DEF CurrentCore, Alone, InOrder

LEMMA InitCurrent == Init => CurrentInv
<1> SUFFICES ASSUME Init
             PROVE  CurrentCore
  BY DEF CurrentInv
<1>1. \A a \in Alert : rows[a].value_as_of = 0
  BY DEF Init
<1>2. \A a \in Alert : RowCurrent(a)
  BY <1>1, SplitAssumption DEF Init, RowCurrent, Covers, Unfired
<1>3. \A w \in Worker : job[w] = IdleJob
  BY DEF Init
<1>4. \A w \in Worker :
        /\ job[w].inserted = {} /\ job[w].todo = {} /\ job[w].split = Null /\ job[w].pc = "idle"
        /\ \A a \in Alert : job[w].found[a] = Null /\ job[w].written[a] = Null
  BY <1>3, IdleTyped DEF Is, NoRows
<1>5. DownTo(reported)
  BY DEF Init, DownTo
<1> QED
  BY <1>2, <1>4, <1>5 DEF CurrentCore, Alone, InOrder, DownTo, Rebasing, Through, FoundCurrent,
     WrittenCurrent

\* Only what an alert's owner does to an unused row, and a commit, touch a
\* value or a stamp; the rest of a user's requests makes fewer levels unfired.
Calmer(a) ==
  /\ rows'[a].value = rows[a].value /\ rows'[a].value_as_of = rows[a].value_as_of
  /\ Unfired(a)' => Unfired(a)
  /\ life[a] # "unused" => life'[a] # "unused"

LEMMA CalmStep ==
  ASSUME CurrentCore, UNCHANGED <<job, actions>>, DownTo(reported)', put' = put,
         \A a \in Alert : Calmer(a)
  PROVE  CurrentCore'
<1>1. ASSUME NEW a \in Alert
      PROVE  RowCurrent(a)' /\ \A w \in Worker : Rebasing(w, a)'
  <2>1. Calmer(a) /\ RowCurrent(a)
    BY DEF CurrentCore
  <2>2. RowCurrent(a)'
    BY <2>1 DEF Calmer, RowCurrent
  <2>3. \A w \in Worker : Seen(w, a)'.value_as_of = Seen(w, a).value_as_of
    BY <2>1 DEF Seen, Calmer
  <2>4. \A w \in Worker : Through(w, a)'
    BY <2>1, <2>3 DEF CurrentCore, Rebasing, Through, Calmer
  <2>5. \A w \in Worker : FoundCurrent(w, a)' /\ WrittenCurrent(w, a)'
    BY <2>1 DEF CurrentCore, Rebasing, FoundCurrent, WrittenCurrent, Calmer
  <2> QED
    BY <2>2, <2>4, <2>5 DEF Rebasing
<1>2. Alone' /\ \A w \in Worker : InOrder(w)'
  BY DEF CurrentCore, Alone, InOrder
<1> QED
  BY <1>1, <1>2 DEF CurrentCore

\* A level typed today holds every split there is a record of.
LEMMA CreatedCurrent ==
  ASSUME TypeInv, OnceInv, CurrentCore, NEW a \in Alert, NEW l \in Level, create_alert(a, l)
  PROVE  CurrentCore'
<1>1. /\ OnlyRow(a) /\ life' = [life EXCEPT ![a] = "live"] /\ life[a] = "unused"
      /\ rows'[a].value = Typed(l) /\ rows'[a].value_as_of = today
  BY Creates DEF TypeInv
<1>2. UNCHANGED <<job, actions, reported, put, today>>
  BY DEF create_alert
<1>3. \A s \in reported : s <= today
  BY DEF OnceInv
<1>4. RowCurrent(a)'
  BY <1>1, <1>2, <1>3, TypedValue DEF CurrentCore, RowCurrent, Covers, InUnits, OnceInv
<1>5. \A w \in Worker : Rebasing(w, a)'
  <2> SUFFICES ASSUME NEW w \in Worker
               PROVE  Rebasing(w, a)'
    OBVIOUS
  <2>1. job[w].written[a] = Null /\ job[w].found[a] = Null
    BY <1>1 DEF CurrentCore, Rebasing, FoundCurrent, WrittenCurrent
  <2>2. Seen(w, a)'.value_as_of = today
    BY <1>1, <1>2, <2>1 DEF Seen
  <2>3. \A t \in job[w].inserted : t <= today
    BY <1>3 DEF OnceInv, JobSound
  <2> QED
    BY <1>2, <2>1, <2>2, <2>3 DEF Rebasing, Through, FoundCurrent, WrittenCurrent
<1>6. ASSUME NEW b \in Alert \ {a}
      PROVE  RowCurrent(b)' /\ \A w \in Worker : Rebasing(w, b)'
  <2>1. rows'[b] = rows[b] /\ life'[b] = life[b]
    BY <1>1 DEF OnlyRow, TypeInv, TypeOK
  <2> QED
    BY <1>2, <2>1 DEF CurrentCore, RowCurrent, Unfired, Rebasing, Through, FoundCurrent,
       WrittenCurrent, Seen
<1>7. Alone' /\ \A w \in Worker : InOrder(w)'
  BY <1>2 DEF CurrentCore, Alone, InOrder
<1> QED
  BY <1>2, <1>4, <1>5, <1>6, <1>7 DEF CurrentCore

\* One step of one transaction leaves the blank ones blank and the others alone.
LEMMA OthersCurrent ==
  ASSUME CurrentCore, NEW w \in Worker, OnlyJob(w), UNCHANGED <<rows, life>>,
         NEW v \in Worker \ {w}
  PROVE  InOrder(v)' /\ \A a \in Alert : Rebasing(v, a)'
<1>1. job'[v] = job[v]
  BY DEF OnlyJob
<1> QED
  BY <1>1 DEF CurrentCore, InOrder, Rebasing, Through, Unfired, FoundCurrent, WrittenCurrent, Seen

LEMMA RowsCurrent ==
  ASSUME CurrentCore, UNCHANGED <<rows, life, put, actions>>
  PROVE  \A a \in Alert : RowCurrent(a)'
BY DEF CurrentCore, RowCurrent, Unfired

\* The first insert waits for whoever is past it.
LEMMA InsertsAlone ==
  ASSUME TypeInv, OnceInv, CurrentCore, NEW w \in Worker, InsertSplit(w)
  PROVE  \A v \in Worker \ {w} : job[v].inserted = {}
<1> DEFINE i == job[w]
           s == NextSplit(i.todo)
<1>1. /\ s \in i.todo /\ s \in Split /\ \A t \in i.todo : s <= t
      /\ \A v \in Worker \ {w} : s \notin job[v].inserted
  BY Inserts DEF TypeInv
<1> HIDE DEF s
<1> SUFFICES ASSUME NEW v \in Worker \ {w}, NEW t \in job[v].inserted
             PROVE  FALSE
  OBVIOUS
<1>2. InOrder(w) /\ InOrder(v) /\ t \in Split
  BY DEF CurrentCore, TypeInv, TypeOK, Job
<1>3. i.inserted = {}
  BY DEF CurrentCore, Alone
<1>4. s \in Nat /\ t \in Nat /\ s # t
  BY <1>1, <1>2, Splits
<1>5. CASE s < t
  BY <1>1, <1>2, <1>4, <1>5 DEF InOrder, DownTo
<1>6. CASE t < s
  BY <1>1, <1>2, <1>3, <1>4, <1>6 DEF InOrder, DownTo
<1> QED
  BY <1>4, <1>5, <1>6

LEMMA FetchCurrent ==
  ASSUME TypeInv, CurrentCore, NEW w \in Worker, FetchSplits(w)
  PROVE  CurrentCore'
<1>1. OnlyJob(w) /\ Is(job'[w], "rows", reported, Null, {}, NoRows, NoRows, NoRows)
  BY Fetches DEF TypeInv
<1>2. UNCHANGED <<rows, life, put, actions, reported>>
  BY DEF FetchSplits, users
<1>3. InOrder(w)'
  BY <1>1 DEF InOrder, Is, NoRows, CurrentCore
<1>4. \A a \in Alert : Rebasing(w, a)'
  BY <1>1 DEF Rebasing, Through, FoundCurrent, WrittenCurrent, Is, NoRows
<1>5. Alone'
  BY <1>1 DEF CurrentCore, Alone, OnlyJob, Is
<1> QED
  BY <1>1, <1>2, <1>3, <1>4, <1>5, OthersCurrent, RowsCurrent DEF CurrentCore, DownTo

LEMMA InsertCurrent ==
  ASSUME TypeInv, OnceInv, CurrentCore, NEW w \in Worker, InsertSplit(w)
  PROVE  CurrentCore'
<1> DEFINE i == job[w]
           s == NextSplit(i.todo)
           j == job'[w]
<1>1. /\ OnlyJob(w)
      /\ Is(j, "select", i.todo \ {s}, s, i.inserted \cup {s}, i.found, i.written, i.written)
      /\ s \in i.todo /\ s \in Split /\ \A t \in i.todo : s <= t
      /\ i.pc = "rows" /\ i.found = NoRows
  BY Inserts DEF TypeInv
<1> HIDE DEF s
<1>2. UNCHANGED <<rows, life, put, actions, reported>>
  BY DEF InsertSplit, users
<1>3. InOrder(w) /\ i.todo \subseteq Split /\ i.inserted \subseteq Split
  BY DEF CurrentCore, TypeInv, TypeOK, Job
<1>4. InOrder(w)'
  <2>1. j.todo \cup j.inserted = i.todo \cup i.inserted
    BY <1>1 DEF Is
  <2>2. \A x \in j.inserted : \A t \in j.todo : x < t
    BY <1>1, <1>3, Splits DEF Is, InOrder
  <2>3. \A x \in j.inserted : x <= j.split
    BY <1>1, <1>3, Splits DEF Is, InOrder
  <2>4. j.split # Null /\ j.inserted # {}
    BY <1>1, Splits DEF Is
  <2> HIDE DEF j
  <2>5. DownTo(j.todo \cup j.inserted)
    BY <1>3, <2>1 DEF InOrder
  <2> QED
    BY <2>2, <2>3, <2>4, <2>5 DEF InOrder, j
<1>5. \A a \in Alert : Rebasing(w, a)'
  <2> SUFFICES ASSUME NEW a \in Alert
               PROVE  Rebasing(w, a)'
    OBVIOUS
  <2>1. Rebasing(w, a) /\ i.found[a] = Null
    BY <1>1 DEF CurrentCore, NoRows
  <2>2. Through(w, a)'
    BY <1>1, <1>2, <2>1 DEF Rebasing, Through, Unfired, Seen, Is
  <2>3. FoundCurrent(w, a)' /\ WrittenCurrent(w, a)'
    BY <1>1, <1>2, <2>1 DEF Rebasing, FoundCurrent, WrittenCurrent, Is
  <2> QED
    BY <2>2, <2>3 DEF Rebasing
<1>6. Alone'
  BY <1>1, InsertsAlone DEF Alone, OnlyJob
<1> QED
  BY <1>1, <1>2, <1>4, <1>5, <1>6, OthersCurrent, RowsCurrent DEF CurrentCore, DownTo

LEMMA SelectCurrent ==
  ASSUME TypeInv, OnceInv, CurrentCore, NEW w \in Worker, SelectAlerts(w)
  PROVE  CurrentCore'
<1> DEFINE i == job[w]
           f == [a \in Alert |-> IF a \in Found(w) THEN Seen(w, a).value ELSE Null]
           j == job'[w]
<1>1. /\ OnlyJob(w) /\ i.pc = "select"
      /\ Is(j, "rows", i.todo, i.split, i.inserted, f, i.written, i.saved)
  BY Selects DEF TypeInv
<1>2. UNCHANGED <<rows, life, put, actions, reported>>
  BY DEF SelectAlerts, users
<1>3. i \in Job /\ InOrder(w) /\ JobSound(w) /\ \A a \in Alert : Rebasing(w, a) /\ RowCurrent(a)
  BY DEF CurrentCore, TypeInv, TypeOK, OnceInv
<1>4. i.split \in Split /\ i.split \in i.inserted
  BY <1>1, <1>3 DEF TypeInv, InHand, JobSound, Job
<1>5. InOrder(w)'
  <2> HIDE DEF f
  <2> QED
    BY <1>1, <1>3, <1>4 DEF InOrder, Is
<1>6. ASSUME NEW a \in Alert
      PROVE  Rebasing(w, a)'
  <2> DEFINE x == Seen(w, a)
  <2>1. x.value \in Value /\ x.value_as_of \in Nat /\ Covers(x.value, x.value_as_of)
        /\ rows[a].value_as_of <= x.value_as_of /\ x.value # Null /\ rows[a].value_as_of \in Nat
    <3>1. rows[a] \in Row /\ i.written[a] \in Stamped \cup {Null}
      BY <1>3 DEF TypeInv, TypeOK, Job
    <3>2. CASE i.written[a] = Null
      BY <1>3, <3>1, <3>2, RebaseNullAssumption, SplitAssumption DEF Seen, Row, RowCurrent, Day
    <3>3. CASE i.written[a] # Null
      BY <1>3, <3>1, <3>3, RebaseNullAssumption, SplitAssumption
         DEF Seen, Row, Stamped, Rebasing, WrittenCurrent, Day
    <3> QED
      BY <3>2, <3>3
  <2>2. Seen(w, a)' = x
    <3> HIDE DEF f
    <3> QED
      BY <1>1, <1>2 DEF Seen, Is
  <2>3. j.found[a] # Null => a \in Found(w) /\ j.found[a] = x.value
    BY <1>1 DEF Is
  <2>4. j.found[a] = Null => a \notin Found(w)
    BY <1>1, <2>1 DEF Is
  <2> HIDE DEF f, x
  <2>5. Unfired(a) /\ a \notin Found(w) => i.split <= x.value_as_of
    BY <1>4, <2>1, Splits DEF Unfired, Live, Found, Older, x
  <2>6. a \in Found(w) => life[a] = "live" /\ Unfired(a) /\ x.value_as_of < i.split
    BY DEF Found, Live, Unfired, Older, x
  <2>7. Through(w, a)'
    BY <1>1, <1>2, <1>3, <2>2, <2>4, <2>5 DEF Is, Rebasing, Through, Unfired, x
  <2>8. ASSUME a \in Found(w), NEW t \in Split, t < i.split
        PROVE  InUnits(x.value, t)
    <3>1. t \in i.inserted
      BY <1>3, <1>4, <2>8, Splits DEF InOrder, DownTo
    <3>2. t <= x.value_as_of
      BY <1>3, <1>4, <2>6, <2>8, <3>1, Splits DEF Rebasing, Through, x
    <3> QED
      BY <2>1, <3>2 DEF Covers
  <2>9. FoundCurrent(w, a)'
    <3>1. j.found[a] # Null => rows[a].value_as_of < i.split
      BY <1>4, <2>1, <2>3, <2>6, Splits
    <3>2. j.split = i.split
      BY <1>1 DEF Is
    <3> QED
      BY <1>2, <2>3, <2>6, <2>8, <3>1, <3>2 DEF FoundCurrent
  <2>10. WrittenCurrent(w, a)'
    BY <1>1, <1>2, <1>3 DEF Rebasing, WrittenCurrent, Is
  <2> QED
    BY <2>7, <2>9, <2>10 DEF Rebasing
<1>7. Alone'
  <2> HIDE DEF f
  <2> QED
    BY <1>1 DEF CurrentCore, Alone, OnlyJob, Is
<1> QED
  BY <1>1, <1>2, <1>5, <1>6, <1>7, OthersCurrent, RowsCurrent DEF CurrentCore, DownTo

LEMMA UpdateCurrent ==
  ASSUME TypeInv, OnceInv, CurrentCore, NEW w \in Worker, NEW a \in Alert, UpdateAlert(w, a)
  PROVE  CurrentCore'
<1> DEFINE i == job[w]
           f == [i.found EXCEPT ![a] = Null]
           g == [i.written EXCEPT ![a] = IF a \in Live THEN NewRow(w, a) ELSE @]
           j == job'[w]
           n == NewRow(w, a)
<1>1. i.split # Null
  BY DEF TypeInv, InHand, UpdateAlert
<1>2. /\ OnlyJob(w) /\ Is(j, i.pc, i.todo, i.split, i.inserted, f, g, i.saved)
      /\ i.split \in Split /\ i.found[a] \in Value /\ i.found[a] # Null
  BY <1>1, Updates DEF TypeInv
<1>3. UNCHANGED <<rows, life, put, actions, reported>>
  BY DEF UpdateAlert, users
<1>4. i \in Job /\ InOrder(w) /\ \A b \in Alert : Rebasing(w, b)
  BY DEF CurrentCore, TypeInv, TypeOK
<1>5. n.value = Rebased(i.found[a], i.split) /\ n.value_as_of = i.split /\ n \in Stamped
      /\ n # Null
  BY <1>2, RebasedValue, Splits, RebaseNullAssumption DEF NewRow, Stamped
<1> HIDE DEF n
<1>6. /\ f[a] = Null /\ \A b \in Alert \ {a} : f[b] = i.found[b] /\ g[b] = i.written[b]
      /\ a \in Live => g[a] = n
      /\ a \notin Live => g[a] = i.written[a]
  BY <1>4 DEF Job, n
<1> HIDE DEF f, g
<1>7. InOrder(w)'
  <2>1. i.inserted # {}
    BY <1>2, <1>4 DEF InOrder
  <2> QED
    BY <1>2, <1>4, <2>1 DEF InOrder, Is
<1>8. ASSUME NEW b \in Alert \ {a}
      PROVE  Rebasing(w, b)'
  <2>1. Seen(w, b)' = Seen(w, b) /\ j.found[b] = i.found[b] /\ j.written[b] = i.written[b]
    BY <1>2, <1>3, <1>6 DEF Seen, Is
  <2>2. Rebasing(w, b) /\ j.pc = i.pc /\ j.split = i.split /\ j.inserted = i.inserted
    BY <1>2, <1>4 DEF Is
  <2> QED
    BY <1>3, <2>1, <2>2 DEF Rebasing, Through, FoundCurrent, WrittenCurrent, Unfired
<1>9. Through(w, a)'
  <2>1. \A t \in i.inserted : t <= i.split
    BY <1>1, <1>4 DEF InOrder
  <2>2. a \in Live => Seen(w, a)'.value_as_of = i.split
    BY <1>2, <1>5, <1>6 DEF Seen, Is
  <2>3. Unfired(a)' => a \in Live
    BY <1>3 DEF Unfired, Live
  <2> QED
    BY <1>2, <2>1, <2>2, <2>3 DEF Through, Is
<1>10. FoundCurrent(w, a)'
  BY <1>2, <1>6 DEF FoundCurrent, Is
<1>11. WrittenCurrent(w, a)'
  <2>1. CASE a \in Live
    <3>1. \A t \in Split : t < i.split => InUnits(i.found[a], t)
      BY <1>2, <1>4 DEF Rebasing, FoundCurrent
    <3>2. ASSUME NEW t \in Split, t <= i.split
          PROVE  InUnits(n.value, t)
      <4>1. CASE t = i.split
        <5>1. i.found[a].applied[t] \in Nat
          BY <1>2 DEF Value
        <5>2. n.value.applied[t] = i.found[a].applied[t] + 1
          BY <1>2, <1>5, <4>1, RebasedValue
        <5> QED
          BY <5>1, <5>2 DEF InUnits
      <4>2. CASE t # i.split
        <5>1. InUnits(i.found[a], t)
          BY <1>2, <3>1, <3>2, <4>2, Splits
        <5> QED
          BY <1>2, <1>5, <4>2, <5>1, RebasedValue DEF InUnits
      <4> QED
        BY <4>1, <4>2
    <3>3. Covers(n.value, i.split)
      BY <3>2 DEF Covers
    <3>4. life[a] # "unused" /\ rows[a].value_as_of <= i.split
      <4>1. rows[a].value_as_of < i.split /\ rows[a].value_as_of \in Nat /\ life[a] # "unused"
        BY <1>2, <1>4, SplitAssumption
           DEF Rebasing, FoundCurrent, TypeInv, TypeOK, Row, Day
      <4> QED
        BY <1>2, <4>1, Splits
    <3> QED
      BY <1>2, <1>3, <1>5, <1>6, <2>1, <3>3, <3>4 DEF WrittenCurrent, Is
  <2>2. CASE a \notin Live
    BY <1>2, <1>3, <1>4, <1>6, <2>2 DEF Rebasing, WrittenCurrent, Is
  <2> QED
    BY <2>1, <2>2
<1>12. \A b \in Alert : Rebasing(w, b)'
  BY <1>8, <1>9, <1>10, <1>11 DEF Rebasing
<1>13. Alone'
  BY <1>2 DEF CurrentCore, Alone, OnlyJob, Is
<1> QED
  BY <1>2, <1>3, <1>7, <1>12, <1>13, OthersCurrent, RowsCurrent DEF CurrentCore, DownTo

LEMMA CommitCurrent ==
  ASSUME TypeInv, CurrentCore, NEW w \in Worker, Commit(w)
  PROVE  CurrentCore'
<1> DEFINE i == job[w]
           j == job'[w]
<1>1. OnlyJob(w) /\ Is(j, "idle", {}, Null, {}, NoRows, NoRows, NoRows)
  BY Ends DEF TypeInv
<1>2. /\ UNCHANGED <<life, put, reported>>
      /\ actions' = actions \cup i.inserted /\ i.pc = "rows"
      /\ \A a \in Alert : i.found[a] = Null
  BY DEF Commit, users, Between, NoRows
<1>3. i \in Job /\ InOrder(w) /\ \A a \in Alert : Rebasing(w, a) /\ RowCurrent(a)
  BY DEF CurrentCore, TypeInv, TypeOK
<1>4. ASSUME NEW a \in Alert
      PROVE  /\ i.written[a] = Null => rows'[a] = rows[a]
             /\ i.written[a] # Null => /\ rows'[a].value = i.written[a].value
                                       /\ rows'[a].value_as_of = i.written[a].value_as_of
                                       /\ rows'[a].status = rows[a].status
  BY Commits DEF TypeInv
<1>5. ASSUME NEW a \in Alert
      PROVE  RowCurrent(a)'
  <2>1. /\ rows'[a].value_as_of = Seen(w, a).value_as_of
        /\ Unfired(a)' => Unfired(a)
        /\ Covers(rows'[a].value, rows'[a].value_as_of)
    BY <1>2, <1>3, <1>4 DEF Seen, Unfired, Rebasing, WrittenCurrent, RowCurrent
  <2>2. rows[a].value_as_of <= Seen(w, a).value_as_of
        /\ rows[a].value_as_of \in Nat /\ Seen(w, a).value_as_of \in Nat
    <3>1. rows[a] \in Row /\ i.written[a] \in Stamped \cup {Null}
      BY <1>3 DEF TypeInv, TypeOK, Job
    <3> QED
      BY <1>3, <3>1, SplitAssumption DEF Seen, Rebasing, WrittenCurrent, Row, Stamped, Day
  <2>3. ASSUME Unfired(a), NEW t \in actions'
        PROVE  t <= rows'[a].value_as_of
    <3>1. t \in Split
      BY <1>2, <1>3 DEF TypeInv, TypeOK, Job
    <3>2. CASE t \in actions
      BY <1>3, <2>1, <2>2, <2>3, <3>1, <3>2, Splits DEF RowCurrent
    <3>3. CASE t \in i.inserted
      BY <1>2, <1>3, <2>1, <2>3, <3>3 DEF Rebasing, Through
    <3> QED
      BY <1>2, <3>2, <3>3
  <2> QED
    BY <1>2, <1>3, <2>1, <2>3 DEF RowCurrent
<1>6. InOrder(w)' /\ \A a \in Alert : Rebasing(w, a)'
  BY <1>1 DEF InOrder, DownTo, Rebasing, Through, FoundCurrent, WrittenCurrent, Is, NoRows
<1>7. ASSUME NEW v \in Worker \ {w}
      PROVE  InOrder(v)' /\ \A a \in Alert : Rebasing(v, a)'
  <2>1. job'[v] = job[v] /\ InOrder(v)
    BY <1>1 DEF OnlyJob, CurrentCore
  <2>2. InOrder(v)'
    BY <2>1 DEF InOrder
  <2>3. ASSUME NEW a \in Alert
        PROVE  Rebasing(v, a)'
    <3>1. CASE i.inserted = {}
      <4>1. rows'[a] = rows[a]
        BY <1>3, <1>4, <3>1 DEF InOrder
      <4> QED
        BY <1>2, <2>1, <4>1 DEF CurrentCore, Rebasing, Through, Unfired, FoundCurrent,
           WrittenCurrent, Seen
    <3>2. CASE i.inserted # {}
      BY <2>1, <3>2, OthersBlank DEF Rebasing, Through, FoundCurrent, WrittenCurrent
    <3> QED
      BY <3>1, <3>2
  <2> QED
    BY <2>2, <2>3
<1>8. Alone'
  BY <1>1 DEF CurrentCore, Alone, OnlyJob, Is
<1> QED
  BY <1>2, <1>5, <1>6, <1>7, <1>8 DEF CurrentCore, DownTo

LEMMA NextCurrent == TypeInv /\ OnceInv /\ CurrentInv /\ [Next]_vars => CurrentInv'
<1> SUFFICES ASSUME TypeInv, OnceInv, CurrentInv, [Next]_vars, Undisturbed'
             PROVE  CurrentCore'
  BY DEF CurrentInv
<1>0. TypeOK /\ edits \in Nat /\ failures \in Nat
  BY BoundAssumption DEF TypeInv, TypeOK
<1>1. Undisturbed /\ \A a \in Alert, l \in Level : ~PutLoad(a, l)
  <2>1. \A a \in Alert, l \in Level : ~PutLoad(a, l)
    BY <1>0 DEF PutLoad, Undisturbed
  <2>2. edits' = edits
    BY <2>1 DEF Next, Users, vars, NextDay, Report, create_alert, PutFlush, delete_alert,
       claim_alert, JobStep, FetchSplits, InsertSplit, SelectAlerts, UpdateAlert, Commit,
       SkipRebase, Abort, users
  <2>3. failures' = failures \/ failures' = failures + 1
    BY DEF Next, Users, vars, NextDay, Report, create_alert, PutFlush, PutLoad, delete_alert,
       claim_alert, JobStep, FetchSplits, InsertSplit, SelectAlerts, UpdateAlert, Commit,
       SkipRebase, Abort, Fail
  <2> QED
    BY <1>0, <2>1, <2>2, <2>3 DEF Undisturbed
<1>2. CurrentCore
  BY <1>1 DEF CurrentInv
<1>3. DownTo(reported)
  BY <1>2 DEF CurrentCore
<1>4. CASE NextDay
  BY <1>2, <1>3, <1>4, CalmStep DEF NextDay, DownTo, Calmer, Unfired, users
<1>5. ASSUME NEW s \in Split, Report(s)
      PROVE  CurrentCore'
  BY <1>2, <1>3, <1>5, CalmStep DEF Report, DownTo, Calmer, Unfired, users
<1>6. ASSUME NEW a \in Alert, NEW l \in Level, create_alert(a, l)
      PROVE  CurrentCore'
  BY <1>2, <1>6, CreatedCurrent
<1>7. ASSUME NEW a \in Alert, PutFlush(a)
      PROVE  CurrentCore'
  BY <1>2, <1>7 DEF PutFlush, CurrentCore, RowCurrent
<1>8. ASSUME NEW a \in Alert, delete_alert(a)
      PROVE  CurrentCore'
  <2>1. \A b \in Alert : Calmer(b)
    BY <1>0, <1>8 DEF delete_alert, Calmer, Unfired, TypeOK
  <2> QED
    BY <1>2, <1>3, <1>8, <2>1, CalmStep DEF delete_alert, DownTo
<1>9. ASSUME NEW a \in Alert, claim_alert(a)
      PROVE  CurrentCore'
  <2>1. /\ OnlyRow(a) /\ rows'[a].status = "TRIGGERED"
        /\ rows'[a].value = rows[a].value /\ rows'[a].value_as_of = rows[a].value_as_of
    BY <1>0, <1>9, Fires
  <2>2. UNCHANGED <<job, actions, reported, put, life>>
    BY <1>9 DEF claim_alert, users
  <2>3. \A b \in Alert : Calmer(b)
    BY <2>1, <2>2 DEF Calmer, Unfired, OnlyRow
  <2> QED
    BY <1>2, <1>3, <2>2, <2>3, CalmStep DEF DownTo
<1>10. ASSUME NEW w \in Worker, JobStep(w)
       PROVE  CurrentCore'
  BY <1>2, <1>10, FetchCurrent, InsertCurrent, SelectCurrent, UpdateCurrent, CommitCurrent
     DEF JobStep
<1>11. ASSUME NEW w \in Worker, SkipRebase(w) \/ Abort(w)
       PROVE  FALSE
  <2>1. failures' = failures + 1
    BY <1>11 DEF SkipRebase, Abort, Fail
  <2> QED
    BY <1>0, <2>1 DEF Undisturbed
<1>12. CASE UNCHANGED vars
  BY <1>2, <1>3, <1>12, CalmStep DEF vars, DownTo, Calmer, Unfired, users
<1> QED
  BY <1>1, <1>4, <1>5, <1>6, <1>7, <1>8, <1>9, <1>10, <1>11, <1>12 DEF Next, Users

LEMMA AlwaysCurrent == Spec => []CurrentInv
BY AlwaysTyped, AlwaysSound, InitCurrent, NextCurrent, PTL DEF Spec

\* While nothing fails and nothing is edited, an unfired level is in units that
\* hold every split on record: no run skips or overtakes one.
THEOREM UnfiredCurrent == Spec => []UnfiredLevelsCurrent
<1>1. TypeInv /\ CurrentInv => UnfiredLevelsCurrent
  BY DEF TypeInv, TypeOK, CurrentInv, CurrentCore, RowCurrent, Covers, InUnits, Unfired, Live,
     UnfiredLevelsCurrent, InUnitsOf
<1> QED
  BY <1>1, AlwaysTyped, AlwaysCurrent, PTL
=============================================================================
