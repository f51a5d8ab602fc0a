---------------------------- MODULE AlertRebase ----------------------------
(***************************************************************************)
(* The split rebase of price alerts: fetch_corporate_actions records a     *)
(* symbol's splits and restates the levels set before each of them, in one *)
(* Postgres transaction with a savepoint per split, while users create,    *)
(* edit and delete alerts and the checker fires them.  Transactions are    *)
(* READ COMMITTED: a statement sees what is committed and what its own     *)
(* transaction wrote, and waits for the row locks of the others.           *)
(*                                                                         *)
(* One symbol.  A level is a number with its origin: what the user typed,  *)
(* the splits already in the prices then, and how often each split was     *)
(* multiplied into it since.                                               *)
(***************************************************************************)
EXTENDS Integers, FiniteSets

CONSTANTS
  Alert,
  Worker,      \* executions of fetch_corporate_actions alive at once
  Split,       \* the ex-dates of the symbol's splits
  Level,       \* what users type
  MaxTime,     \* bound on the days
  MaxEdits,    \* bound on the PUTs of a behaviour
  MaxFailures, \* bound on the failed statements and lost transactions
  Null

ASSUME SplitAssumption == MaxTime \in Nat /\ Split \subseteq 1 .. MaxTime
ASSUME BoundAssumption == MaxEdits \in Nat /\ MaxFailures \in Nat
ASSUME LevelAssumption == Level # {}

VARIABLES
  today,       \* date.today()
  reported,    \* the splits yfinance returns
  actions,     \* committed rows of corporate_actions
  life,        \* [Alert -> "unused", "live" or "deleted"]
  rows,        \* committed rows of alerts (price alerts, active or paused)
  put,         \* [Alert -> the PUT between its SELECT and its flush]
  edits,
  job,         \* the transaction of each worker
  failures

users == <<life, put, edits>>
vars == <<today, reported, actions, rows, job, failures, users>>

Day == 0 .. MaxTime
OrNull(S) == S \cup {Null}

Value == [level : Level, units : SUBSET Split, applied : [Split -> Nat]]
Stamped == [value : Value, value_as_of : Day]
ASSUME RebaseNullAssumption == Null \notin Nat /\ Null \notin Value /\ Null \notin Stamped
Row == [value : Value, value_as_of : Day, status : {"ACTIVE", "TRIGGERED"}]
PutState == [new : Value, as_of : Day, loaded : Stamped]
Job == [pc : {"idle", "select", "rows"}, todo : SUBSET Split, split : OrNull(Split),
        inserted : SUBSET Split, found : [Alert -> OrNull(Value)],
        written : [Alert -> OrNull(Stamped)], saved : [Alert -> OrNull(Stamped)]]

NoRows == [a \in Alert |-> Null]
IdleJob == [pc |-> "idle", todo |-> {}, split |-> Null, inserted |-> {},
            found |-> NoRows, written |-> NoRows, saved |-> NoRows]

\* A level typed today is in the units quoted today.
Typed(l) == [level |-> l, units |-> {s \in Split : s <= today},
             applied |-> [s \in Split |-> 0]]
IsNumber(v, l) == v.level = l /\ \A s \in Split : v.applied[s] = 0
Rebased(v, s) == [v EXCEPT !.applied[s] = @ + 1]

Live == {a \in Alert : life[a] = "live"}
Locked(a) == \E w \in Worker : job[w].written[a] # Null

Init ==
  /\ today = 0
  /\ reported = {}
  /\ actions = {}
  /\ life = [a \in Alert |-> "unused"]
  /\ rows = [a \in Alert |-> [value |-> [Typed(CHOOSE l \in Level : TRUE) EXCEPT !.units = {}],
                              value_as_of |-> 0, status |-> "ACTIVE"]]
  /\ put = [a \in Alert |-> Null]
  /\ edits = 0
  /\ job = [w \in Worker |-> IdleJob]
  /\ failures = 0

-----------------------------------------------------------------------------
\* A PUT lasts seconds: it does not span midnight.
NextDay ==
  /\ today < MaxTime
  /\ put = [a \in Alert |-> Null]
  /\ today' = today + 1
  /\ UNCHANGED <<reported, actions, rows, job, failures, users>>

\* yfinance lists a split some time after its ex-date, in order.
Report(s) ==
  /\ s \in Split \ reported
  /\ s <= today
  /\ \A t \in Split : t < s => t \in reported
  /\ reported' = reported \cup {s}
  /\ UNCHANGED <<today, actions, rows, job, failures, users>>

\* [mutant] the date of a zone a day ahead.
create_alertAhead(a, l) ==
  /\ life[a] = "unused"
  /\ life' = [life EXCEPT ![a] = "live"]
  /\ rows' = [rows EXCEPT ![a] =
                [value |-> Typed(l), value_as_of |-> today + 1, status |-> "ACTIVE"]]
  /\ UNCHANGED <<today, reported, actions, put, edits, job, failures>>
create_alert(a, l) ==
  /\ life[a] = "unused"
  /\ life' = [life EXCEPT ![a] = "live"]
  /\ rows' = [rows EXCEPT ![a] =
                [value |-> Typed(l), value_as_of |-> today, status |-> "ACTIVE"]]
  /\ UNCHANGED <<today, reported, actions, put, edits, job, failures>>

\* update_alert in two: SELECT and setattr; then the flush, whose UPDATE waits
\* for the row and names only the columns that differ from the values loaded.
PutLoad(a, l) ==
  /\ a \in Live
  /\ put[a] = Null
  /\ edits < MaxEdits
  /\ edits' = edits + 1
  /\ put' = [put EXCEPT ![a] =
               [new |-> Typed(l), as_of |-> today,
                loaded |-> [value |-> rows[a].value, value_as_of |-> rows[a].value_as_of]]]
  /\ UNCHANGED <<today, reported, actions, rows, life, job, failures>>

PutFlush(a) ==
  LET p == put[a]
      l == p.new.level
      kept == IsNumber(p.loaded.value, l) /\ ~IsNumber(rows[a].value, l)
  IN /\ p # Null
     /\ ~Locked(a)
     /\ put' = [put EXCEPT ![a] = Null]
     /\ rows' = IF a \notin Live THEN rows ELSE [rows EXCEPT
          ![a].value = IF kept THEN @ ELSE p.new,
          ![a].value_as_of = IF p.loaded.value_as_of = p.as_of THEN @ ELSE p.as_of]
     /\ UNCHANGED <<today, reported, actions, life, edits, job, failures>>

delete_alert(a) ==
  /\ a \in Live
  /\ ~Locked(a)
  /\ life' = [life EXCEPT ![a] = "deleted"]
  /\ UNCHANGED <<today, reported, actions, rows, put, edits, job, failures>>

\* The checker fires the alert: of the columns here it writes status only.
claim_alert(a) ==
  /\ a \in Live
  /\ ~Locked(a)
  /\ rows[a].status = "ACTIVE"
  /\ rows' = [rows EXCEPT ![a].status = "TRIGGERED"]
  /\ UNCHANGED <<today, reported, actions, users, job, failures>>

-----------------------------------------------------------------------------
(* The splits part of _fetch_actions_for_symbol.                           *)

\* [mutant] only the splits not on record yet.
FetchNewSplits(w) ==
  /\ job[w].pc = "idle"
  /\ reported \ actions # {}
  /\ job' = [job EXCEPT ![w] = [IdleJob EXCEPT !.pc = "rows", !.todo = reported \ actions]]
  /\ UNCHANGED <<today, reported, actions, rows, failures, users>>
FetchSplits(w) ==
  /\ job[w].pc = "idle"
  /\ reported # {}
  /\ job' = [job EXCEPT ![w] = [IdleJob EXCEPT !.pc = "rows", !.todo = reported]]
  /\ UNCHANGED <<today, reported, actions, rows, failures, users>>

\* The rows of the current split are all written.
Between(w) == job[w].pc = "rows" /\ job[w].found = NoRows

\* [mutant] newest first.
LaterOf(S) == CHOOSE s \in S : \A t \in S : t <= s
NextSplit(S) == CHOOSE s \in S : \A t \in S : s <= t

\* INSERT ... ON CONFLICT DO UPDATE waits for another transaction's row of the
\* same split.  The savepoint is opened right after it.
InsertSplit(w) ==
  LET s == NextSplit(job[w].todo)
  IN /\ Between(w)
     /\ job[w].todo # {}
     /\ \A v \in Worker \ {w} : s \notin job[v].inserted
     /\ job' = [job EXCEPT ![w] = [job[w] EXCEPT
          !.pc = "select", !.split = s, !.todo = @ \ {s}, !.inserted = @ \cup {s},
          !.saved = job[w].written]]
     /\ UNCHANGED <<today, reported, actions, rows, failures, users>>

\* The WHERE clause, on the row as this transaction sees it.
Seen(w, a) == IF job[w].written[a] # Null THEN job[w].written[a] ELSE rows[a]
\* [mutant] a level stamped with the ex-date itself counts as older.
OlderOrSame(as_of, s) == as_of <= s
Older(as_of, s) == as_of < s
Found(w) ==
  {a \in Live : rows[a].status = "ACTIVE" /\ Older(Seen(w, a).value_as_of, job[w].split)}

SelectAlerts(w) ==
  /\ job[w].pc = "select"
  /\ job' = [job EXCEPT ![w] = [job[w] EXCEPT
       !.pc = "rows",
       !.found = [a \in Alert |-> IF a \in Found(w) THEN Seen(w, a).value ELSE Null]]]
  /\ UNCHANGED <<today, reported, actions, rows, failures, users>>

\* UPDATE ... WHERE id: the value computed from the SELECT, and no other guard.
UpdateAlert(w, a) ==
  LET v == job[w].found[a]
      s == job[w].split
  IN /\ job[w].pc = "rows"
     /\ v # Null
     /\ \A u \in Worker \ {w} : job[u].written[a] = Null
     /\ job' = [job EXCEPT ![w] = [job[w] EXCEPT
          !.found[a] = Null,
          !.written[a] = IF a \in Live THEN [value |-> Rebased(v, s), value_as_of |-> s]
                                       ELSE @]]
     /\ UNCHANGED <<today, reported, actions, rows, failures, users>>

\* A failing statement rolls back to the savepoint, and the next split follows.
Fail == failures < MaxFailures /\ failures' = failures + 1
SkipRebase(w) ==
  /\ Fail
  /\ job[w].pc = "select" \/ job[w].found # NoRows
  /\ job' = [job EXCEPT ![w] = [job[w] EXCEPT
       !.pc = "rows", !.found = NoRows, !.written = job[w].saved]]
  /\ UNCHANGED <<today, reported, actions, rows, users>>

Commit(w) ==
  /\ Between(w)
  /\ job[w].todo = {}
  /\ actions' = actions \cup job[w].inserted
  /\ rows' = [a \in Alert |->
       IF job[w].written[a] = Null THEN rows[a]
       ELSE [rows[a] EXCEPT !.value = job[w].written[a].value,
                            !.value_as_of = job[w].written[a].value_as_of]]
  /\ job' = [job EXCEPT ![w] = IdleJob]
  /\ UNCHANGED <<today, reported, failures, users>>

\* The worker is killed or the connection lost; tomorrow's run starts again.
\* [mutant] each rebase committed in a transaction of its own.
AbortKeepingRows(w) ==
  /\ Fail
  /\ job[w].pc # "idle"
  /\ rows' = [a \in Alert |->
       IF job[w].written[a] = Null THEN rows[a]
       ELSE [rows[a] EXCEPT !.value = job[w].written[a].value,
                            !.value_as_of = job[w].written[a].value_as_of]]
  /\ job' = [job EXCEPT ![w] = IdleJob]
  /\ UNCHANGED <<today, reported, actions, users>>
Abort(w) ==
  /\ Fail
  /\ job[w].pc # "idle"
  /\ job' = [job EXCEPT ![w] = IdleJob]
  /\ UNCHANGED <<today, reported, actions, rows, users>>

-----------------------------------------------------------------------------
Users ==
  \E a \in Alert :
    \/ \E l \in Level : create_alert(a, l) \/ PutLoad(a, l)
    \/ PutFlush(a)
    \/ delete_alert(a)
    \/ claim_alert(a)

JobStep(w) ==
  \/ FetchSplits(w)
  \/ InsertSplit(w)
  \/ SelectAlerts(w)
  \/ \E a \in Alert : UpdateAlert(w, a)
  \/ Commit(w)

Next ==
  \/ NextDay
  \/ \E s \in Split : Report(s)
  \/ Users
  \/ \E w \in Worker : JobStep(w) \/ SkipRebase(w) \/ Abort(w)

\* Beat runs the task daily, a transaction that does not fail goes on, and a
\* PUT is flushed when its request ends.
Fairness ==
  /\ \A w \in Worker : WF_vars(JobStep(w))
  /\ \A a \in Alert : WF_vars(PutFlush(a))

Spec == Init /\ [][Next]_vars
FairSpec == Spec /\ Fairness

-----------------------------------------------------------------------------
TypeOK ==
  /\ today \in Day
  /\ reported \in SUBSET Split
  /\ actions \in SUBSET Split
  /\ life \in [Alert -> {"unused", "live", "deleted"}]
  /\ rows \in [Alert -> Row]
  /\ put \in [Alert -> OrNull(PutState)]
  /\ edits \in 0 .. MaxEdits
  /\ job \in [Worker -> Job]
  /\ failures \in 0 .. MaxFailures

\* No split is ever multiplied into a level twice, however runs repeat, overlap
\* and fail and whatever users edit meanwhile (value_as_of is the only guard, and
\* the UPDATE by id does not repeat it); and none is without its record, which
\* the readers of corporate_actions see.
NeverTwice ==
  \A a \in Alert : \A s \in Split :
    rows[a].value.applied[s] <= IF s \in actions THEN 1 ELSE 0

\* While no statement has failed and no PUT has raced a rebase (see the README
\* for what those do), a level that has not fired is in units that hold every
\* split on record: typed in them, or restated.
Undisturbed == failures = 0 /\ edits = 0
InUnitsOf(a, s) == s \in rows[a].value.units \/ rows[a].value.applied[s] > 0
UnfiredLevelsCurrent ==
  Undisturbed =>
    \A a \in Live : \A s \in actions : rows[a].status = "ACTIVE" => InUnitsOf(a, s)

\* The same of every level the checker compares with a quote, which is in
\* current units: alerts stand, so those that fired are compared too.
StandingLevelsCurrent ==
  Undisturbed => \A a \in Live : \A s \in actions : InUnitsOf(a, s)

\* A rebase that failed is made up for by a later run: an unfired level that is
\* older than a listed split gets its factor in the end, or is typed anew in
\* current units.  Two stamps hide such a level from the split for good: that of
\* a newer split's rebase after the older one failed, and that of a PUT of the
\* same number, flushed over an earlier rebase whose value it leaves alone.
Outdated(a, s) ==
  /\ s \in reported /\ a \in Live
  /\ rows[a].status = "ACTIVE" /\ rows[a].value_as_of < s
HiddenByRebase(a, s) ==
  failures > 0 /\ \E t \in Split : t > s /\ rows[a].value.applied[t] > 0
HiddenByPut(a, s) ==
  /\ edits > 0
  /\ s <= rows[a].value_as_of
  /\ \E t \in Split : t < s /\ rows[a].value.applied[t] > 0
EventuallyRebased ==
  \A a \in Alert : \A s \in Split :
    Outdated(a, s) ~> \/ a \notin Live \/ rows[a].status # "ACTIVE"
                      \/ InUnitsOf(a, s)
                      \/ HiddenByRebase(a, s) \/ HiddenByPut(a, s)
=============================================================================
