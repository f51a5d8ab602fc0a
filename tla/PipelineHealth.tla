--------------------------- MODULE PipelineHealth ---------------------------
(***************************************************************************)
(* check_pipeline_health: every interval a task looks at the newest stamp  *)
(* among the canary keys of each data feed and tells the users when a feed *)
(* has stopped, once per cooldown, and when it is back.                    *)
(*                                                                         *)
(* Feeds write with a TTL, checks may overlap (the worker has two          *)
(* processes, tasks are retried and redelivered), and each Redis command   *)
(* of a check is a step of its own.  Time passes in ticks of one check     *)
(* interval.                                                               *)
(***************************************************************************)
EXTENDS Integers, Sequences, Functions

CONSTANTS
  Run,          \* the worker's processes
  Section,      \* the feeds in the order a check looks at them, quotes first
  Threshold,    \* feed -> ticks after which it counts as stalled
  Ttl,          \* feed -> ticks a canary key lives
  Gap,          \* feed -> ticks between two writes of a healthy feed
  Cooldown,     \* ALERT_COOLDOWN_SECONDS, in ticks
  MaxLag,       \* bound: ticks a check may take
  MaxRetries,   \* max_retries of the task
  MaxOutages,   \* bound: outages of a behaviour
  MaxFailures   \* bound: failed steps of a behaviour

Feed == Range(Section)
Quotes == Section[1]
Horizon(f) == IF Ttl[f] > Gap[f] THEN Ttl[f] ELSE Gap[f]

ASSUME HealthAssumption ==
  /\ Section \in Seq(Feed) /\ Len(Section) > 0
  /\ \A f \in Feed : /\ Gap[f] \in 1 .. Threshold[f]
                     /\ Threshold[f] \in Nat /\ Ttl[f] \in Nat \ {0}
  /\ Cooldown \in Nat \ {0} /\ MaxLag \in Nat \ {0}
  /\ MaxRetries \in Nat /\ MaxOutages \in Nat /\ MaxFailures \in Nat

VARIABLES
  up,        \* the feed's task runs and its provider answers
  age,       \* ticks since the newest stamp; from Ttl on there is no key
  lock,      \* ticks that *_ALERT_LOCK_KEY still lives
  down,      \* *_DOWN_STATE_KEY
  due,       \* beat has sent a check that no process has begun
  run,       \* the checks
  told,      \* the last message users got about the feed
  steady,    \* history: the feed has never failed
  doubt,     \* history: a message was lost, or two checks overlapped, since then
  outages, failures

feeds == <<up, age, steady, outages>>
keys == <<lock, down>>
messages == <<told, doubt>>
vars == <<feeds, keys, messages, due, run, failures>>

Fresh(pc, shared, retries) ==
  [pc |-> pc, at |-> 1, lag |-> 0, claimed |-> FALSE, shared |-> shared, retries |-> retries]
IdleRun == Fresh("idle", FALSE, 0)
Active(r) == run[r].pc \notin {"idle", "waiting"}
Others(r) == {q \in Run \ {r} : Active(q)}
Looking(r) == Section[run[r].at]

Init ==
  /\ up = [f \in Feed |-> FALSE]
  /\ age = [f \in Feed |-> Horizon(f)]
  /\ lock = [f \in Feed |-> 0]
  /\ down = [f \in Feed |-> FALSE]
  /\ due = FALSE
  /\ run = [r \in Run |-> IdleRun]
  /\ told = [f \in Feed |-> "nothing"]
  /\ steady = [f \in Feed |-> TRUE]
  /\ doubt = [f \in Feed |-> FALSE]
  /\ outages = 0 /\ failures = 0

-----------------------------------------------------------------------------
(* The feeds.                                                              *)

\* A canary is written, after a boot or an outage too: price_fetcher's Overview
\* slot, prefetch_fundamentals, the canaries of prefetch_history.
Refresh(f) ==
  /\ up' = [up EXCEPT ![f] = TRUE]
  /\ age' = [age EXCEPT ![f] = 0]
  /\ UNCHANGED <<steady, outages, keys, messages, due, run, failures>>

\* The provider answers nothing: the tasks go on and write nothing.
Outage(f) ==
  /\ outages < MaxOutages
  /\ up[f]
  /\ up' = [up EXCEPT ![f] = FALSE]
  /\ steady' = [steady EXCEPT ![f] = FALSE]
  /\ outages' = outages + 1
  /\ UNCHANGED <<age, keys, messages, due, run, failures>>

\* One interval: a healthy feed writes within its gap, beat sends the next
\* check, which a process begins before the one after, and no check drags on.
Tick ==
  /\ ~due
  /\ \A f \in Feed : up[f] => age[f] < Gap[f]
  /\ \A r \in Run : run[r].lag < MaxLag
  /\ age' = [f \in Feed |-> IF age[f] < Horizon(f) THEN age[f] + 1 ELSE age[f]]
  /\ lock' = [f \in Feed |-> IF lock[f] > 0 THEN lock[f] - 1 ELSE 0]
  /\ run' = [r \in Run |-> IF Active(r) THEN [run[r] EXCEPT !.lag = @ + 1] ELSE run[r]]
  /\ due' = TRUE
  /\ UNCHANGED <<up, steady, outages, down, messages, failures>>

-----------------------------------------------------------------------------
(* One check.                                                              *)

\* compute_staleness: the stamp's age as of the check's own now.
\* [mutant] the boundary counts as stale.
is_staleFromThreshold(r, f) == age[f] - run[r].lag >= Threshold[f]
is_stale(r, f) == age[f] - run[r].lag > Threshold[f]
has_data(f) == age[f] < Ttl[f]

\* A check further on: at a step of a section, with its claim or without.
On(r, pc, at, claimed) ==
  [pc |-> pc, at |-> at, lag |-> run[r].lag, claimed |-> claimed, shared |-> run[r].shared,
   retries |-> run[r].retries]
Go(r, pc) == On(r, pc, run[r].at, run[r].claimed)

\* The next section, or the end of the check.
\* [mutant] there is always a next one.
NextSectionPast(r) == On(r, "read", run[r].at + 1, FALSE)
\* [mutant] the first section ends the check.
NextSectionReturn(r) == IdleRun
NextSection(r) ==
  IF run[r].at < Len(Section)
  THEN On(r, "read", run[r].at + 1, FALSE)
  ELSE IdleRun

\* The task begins, from beat or again after a retry or redelivery.
Begin(r) ==
  /\ run' = [q \in Run |->
       IF q = r THEN Fresh("read", Others(r) # {}, run[r].retries)
       ELSE IF Active(q) THEN [run[q] EXCEPT !.shared = TRUE] ELSE run[q]]
  /\ doubt' = [f \in Feed |-> doubt[f] \/ Others(r) # {}]
  /\ UNCHANGED <<feeds, keys, told, failures>>

check_pipeline_health(r) ==
  /\ due /\ run[r].pc = "idle"
  /\ due' = FALSE
  /\ Begin(r)

Retry(r) ==
  /\ run[r].pc = "waiting"
  /\ Begin(r)
  /\ UNCHANGED due

\* MGET of the canaries.  Without quotes the whole check ends here; without
\* data of another feed its section does.
Read(r) ==
  LET f == Looking(r)
  IN /\ run[r].pc = "read"
     /\ run' = [run EXCEPT ![r] =
          IF ~has_data(f) THEN IF f = Quotes THEN IdleRun ELSE NextSection(r)
          ELSE Go(r, IF is_stale(r, f) THEN "claim" ELSE "was_down")]
     /\ UNCHANGED <<feeds, keys, messages, due, failures>>

\* SET NX EX on the lock.
Claim(r) ==
  LET f == Looking(r)
  IN /\ run[r].pc = "claim"
     /\ lock' = [lock EXCEPT ![f] = IF @ = 0 THEN Cooldown ELSE @]
     /\ run' = [run EXCEPT ![r] = On(r, "mark", run[r].at, lock[f] = 0)]
     /\ UNCHANGED <<feeds, down, messages, due, failures>>

MarkDown(r) ==
  /\ run[r].pc = "mark"
  /\ down' = [down EXCEPT ![Looking(r)] = TRUE]
  /\ run' = [run EXCEPT ![r] =
       IF run[r].claimed THEN Go(r, "tell_down") ELSE NextSection(r)]
  /\ UNCHANGED <<feeds, lock, messages, due, failures>>

WasDown(r) ==
  /\ run[r].pc = "was_down"
  /\ run' = [run EXCEPT ![r] =
       IF down[Looking(r)] THEN Go(r, "clear_down") ELSE NextSection(r)]
  /\ UNCHANGED <<feeds, keys, messages, due, failures>>

ClearDown(r) ==
  /\ run[r].pc = "clear_down"
  /\ down' = [down EXCEPT ![Looking(r)] = FALSE]
  /\ run' = [run EXCEPT ![r] = Go(r, "clear_lock")]
  /\ UNCHANGED <<feeds, lock, messages, due, failures>>

\* [mutant] recovery leaves the lock to its TTL.
ReleasedKeep(f) == lock
Released(f) == [lock EXCEPT ![f] = 0]

ClearLock(r) ==
  /\ run[r].pc = "clear_lock"
  /\ lock' = Released(Looking(r))
  /\ run' = [run EXCEPT ![r] = Go(r, "tell_recovered")]
  /\ UNCHANGED <<feeds, down, messages, due, failures>>

\* _notify_all, as far as one of the recipients sees it.
Notify(r) ==
  LET f == Looking(r)
  IN /\ run[r].pc \in {"tell_down", "tell_recovered"}
     /\ told' = [told EXCEPT ![f] = IF run[r].pc = "tell_down" THEN "down" ELSE "recovered"]
     /\ doubt' = [doubt EXCEPT ![f] = run[r].shared]
     /\ run' = [run EXCEPT ![r] = NextSection(r)]
     /\ UNCHANGED <<feeds, keys, due, failures>>

\* What a failure between the first write of a section and its message leaves.
Interrupted(r) ==
  [doubt EXCEPT ![Looking(r)] = @ \/ run[r].pc \notin {"read", "was_down", "claim"}]
Failure ==
  /\ failures < MaxFailures
  /\ failures' = failures + 1
  /\ UNCHANGED <<feeds, keys, told, due>>

\* Telegram refuses the message twice: send_telegram_message returns False,
\* which nobody reads.
LoseMessage(r) ==
  /\ Failure
  /\ run[r].pc \in {"tell_down", "tell_recovered"}
  /\ doubt' = Interrupted(r)
  /\ run' = [run EXCEPT ![r] = NextSection(r)]

\* Redis or the database raises: in the section of the quotes the task is
\* retried, until it has no retries left and fails; in the later ones the inner
\* handler ends the check.
Raise(r) ==
  /\ Failure
  /\ Active(r)
  /\ doubt' = Interrupted(r)
  /\ run' = [run EXCEPT ![r] =
       IF Looking(r) = Quotes /\ run[r].retries < MaxRetries
       THEN Fresh("waiting", FALSE, run[r].retries + 1)
       ELSE IdleRun]

\* The process is killed; acks_late: the same message is delivered again.
Kill(r) ==
  /\ Failure
  /\ Active(r)
  /\ doubt' = Interrupted(r)
  /\ run' = [run EXCEPT ![r] = Fresh("waiting", FALSE, run[r].retries)]

Check(r) ==
  \/ check_pipeline_health(r) \/ Retry(r) \/ Read(r)
  \/ Claim(r) \/ MarkDown(r) \/ WasDown(r) \/ ClearDown(r) \/ ClearLock(r)
  \/ Notify(r)

Next ==
  \/ Tick
  \/ \E f \in Feed : Refresh(f) \/ Outage(f)
  \/ \E r \in Run : Check(r) \/ LoseMessage(r) \/ Raise(r) \/ Kill(r)

\* Beat and the processes do not stop, and a healthy feed goes on writing.
Fairness ==
  /\ WF_vars(Tick)
  /\ \A f \in Feed : WF_vars(up[f] /\ age[f] > 0 /\ Refresh(f))
  /\ \A r \in Run : WF_vars(Check(r))

Spec == Init /\ [][Next]_vars /\ Fairness

-----------------------------------------------------------------------------
(* Properties.                                                             *)

\* Type correctness of feeds, keys and checks.
TypeOK ==
  /\ up \in [Feed -> BOOLEAN] /\ steady \in [Feed -> BOOLEAN]
  /\ age \in [Feed -> Nat] /\ \A f \in Feed : age[f] <= Horizon(f)
  /\ lock \in [Feed -> 0 .. Cooldown]
  /\ down \in [Feed -> BOOLEAN] /\ doubt \in [Feed -> BOOLEAN] /\ due \in BOOLEAN
  /\ told \in [Feed -> {"nothing", "down", "recovered"}]
  /\ run \in [Run ->
       [pc : {"idle", "waiting", "read", "claim", "mark", "tell_down", "was_down",
              "clear_down", "clear_lock", "tell_recovered"},
        at : DOMAIN Section, lag : 0 .. MaxLag, claimed : BOOLEAN, shared : BOOLEAN,
        retries : 0 .. MaxRetries]]
  /\ outages \in 0 .. MaxOutages /\ failures \in 0 .. MaxFailures

\* "A detector nobody trusts is worse": nobody is told that a feed stopped, nor
\* that it recovered, while it has never failed, whatever overlaps or crashes.
NoFalseAlarm == \A f \in Feed : steady[f] => told[f] = "nothing" /\ ~down[f]

\* Between checks the last message about a feed is the truth about its state:
\* a new outage is told even within the cooldown of one that ended, and a
\* recovery is told once.  Only a lost message or an overlap may break this,
\* and the next message of a check of its own mends it.
LastMessageTells ==
  (\A r \in Run : run[r].pc = "idle") =>
    \A f \in Feed : ~doubt[f] => (told[f] = "down" <=> down[f])

\* "ALERTED": an outage of a feed whose keys outlive its threshold is told,
\* lost messages, retries and overlapping checks included, as long as every
\* check finds a quote.
QuotesAreSeen ==
  \A r \in Run : run[r].pc = "read" /\ run[r].at = 1 => has_data(Quotes)
Measured(f) == ~up[f] /\ has_data(f)
OutageIsToldIfSeen ==
  []QuotesAreSeen =>
    \A f \in Feed : Ttl[f] > Threshold[f] =>
      (Measured(f) ~> (up[f] \/ told[f] = "down"))

\* The module's promise, "detect a stalled price-ingest pipeline and tell the
\* user": once quotes stop, the user is told.
QuoteOutageIsTold == Measured(Quotes) ~> (up[Quotes] \/ told[Quotes] = "down")
=============================================================================
