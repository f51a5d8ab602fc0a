------------------------------ MODULE Digests ------------------------------
(***************************************************************************)
(* send_sr_proximity_digest and send_gap_list_digest: a daily task that    *)
(* claims its day with a key that lives six hours, reads the book and the  *)
(* quotes, and sends each user one message.  Between the steps of a run    *)
(* the worker may raise, be killed (acks_late: the task comes again) or be *)
(* started by hand.  Time passes in ticks of a few hours; workers may be   *)
(* down for many of them.                                                  *)
(***************************************************************************)
EXTENDS DigestContent

CONSTANTS
  Workers,      \* the number of the worker's processes
  User, Symbol,
  Desk,         \* what the tables may hold when the behaviour starts
  Snapshot,     \* what the caches may hold when a run reads them
  OpenAt,       \* symbol -> ticks of the day its market is open
  DayLength,    \* ticks of a day
  BeatAt,       \* slot -> tick of the ICT day beat sends it
  Behind,       \* slot -> ticks its market's calendar is behind ICT
  FirstWeekday, \* weekday of the first day, Monday is 0
  LockTtl,      \* RUN_LOCK_TTL_SECONDS, in ticks
  NoJob,
  MaxTime,      \* bound: the last tick
  MaxTriggers,  \* bound: tasks started by hand
  MaxFailures   \* bound: failures of a behaviour

Worker == 1 .. Workers
Slot == DOMAIN BeatAt
Day == 0 .. MaxTime \div DayLength
MaxRetries == 2
Attempts == 2

ASSUME DigestAssumption ==
  /\ Workers \in Nat /\ DayLength \in Nat \ {0} /\ LockTtl \in Nat \ {0}
  /\ MaxTime \in Nat /\ MaxTriggers \in Nat /\ MaxFailures \in Nat
  /\ FirstWeekday \in 0 .. 6
  /\ \A s \in Slot : BeatAt[s] \in 0 .. DayLength - 1 /\ Behind[s] \in Nat
ASSUME TablesAssumption ==
  \A d \in Desk :
    /\ d.linked \subseteq User
    /\ \A u \in User : /\ d.watch[u] \cup d.held[u] \subseteq Symbol
                      /\ IsFiniteSet(d.watch[u] \cup d.held[u])
                      /\ d.minimum[u] \in Int \cup {NoMinimum}
    /\ \A s \in Symbol : /\ IsFiniteSet(d.levels[s])
                        /\ \A l \in d.levels[s] : l.price \in Int
ASSUME CacheAssumption ==
  \A c \in Snapshot : /\ c.quote \in [Symbol -> Quote \cup {NoQuote}]
                      /\ c.fund \in [Symbol -> Int \cup {NoQuote}]

VARIABLES
  time,
  desk,      \* [linked, watch, held, minimum, levels]
  jobs,      \* tasks in the queue
  run,       \* what each process executes
  lock,      \* slot and day -> the tick its key expires; 0 without a key
  \* history, per slot and ICT day
  wanted,    \* a run came to its claim
  claims,    \* the ticks of the claims
  tried,     \* the users a run turned to
  got,       \* the messages each user received
  unsure,    \* users for whom a delivered POST was reported as failed
  spoiled,   \* a run failed between its claim and its end
  triggers, failures

history == <<wanted, claims, tried, got, unsure, spoiled>>
budget == <<triggers, failures>>
vars == <<time, desk, jobs, run, lock, history, budget>>

IdleRun == [pc |-> "idle", job |-> NoJob, day |-> 0,
            quotes |-> [s \in Symbol |-> NoQuote], todo |-> {}, at |-> Nobody, attempt |-> 1]
Active(w) == run[w].pc # "idle"
Key(w) == <<run[w].job.slot, run[w].day>>

\* The ICT date of a run, and whether the slot's market has a session that day.
IctDay(t) == t \div DayLength
is_trading_day_for_slot(slot, t) ==
  (FirstWeekday + ((t - Behind[slot]) \div DayLength)) % 7 < 5

\* [mutant] the key names the day only.
LockKeyOfDay(slot, day) == <<CHOOSE s \in Slot : TRUE, day>>
LockKey(slot, day) == <<slot, day>>

\* [mutant] SET without NX.
FreeAlways(key) == TRUE
Free(key) == lock[key] <= time

\* watchlist and open holdings; the proximity digest knows only the watchlist.
Book(slot, user) ==
  desk.watch[user] \cup (IF slot = "gap_list" THEN desk.held[user] ELSE {})
\* [mutant] whoever is linked.
EligibleLinked(slot) == desk.linked
Eligible(slot) == {u \in desk.linked : Book(slot, u) # {}}
_is_market_open_for(t) == {s \in Symbol : t % DayLength \in OpenAt[s]}

Init ==
  /\ time = 0
  /\ desk \in Desk
  /\ jobs = {}
  /\ run = [w \in Worker |-> IdleRun]
  /\ lock = [k \in Slot \X Day |-> 0]
  /\ wanted = {} /\ claims = [k \in Slot \X Day |-> {}]
  /\ tried = {} /\ got = [k \in Slot \X Day |-> [u \in User |-> 0]]
  /\ unsure = {} /\ spoiled = {}
  /\ triggers = 0 /\ failures = 0

-----------------------------------------------------------------------------
(* Beat, and the hand that starts a task once more.                        *)

\* No run lasts for hours; a queued task may wait that long.
Tick ==
  /\ time < MaxTime
  /\ \A w \in Worker : ~Active(w)
  /\ time' = time + 1
  /\ jobs' = jobs \cup {[slot |-> s, sent |-> time', byhand |-> FALSE, retries |-> 0] :
                          s \in {x \in Slot : BeatAt[x] = time' % DayLength}}
  /\ UNCHANGED <<desk, run, lock, history, budget>>

Trigger(slot) ==
  /\ triggers < MaxTriggers
  /\ triggers' = triggers + 1
  /\ jobs' = jobs \cup {[slot |-> slot, sent |-> time, byhand |-> TRUE, retries |-> 0]}
  /\ UNCHANGED <<time, desk, run, lock, history, failures>>

-----------------------------------------------------------------------------
(* A run.                                                                  *)

\* The gate comes before everything, the claim before every read.  The
\* processes are alike: the first idle one takes the task.
Begin(w, job) ==
  /\ ~Active(w) /\ job \in jobs
  /\ \A v \in 1 .. w - 1 : Active(v)
  /\ jobs' = jobs \ {job}
  /\ IF is_trading_day_for_slot(job.slot, time)
     THEN run' = [run EXCEPT ![w] = [IdleRun EXCEPT !.pc = "claim", !.job = job,
                                       !.day = IctDay(time)]]
     ELSE UNCHANGED run
  /\ UNCHANGED <<time, desk, lock, history, budget>>

Claim(w) ==
  LET key == LockKey(run[w].job.slot, run[w].day)
  IN /\ run[w].pc = "claim"
     /\ wanted' = wanted \cup {Key(w)}
     /\ IF Free(key)
        THEN /\ lock' = [lock EXCEPT ![key] = time + LockTtl]
             /\ claims' = [claims EXCEPT ![Key(w)] = @ \cup {time}]
             /\ run' = [run EXCEPT ![w].pc = "load"]
        ELSE /\ run' = [run EXCEPT ![w] = IdleRun]
             /\ UNCHANGED <<lock, claims>>
     /\ UNCHANGED <<time, desk, jobs, tried, got, unsure, spoiled, budget>>

\* The users with their symbols, then the caches.
Load(w) ==
  LET users == Eligible(run[w].job.slot)
  IN /\ run[w].pc = "load"
     /\ \E c \in Snapshot :
          run' = [run EXCEPT ![w] =
            IF users = {} THEN IdleRun
            ELSE [@ EXCEPT !.pc = "send", !.todo = users,
                           !.quotes = [s \in Symbol |-> Resolved(c.quote, c.fund, s)]]]
     /\ UNCHANGED <<time, desk, jobs, lock, history, budget>>

\* The next user, or the end of the run.
NextUser(w, u) ==
  IF run[w].todo = {u} THEN IdleRun
  ELSE [run[w] EXCEPT !.todo = @ \ {u}, !.at = Nobody, !.attempt = 1]

Turn(w, u) ==
  /\ run[w].pc = "send" /\ u \in run[w].todo
  /\ run[w].attempt > 1 => u = run[w].at
  /\ tried' = tried \cup {<<Key(w), u>>}

Delivered(w, u) == [got EXCEPT ![Key(w)][u] = @ + 1]

\* One POST, answered with 200.
Post(w, u) ==
  /\ Turn(w, u)
  /\ got' = Delivered(w, u)
  /\ run' = [run EXCEPT ![w] = NextUser(w, u)]
  /\ UNCHANGED <<time, desk, jobs, lock, wanted, claims, unsure, spoiled, budget>>

Failure == failures < MaxFailures /\ failures' = failures + 1

\* send_telegram_message tries once more, then returns False, which nobody reads.
AfterFailedPost(w, u) ==
  IF run[w].attempt < Attempts THEN [run[w] EXCEPT !.attempt = @ + 1, !.at = u] ELSE NextUser(w, u)

\* An error or a refusal, or a timeout after Telegram accepted the message.
PostFails(w, u) ==
  /\ Failure
  /\ Turn(w, u)
  /\ \/ UNCHANGED <<got, unsure>>
     \/ got' = Delivered(w, u) /\ unsure' = unsure \cup {<<Key(w), u>>}
  /\ run' = [run EXCEPT ![w] = AfterFailedPost(w, u)]
  /\ UNCHANGED <<time, desk, jobs, lock, wanted, claims, spoiled, triggers>>

\* Composing a user's message raises: the others still get theirs.
UserFails(w, u) ==
  /\ Failure
  /\ Turn(w, u) /\ run[w].attempt = 1
  /\ run' = [run EXCEPT ![w] = NextUser(w, u)]
  /\ UNCHANGED <<time, desk, jobs, lock, wanted, claims, got, unsure, spoiled, triggers>>

Spoils(w) ==
  spoiled' = IF run[w].pc = "claim" THEN spoiled ELSE spoiled \cup {Key(w)}

\* Redis or the database raises: self.retry, twice at most.
Raise(w) ==
  /\ Failure
  /\ run[w].pc \in {"claim", "load"}
  /\ Spoils(w)
  /\ jobs' = IF run[w].job.retries < MaxRetries
             THEN jobs \cup {[run[w].job EXCEPT !.retries = @ + 1]} ELSE jobs
  /\ run' = [run EXCEPT ![w] = IdleRun]
  /\ UNCHANGED <<time, desk, lock, wanted, claims, tried, got, unsure, triggers>>

\* The process dies: the task is delivered again.
Kill(w) ==
  /\ Failure
  /\ Active(w)
  /\ Spoils(w)
  /\ jobs' = jobs \cup {run[w].job}
  /\ run' = [run EXCEPT ![w] = IdleRun]
  /\ UNCHANGED <<time, desk, lock, wanted, claims, tried, got, unsure, triggers>>

Go(w) ==
  \/ \E job \in jobs : Begin(w, job)
  \/ Claim(w)
  \/ Load(w)
  \/ \E u \in User : Post(w, u)

Next ==
  \/ Tick
  \/ \E s \in Slot : Trigger(s)
  \/ \E w \in Worker : Go(w) \/ Raise(w) \/ Kill(w)
  \/ \E w \in Worker, u \in User : PostFails(w, u) \/ UserFails(w, u)

\* The worker executes what is queued and finishes what it began.
Spec == Init /\ [][Next]_vars /\ \A w \in Worker : WF_vars(Go(w))

-----------------------------------------------------------------------------
(* Properties.                                                             *)

\* Type correctness of queue, runs, keys and log.
TypeOK ==
  /\ time \in 0 .. MaxTime
  /\ \A j \in jobs : /\ j.slot \in Slot /\ j.sent \in 0 .. MaxTime
                     /\ j.byhand \in BOOLEAN /\ j.retries \in 0 .. MaxRetries
  /\ \A w \in Worker : /\ run[w].pc \in {"idle", "claim", "load", "send"}
                       /\ run[w].todo \subseteq desk.linked
                       /\ \A u \in run[w].todo : Book(run[w].job.slot, u) # {}
                       /\ run[w].attempt \in 1 .. Attempts
                       /\ Active(w) => run[w].day = IctDay(time)
  /\ lock \in [Slot \X Day -> 0 .. MaxTime + LockTtl]
  /\ wanted \subseteq Slot \X Day /\ spoiled \subseteq Slot \X Day
  /\ \A k \in Slot \X Day : \A u \in User : got[k][u] \in Nat

\* "one day, one message": retries, redeliveries and tasks started by hand send
\* a user a slot's digest once per ICT day.  A POST whose answer was lost may
\* double it, and so may a run six hours after the first: the key is gone.
OneDayOneMessage ==
  \A k \in Slot \X Day : \A u \in User :
    \/ got[k][u] <= 1
    \/ <<k, u>> \in unsure
    \/ \E a, b \in claims[k] : b - a >= LockTtl

\* A day that is claimed, or found claimed by a retry, a redelivery or another
\* run, comes to every eligible user in the end, whatever happens to the others'
\* messages.  Only a failure between the claim and the end of its run may prevent
\* it: the retry finds the day claimed.
EveryoneGetsATurn ==
  \A k \in Slot \X Day :
    k \in wanted ~> (k \in spoiled \/ {<<k, u>> : u \in Eligible(k[1])} \subseteq tried)

\* A run that has read everything its messages are made of.
Composing(w, slot) ==
  run[w].pc = "send" /\ run[w].job.slot = slot /\ run[w].todo = Eligible(slot)

\* What a proximity message says of the levels within reach of a price: each of a
\* symbol it shows, or one of its kind that is no farther, is a line; a symbol it
\* cuts has none closer than each symbol shown has one; and every symbol with a
\* level in reach is shown or counted, the cut ones only in a full message.
ShowsTheNearest(m, lines, reach, q) ==
  /\ m.shown \subseteq DOMAIN reach
  /\ \A s \in m.shown : \A l \in reach[s] : \E line \in lines[s] :
       line.level_type = l.level_type /\ ~Nearer(q[s].price, l, line)
  /\ \A s \in DOMAIN reach \ m.shown : \A l \in reach[s] : \A t \in m.shown :
       \E line \in lines[t] : ~CloserTo(q[s].price, l, q[t].price, line)
  /\ Cardinality(m.shown) + m.more = Cardinality({s \in DOMAIN reach : reach[s] # {}})
  /\ m.more > 0 => Cardinality(m.shown) = MaxSymbols

\* The nearest level of each kind within reach of the price is always in the
\* digest, whatever is collapsed into it, unless the length guard cut its symbol,
\* which is counted then and no nearer to a level than any symbol shown.
Reach(u, q) ==
  [s \in desk.watch[u] |->
     IF q[s] = NoQuote THEN {} ELSE InRange(desk.levels[s], q[s].price, u)]
NearestIsShown ==
  \A w \in Worker : Composing(w, "set_open") =>
    \A u \in run[w].todo :
      LET q == run[w].quotes
          lines == compute_proximity_for_user(desk.watch[u], desk.levels, q, u)
      IN ShowsTheNearest(build_digest_message(lines, q), lines, Reach(u, q), q)

\* A message leaves no symbol of the book out: it shows at most MaxRows, counts
\* what it cut, and every other symbol is named with its reason, a fund or below
\* the minimum, one of these only, none of those it cut having moved more than one
\* it shows.
LeavesNoneOut(m, book, q, minimum) ==
  LET named == m.excluded.missed \cup m.excluded.market_closed
      funds == {s \in book : q[s] # NoQuote /\ q[s].type = "fund_nav"}
      below == {s \in book \ funds : /\ q[s] # NoQuote /\ q[s].price > 0
                                     /\ minimum # NoMinimum
                                     /\ Dist(q[s].change, 0) < minimum}
  IN /\ Len(m.shown) <= MaxRows
     /\ Len(m.shown) + m.more + Cardinality(named \cup funds \cup below) = m.book_count
     /\ ToSet(m.shown) \cap (named \cup funds \cup below) = {}
     /\ named \cap (funds \cup below) = {}
     /\ \A s \in book \ (named \cup funds \cup below \cup ToSet(m.shown)) :
          \A t \in ToSet(m.shown) : Dist(q[s].change, 0) <= Dist(q[t].change, 0)

\* Every symbol of the book is exactly one of: listed, cut by the length guard
\* and counted, below the user's own minimum, a fund, or named with the reason
\* its price is missing; and the guard cuts no bigger mover than it leaves.
BookIsAccountedFor ==
  \A w \in Worker : Composing(w, "gap_list") =>
    \A u \in run[w].todo :
      LET book == Book("gap_list", u)
          m == build_gap_list_message(book, run[w].quotes, desk.minimum[u],
                                      _is_market_open_for(time))
      IN LeavesNoneOut(m, book, run[w].quotes, desk.minimum[u])
=============================================================================
