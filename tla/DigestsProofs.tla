---------------------------- MODULE DigestsProofs ----------------------------
(***************************************************************************)
(* Proofs about Digests for every number of processes, any users, symbols, *)
(* slots, times of day and days, any life of the key and any number of     *)
(* failures and tasks started by hand: the lock and the claims first, then *)
(* what a digest says of a book and of its levels.                         *)
(***************************************************************************)
EXTENDS Digests, FiniteSetTheorems, WellFoundedInduction, TLAPS

\* A task, and what a process executes.
TaskOf == [slot : Slot, sent : 0 .. MaxTime, byhand : BOOLEAN, retries : 0 .. MaxRetries]
RunState ==
  [pc : {"idle", "claim", "load", "send"}, job : TaskOf \cup {NoJob}, day : Day,
   quotes : [Symbol -> Quote \cup {NoQuote}], todo : SUBSET User,
   at : User \cup {Nobody}, attempt : 1 .. Attempts]

\* A process that does something has a task of today.
RunTyped(w) ==
  /\ Active(w) => run[w].job \in TaskOf /\ run[w].day = IctDay(time)
  /\ run[w].pc # "send" => run[w].todo = {}
  /\ run[w].todo \subseteq desk.linked
  /\ \A u \in run[w].todo : Book(run[w].job.slot, u) # {}

TypeInv ==
  /\ time \in 0 .. MaxTime
  /\ desk \in Desk
  /\ jobs \subseteq TaskOf
  /\ run \in [Worker -> RunState]
  /\ \A w \in Worker : RunTyped(w)
  /\ lock \in [Slot \X Day -> 0 .. MaxTime + LockTtl]
  /\ claims \in [Slot \X Day -> SUBSET (0 .. MaxTime)]
  /\ wanted \subseteq Slot \X Day /\ spoiled \subseteq Slot \X Day
  /\ got \in [Slot \X Day -> [User -> Nat]]

-----------------------------------------------------------------------------
(* Days.                                                                   *)

LEMMA DayOfTime ==
  ASSUME NEW t \in 0 .. MaxTime
  PROVE  IctDay(t) \in Day
<1>1. DayLength \in Nat /\ DayLength > 0 /\ MaxTime \in Nat
  BY DigestAssumption
<1>2. \A n \in Nat, d \in Nat : d > 0 => /\ n \div d \in Nat
                                        /\ d * (n \div d) <= n /\ n < d * (n \div d) + d
  OBVIOUS
<1> DEFINE p == t \div DayLength
           q == MaxTime \div DayLength
<1>3. /\ p \in Nat /\ q \in Nat
      /\ DayLength * p <= t /\ MaxTime < DayLength * q + DayLength
  BY <1>1, <1>2
<1> HIDE DEF p, q
<1>4. p <= q
  <2>1. CASE q < p
    <3>1. DayLength * (q + 1) <= DayLength * p
      BY <1>1, <1>3, <2>1
    <3> QED
      BY <1>1, <1>3, <3>1
  <2> QED
    BY <1>3, <2>1
<1> QED
  BY <1>3, <1>4 DEF IctDay, Day, p, q

-----------------------------------------------------------------------------
(* What the steps of a run make of it.                                     *)

LEMMA IdleTyped ==
  /\ IdleRun \in RunState /\ IdleRun.pc = "idle" /\ IdleRun.todo = {}
  /\ \A j \in TaskOf, d \in Day :
       LET r == [IdleRun EXCEPT !.pc = "claim", !.job = j, !.day = d]
       IN r \in RunState /\ r.pc = "claim" /\ r.job = j /\ r.day = d /\ r.todo = {}
<1>1. 0 \in Day
  BY DayOfTime, DigestAssumption DEF IctDay, Day
<1>2. IdleRun \in RunState /\ IdleRun.pc = "idle" /\ IdleRun.todo = {}
  BY <1>1 DEF IdleRun, RunState, Attempts
<1>3. ASSUME NEW j \in TaskOf, NEW d \in Day
      PROVE  LET r == [IdleRun EXCEPT !.pc = "claim", !.job = j, !.day = d]
             IN r \in RunState /\ r.pc = "claim" /\ r.job = j /\ r.day = d /\ r.todo = {}
  <2> HIDE DEF IdleRun
  <2> QED
    BY <1>2 DEF RunState
<1> QED
  BY <1>2, <1>3

LEMMA ClaimedRun ==
  ASSUME NEW r \in RunState
  PROVE  LET c == [r EXCEPT !.pc = "load"]
         IN /\ c \in RunState /\ c.pc = "load" /\ c.job = r.job /\ c.day = r.day
            /\ c.todo = r.todo
BY DEF RunState

LEMMA ResolvedTyped ==
  ASSUME NEW c \in Snapshot
  PROVE  [s \in Symbol |-> Resolved(c.quote, c.fund, s)] \in [Symbol -> Quote \cup {NoQuote}]
<1> SUFFICES ASSUME NEW s \in Symbol
             PROVE  Resolved(c.quote, c.fund, s) \in Quote \cup {NoQuote}
  OBVIOUS
<1>1. c.quote[s] \in Quote \cup {NoQuote} /\ c.fund[s] \in Int \cup {NoQuote}
  BY CacheAssumption
<1>2. \A n \in Int : [type |-> "fund_nav", price |-> n, change |-> 0] \in Quote
  BY DEF Quote
<1> QED
  BY <1>1, <1>2 DEF Resolved, fund_payload_to_quote

\* The run after a user's turn.
Remains(c, w, u) ==
  /\ c \in RunState
  /\ c.pc = "idle" => c.todo = {}
  /\ c.pc # "idle" => /\ c.pc = run[w].pc /\ c.job = run[w].job /\ c.day = run[w].day
                      /\ c.todo = run[w].todo \ {u}

LEMMA NextUserTyped ==
  ASSUME NEW w \in Worker, run[w] \in RunState, NEW u \in User, run[w].pc = "send"
  PROVE  Remains(NextUser(w, u), w, u)
<1> DEFINE rest == run[w].todo \ {u}
           c == [run[w] EXCEPT !.todo = rest, !.at = Nobody, !.attempt = 1]
<1>0. rest \in SUBSET User /\ 1 \in 1 .. Attempts
  BY DEF RunState, Attempts
<1> HIDE DEF rest
<1>1. /\ c \in RunState /\ c.pc = run[w].pc /\ c.job = run[w].job /\ c.day = run[w].day
      /\ c.todo = run[w].todo \ {u}
  BY <1>0 DEF RunState, rest
<1> HIDE DEF c
<1>2. NextUser(w, u) = IF run[w].todo = {u} THEN IdleRun ELSE c
  BY DEF NextUser, c, rest
<1> QED
  BY <1>1, <1>2, IdleTyped DEF Remains

LEMMA FailedPostTyped ==
  ASSUME NEW w \in Worker, run[w] \in RunState, NEW u \in User, run[w].pc = "send"
  PROVE  LET c == AfterFailedPost(w, u)
         IN \/ Remains(c, w, u)
            \/ /\ c \in RunState /\ c.pc = run[w].pc /\ c.job = run[w].job
               /\ c.day = run[w].day /\ c.todo = run[w].todo
<1> DEFINE c == [run[w] EXCEPT !.attempt = @ + 1, !.at = u]
<1>1. CASE run[w].attempt < Attempts
  <2>1. run[w].attempt + 1 \in 1 .. Attempts
    BY <1>1 DEF RunState, Attempts
  <2>2. /\ c \in RunState /\ c.pc = run[w].pc /\ c.job = run[w].job /\ c.day = run[w].day
        /\ c.todo = run[w].todo
    BY <2>1 DEF RunState
  <2> HIDE DEF c
  <2>3. AfterFailedPost(w, u) = c
    BY <1>1 DEF AfterFailedPost, c
  <2> QED
    BY <2>2, <2>3
<1>2. CASE ~(run[w].attempt < Attempts)
  BY <1>2, NextUserTyped DEF AfterFailedPost
<1> QED
  BY <1>1, <1>2

\* What a step may make of the run of w.
Follows(c, w) ==
  /\ c \in RunState /\ run' = [run EXCEPT ![w] = c] /\ Active(w)
  /\ c.pc # "send" => c.todo = {}
  /\ c.pc # "idle" => c.job = run[w].job /\ c.day = run[w].day
  /\ c.pc # "claim"
  /\ c.pc = "load" => run[w].pc = "claim" /\ Free(Key(w))
  /\ c.pc = "send" => \/ run[w].pc = "load" /\ c.todo = Eligible(run[w].job.slot)
                      \/ run[w].pc = "send" /\ c.todo \subseteq run[w].todo

LEMMA TodoOfSend ==
  ASSUME TypeInv, NEW w \in Worker
  PROVE  /\ run[w] \in RunState /\ desk.linked \subseteq User
         /\ Active(w) => Key(w) \in Slot \X Day
BY TablesAssumption DEF TypeInv, RunState, RunTyped, TaskOf, Key

LEMMA ClaimFollows ==
  ASSUME TypeInv, NEW w \in Worker, Claim(w)
  PROVE  \E c : Follows(c, w) /\ (Free(Key(w)) <=> c.pc = "load")
<1> DEFINE c == [run[w] EXCEPT !.pc = "load"]
<1>1. run[w] \in RunState /\ Active(w) /\ run[w].todo = {}
  BY DEF TypeInv, Claim, Active, RunTyped
<1>2. /\ c \in RunState /\ c.pc = "load" /\ c.job = run[w].job /\ c.day = run[w].day
      /\ c.todo = {}
  BY <1>1, ClaimedRun
<1>3. CASE Free(Key(w))
  <2>1. run' = [run EXCEPT ![w] = c]
    BY <1>3 DEF Claim, LockKey, Key
  <2> HIDE DEF c
  <2> QED
    BY <1>1, <1>2, <1>3, <2>1 DEF Follows, Claim
<1>4. CASE ~Free(Key(w))
  BY <1>1, <1>4, IdleTyped DEF Claim, LockKey, Key, Follows
<1> QED
  BY <1>3, <1>4

LEMMA LoadFollows ==
  ASSUME TypeInv, NEW w \in Worker, Load(w)
  PROVE  \E c : Follows(c, w)
<1> DEFINE users == Eligible(run[w].job.slot)
<1>1. run[w] \in RunState /\ Active(w) /\ users \in SUBSET User
  BY TodoOfSend DEF TypeInv, Load, Active, Eligible
<1>2. PICK snap \in Snapshot :
        run' = [run EXCEPT ![w] =
          IF users = {} THEN IdleRun
          ELSE [run[w] EXCEPT !.pc = "send", !.todo = users,
                  !.quotes = [s \in Symbol |-> Resolved(snap.quote, snap.fund, s)]]]
  BY DEF Load
<1> DEFINE q == [s \in Symbol |-> Resolved(snap.quote, snap.fund, s)]
<1>3. q \in [Symbol -> Quote \cup {NoQuote}]
  BY ResolvedTyped
<1> HIDE DEF q, users
<1> DEFINE c == [run[w] EXCEPT !.pc = "send", !.todo = users, !.quotes = q]
<1>4. /\ c \in RunState /\ c.pc = "send" /\ c.job = run[w].job /\ c.day = run[w].day
      /\ c.todo = users
  BY <1>1, <1>3 DEF RunState
<1>5. run' = [run EXCEPT ![w] = IF users = {} THEN IdleRun ELSE c]
  BY <1>2 DEF q
<1> HIDE DEF c
<1>6. CASE users = {}
  BY <1>1, <1>5, <1>6, IdleTyped DEF Follows
<1>7. CASE users # {}
  BY <1>1, <1>4, <1>5, <1>7 DEF Follows, users, Load
<1> QED
  BY <1>6, <1>7

LEMMA TurnFollows ==
  ASSUME TypeInv, NEW w \in Worker, NEW u \in User, Turn(w, u),
         run' = [run EXCEPT ![w] = NextUser(w, u)] \/ run' = [run EXCEPT ![w] = AfterFailedPost(w, u)]
  PROVE  \E c : Follows(c, w)
<1>1. run[w] \in RunState /\ Active(w) /\ run[w].pc = "send"
  BY DEF TypeInv, Turn, Active
<1>2. ASSUME NEW c, Remains(c, w, u), run' = [run EXCEPT ![w] = c]
      PROVE  Follows(c, w)
  BY <1>1, <1>2 DEF Remains, Follows
<1>3. CASE run' = [run EXCEPT ![w] = NextUser(w, u)]
  BY <1>1, <1>2, <1>3, NextUserTyped
<1>4. CASE run' = [run EXCEPT ![w] = AfterFailedPost(w, u)]
  <2> DEFINE c == AfterFailedPost(w, u)
  <2>1. \/ Remains(c, w, u)
        \/ /\ c \in RunState /\ c.pc = run[w].pc /\ c.job = run[w].job
           /\ c.day = run[w].day /\ c.todo = run[w].todo
    BY <1>1, FailedPostTyped
  <2> HIDE DEF c
  <2>2. run' = [run EXCEPT ![w] = c]
    BY <1>4 DEF c
  <2> QED
    BY <1>1, <1>2, <2>1, <2>2 DEF Follows
<1> QED
  BY <1>3, <1>4

LEMMA FailFollows ==
  ASSUME TypeInv, NEW w \in Worker, Raise(w) \/ Kill(w)
  PROVE  Follows(IdleRun, w)
BY IdleTyped DEF Raise, Kill, Active, Follows

\* The typing of the runs after such a step.
LEMMA RunsAfter ==
  ASSUME TypeInv, NEW w \in Worker, NEW c, Follows(c, w), UNCHANGED <<time, desk>>
  PROVE  run' \in [Worker -> RunState] /\ \A v \in Worker : RunTyped(v)'
<1>1. run' \in [Worker -> RunState] /\ run'[w] = c /\ \A v \in Worker \ {w} : run'[v] = run[v]
  BY DEF Follows, TypeInv
<1>2. ASSUME NEW v \in Worker \ {w}
      PROVE  RunTyped(v)'
  BY <1>1 DEF TypeInv, RunTyped, Active, Book
<1>3. RunTyped(w)'
  <2>1. RunTyped(w) /\ Active(w)
    BY DEF TypeInv, Follows
  <2>2. c.pc # "idle" => c.job \in TaskOf /\ c.day = IctDay(time) /\ c.job = run[w].job
    BY <2>1 DEF Follows, RunTyped
  <2>3. \A u \in c.todo : u \in desk.linked /\ Book(c.job.slot, u) # {}
    <3>1. CASE c.pc = "send" /\ run[w].pc = "load"
      BY <2>2, <3>1 DEF Follows, Eligible
    <3>2. CASE c.pc = "send" /\ run[w].pc # "load"
      BY <2>1, <2>2, <3>2 DEF Follows, RunTyped
    <3>3. CASE c.pc # "send"
      BY <3>3 DEF Follows, RunState
    <3> QED
      BY <3>1, <3>2, <3>3
  <2>4. Active(w)' => run'[w].job \in TaskOf /\ run'[w].day = IctDay(time')
    BY <1>1, <2>2 DEF Active
  <2>5. run'[w].pc # "send" => run'[w].todo = {}
    BY <1>1 DEF Follows
  <2>6. (/\ run[w].todo \subseteq desk.linked
         /\ \A u \in run[w].todo : Book(run[w].job.slot, u) # {})'
    BY <1>1, <2>3 DEF Book
  <2> QED
    BY <2>4, <2>5, <2>6 DEF RunTyped, IctDay
<1> QED
  BY <1>1, <1>2, <1>3

-----------------------------------------------------------------------------
(* Type correctness.                                                       *)

LEMMA InitTyped == Init => TypeInv
<1> SUFFICES ASSUME Init
             PROVE  TypeInv
  OBVIOUS
<1>1. run \in [Worker -> RunState] /\ \A w \in Worker : RunTyped(w)
  BY IdleTyped DEF Init, RunTyped, Active
<1>2. time \in 0 .. MaxTime /\ 0 \in 0 .. MaxTime + LockTtl
  BY DigestAssumption DEF Init
<1> QED
  BY <1>1, <1>2 DEF Init, TypeInv

LEMMA NextTyped == TypeInv /\ [Next]_vars => TypeInv'
<1> SUFFICES ASSUME TypeInv, [Next]_vars
             PROVE  TypeInv'
  OBVIOUS
<1> USE DigestAssumption
<1>1. CASE Tick
  <2>1. time' \in 0 .. MaxTime /\ MaxRetries \in Nat
    BY <1>1 DEF Tick, TypeInv, MaxRetries
  <2> DEFINE beat(s) == [slot |-> s, sent |-> time', byhand |-> FALSE, retries |-> 0]
  <2>4. \A s \in Slot : beat(s) \in TaskOf
    BY <2>1 DEF TaskOf, MaxRetries
  <2>5. \A j \in jobs' : j \in jobs \/ \E s \in Slot : j = beat(s)
    BY <1>1 DEF Tick
  <2> HIDE DEF beat
  <2>2. jobs' \subseteq TaskOf
    BY <2>4, <2>5 DEF TypeInv
  <2>3. \A w \in Worker : RunTyped(w)'
    BY <1>1 DEF Tick, TypeInv, RunTyped, Active, Book
  <2> QED
    BY <1>1, <2>1, <2>2, <2>3 DEF Tick, TypeInv, history
<1>2. ASSUME NEW s \in Slot, Trigger(s)
      PROVE  TypeInv'
  <2> DEFINE task == [slot |-> s, sent |-> time, byhand |-> TRUE, retries |-> 0]
  <2>3. task \in TaskOf
    BY DEF TypeInv, TaskOf, MaxRetries
  <2>4. jobs' = jobs \cup {task}
    BY <1>2 DEF Trigger
  <2> HIDE DEF task
  <2>1. jobs' \subseteq TaskOf
    BY <2>3, <2>4 DEF TypeInv
  <2>2. \A w \in Worker : RunTyped(w)'
    BY <1>2 DEF Trigger, TypeInv, RunTyped, Active, Book
  <2> QED
    BY <1>2, <2>1, <2>2 DEF Trigger, TypeInv, history
<1>3. ASSUME NEW w \in Worker, NEW job \in jobs, Begin(w, job)
      PROVE  TypeInv'
  <2> DEFINE c == [IdleRun EXCEPT !.pc = "claim", !.job = job, !.day = IctDay(time)]
  <2>1. job \in TaskOf /\ IctDay(time) \in Day
    BY DayOfTime DEF TypeInv
  <2>2. /\ c \in RunState /\ c.pc = "claim" /\ c.job = job /\ c.day = IctDay(time)
        /\ c.todo = {}
    BY <2>1, IdleTyped
  <2>3. run' = [run EXCEPT ![w] = c] \/ run' = run
    BY <1>3 DEF Begin
  <2> HIDE DEF c
  <2>4. run' \in [Worker -> RunState]
    BY <2>2, <2>3 DEF TypeInv
  <2>5. \A v \in Worker : run'[v] = run[v] \/ run'[v] = c
    BY <2>2, <2>3 DEF TypeInv
  <2>6. UNCHANGED <<time, desk, lock, history>> /\ jobs' \subseteq jobs
    BY <1>3 DEF Begin
  <2>7. \A v \in Worker : RunTyped(v)'
    BY <2>1, <2>2, <2>5, <2>6 DEF TypeInv, RunTyped, Active, Book
  <2> QED
    BY <2>4, <2>6, <2>7 DEF TypeInv, history
<1>4. ASSUME NEW w \in Worker, Claim(w)
      PROVE  TypeInv'
  <2>1. PICK c : Follows(c, w)
    BY <1>4, ClaimFollows
  <2>2. UNCHANGED <<time, desk, jobs, got, spoiled>>
    BY <1>4 DEF Claim
  <2>3. run' \in [Worker -> RunState] /\ \A v \in Worker : RunTyped(v)'
    BY <2>1, <2>2, RunsAfter
  <2>4. Key(w) \in Slot \X Day /\ LockKey(run[w].job.slot, run[w].day) = Key(w)
    BY <1>4, TodoOfSend DEF Claim, Active, LockKey, Key
  <2>5. /\ lock' \in [Slot \X Day -> 0 .. MaxTime + LockTtl]
        /\ claims' \in [Slot \X Day -> SUBSET (0 .. MaxTime)]
    <3>1. time + LockTtl \in 0 .. MaxTime + LockTtl /\ time \in 0 .. MaxTime
      BY DEF TypeInv
    <3> QED
      BY <1>4, <2>4, <3>1 DEF Claim, TypeInv
  <2>6. wanted' \subseteq Slot \X Day
    BY <1>4, <2>4 DEF Claim, TypeInv
  <2> QED
    BY <2>2, <2>3, <2>5, <2>6 DEF TypeInv
<1>5. ASSUME NEW w \in Worker, Load(w)
      PROVE  TypeInv'
  <2>1. PICK c : Follows(c, w)
    BY <1>5, LoadFollows
  <2>2. UNCHANGED <<time, desk, jobs, lock, history>>
    BY <1>5 DEF Load
  <2>3. run' \in [Worker -> RunState] /\ \A v \in Worker : RunTyped(v)'
    BY <2>1, <2>2, RunsAfter
  <2> QED
    BY <2>2, <2>3 DEF TypeInv, history
<1>6. ASSUME NEW w \in Worker, NEW u \in User, Post(w, u) \/ PostFails(w, u) \/ UserFails(w, u)
      PROVE  TypeInv'
  <2>1. /\ UNCHANGED <<time, desk, jobs, lock, wanted, claims, spoiled>>
        /\ Turn(w, u)
        /\ got' = got \/ got' = Delivered(w, u)
        /\ run' = [run EXCEPT ![w] = NextUser(w, u)] \/ run' = [run EXCEPT ![w] = AfterFailedPost(w, u)]
    BY <1>6 DEF Post, PostFails, UserFails
  <2>2. PICK c : Follows(c, w)
    BY <2>1, TurnFollows
  <2>3. run' \in [Worker -> RunState] /\ \A v \in Worker : RunTyped(v)'
    BY <2>1, <2>2, RunsAfter
  <2>4. Key(w) \in Slot \X Day
    BY <2>1, TodoOfSend DEF Turn, Active
  <2>5. Delivered(w, u) \in [Slot \X Day -> [User -> Nat]]
    <3> DEFINE k == Key(w)
               g == [got[k] EXCEPT ![u] = @ + 1]
    <3>1. g \in [User -> Nat]
      BY <2>4 DEF TypeInv
    <3>2. Delivered(w, u) = [got EXCEPT ![k] = g]
      BY DEF Delivered
    <3> HIDE DEF k, g
    <3> QED
      BY <3>1, <3>2 DEF TypeInv
  <2> QED
    BY <2>1, <2>3, <2>5 DEF TypeInv
<1>7. ASSUME NEW w \in Worker, Raise(w) \/ Kill(w)
      PROVE  TypeInv'
  <2>1. UNCHANGED <<time, desk, lock, wanted, claims, got>>
    BY <1>7 DEF Raise, Kill
  <2>2. run' \in [Worker -> RunState] /\ \A v \in Worker : RunTyped(v)'
    BY <1>7, <2>1, FailFollows, RunsAfter
  <2>3. Active(w) /\ run[w].job \in TaskOf /\ Key(w) \in Slot \X Day
    BY <1>7, TodoOfSend DEF Raise, Kill, Active, TypeInv, RunTyped
  <2>4. spoiled' \subseteq Slot \X Day
    BY <1>7, <2>3 DEF Raise, Kill, Spoils, TypeInv
  <2>5. jobs' \subseteq TaskOf
    <3> DEFINE again == [run[w].job EXCEPT !.retries = @ + 1]
    <3>1. run[w].job.retries < MaxRetries => again \in TaskOf
      BY <2>3 DEF TaskOf, MaxRetries
    <3> HIDE DEF again
    <3>2. \/ jobs' \subseteq jobs \cup {run[w].job}
          \/ run[w].job.retries < MaxRetries /\ jobs' = jobs \cup {again}
      BY <1>7 DEF Raise, Kill, again
    <3> QED
      BY <2>3, <3>1, <3>2 DEF TypeInv
  <2> QED
    BY <2>1, <2>2, <2>4, <2>5 DEF TypeInv
<1>8. CASE UNCHANGED vars
  BY <1>8 DEF vars, history, TypeInv, RunTyped, Active, Book
<1> QED
  BY <1>1, <1>2, <1>3, <1>4, <1>5, <1>6, <1>7, <1>8 DEF Next, Go

LEMMA AlwaysTyped == Spec => []TypeInv
BY InitTyped, NextTyped, PTL DEF Spec

\* Every reachable state is well typed (the type invariant of Digests): no run
\* outlives its day, and it sends only to linked users with a book.
THEOREM DigestsTyped == Spec => []TypeOK
<1>1. TypeInv => TypeOK
  BY DEF TypeInv, TypeOK, RunTyped, RunState, TaskOf
<1> QED
  BY <1>1, AlwaysTyped, PTL

-----------------------------------------------------------------------------
(* One day, one message.                                                   *)

\* A run past its claim; a key claimed twice, its life or more apart.
Claimed(w) == run[w].pc \in {"load", "send"}
Spread(k) == \E a, b \in claims[k] : b - a >= LockTtl

\* The key is the last claim's.
LastClaim(k) ==
  /\ \A a \in claims[k] : a <= time
  /\ claims[k] # {} => \E a \in claims[k] : lock[k] = a + LockTtl /\ \A b \in claims[k] : b <= a

\* The run claimed its key in this tick and nobody else did; the users it will
\* turn to have no message yet.
Owed(w) ==
  Claimed(w) =>
    /\ time \in claims[Key(w)]
    /\ \A v \in Worker \ {w} : Claimed(v) => Key(v) # Key(w)
    /\ ~Spread(Key(w)) =>
         \A u \in User : run[w].pc = "load" \/ u \in run[w].todo =>
           got[Key(w)][u] = 0 \/ <<Key(w), u>> \in unsure

SentOnce(k) ==
  \A u \in User :
    /\ got[k][u] > 0 => claims[k] # {}
    /\ Spread(k) \/ got[k][u] <= 1 \/ <<k, u>> \in unsure

OnceInv ==
  /\ \A k \in Slot \X Day : LastClaim(k) /\ SentOnce(k)
  /\ \A w \in Worker : Owed(w)

\* A run that is no further than before: claimed, with its key, and nobody new
\* to turn to.
Proceeds(w) ==
  Claimed(w)' =>
    /\ Claimed(w) /\ run'[w].job = run[w].job /\ run'[w].day = run[w].day /\ time' = time
    /\ \/ run[w].pc = "load"
       \/ run[w].pc = "send" /\ run'[w].pc = "send" /\ run'[w].todo \subseteq run[w].todo

\* A step that claims nothing and delivers nothing.
LEMMA QuietStep ==
  ASSUME TypeInv, OnceInv, UNCHANGED <<lock, claims, got, unsure>>,
         time' \in Nat, time' >= time, \A w \in Worker : Proceeds(w)
  PROVE  OnceInv'
<1>1. time \in Nat /\ \A k \in Slot \X Day : claims[k] \subseteq Nat
  BY DigestAssumption DEF TypeInv
<1>2. ASSUME NEW k \in Slot \X Day
      PROVE  LastClaim(k)' /\ SentOnce(k)'
  <2>1. LastClaim(k) /\ SentOnce(k)
    BY DEF OnceInv
  <2>2. LastClaim(k)'
    BY <1>1, <2>1 DEF LastClaim
  <2> QED
    BY <2>1, <2>2 DEF SentOnce, Spread
<1>3. ASSUME NEW w \in Worker
      PROVE  Owed(w)'
  <2> SUFFICES ASSUME Claimed(w)'
               PROVE  /\ (time \in claims[Key(w)])'
                      /\ \A v \in Worker \ {w} : Claimed(v)' => Key(v)' # Key(w)'
                      /\ ~Spread(Key(w))' =>
                           \A u \in User : run'[w].pc = "load" \/ u \in run'[w].todo =>
                             (got[Key(w)][u] = 0 \/ <<Key(w), u>> \in unsure)'
    BY DEF Owed
  <2>1. Claimed(w) /\ Key(w)' = Key(w) /\ time' = time /\ Owed(w) /\ Proceeds(w)
    BY DEF Proceeds, Key, OnceInv
  <2>2. ASSUME NEW v \in Worker \ {w}, Claimed(v)'
        PROVE  Key(v)' # Key(w)'
    <3>1. Claimed(v) /\ Key(v)' = Key(v)
      BY <2>2 DEF Proceeds, Key
    <3> QED
      BY <2>1, <3>1 DEF Owed
  <2>3. Spread(Key(w))' <=> Spread(Key(w))
    BY <2>1 DEF Spread
  <2>4. ASSUME ~Spread(Key(w))', NEW u \in User, run'[w].pc = "load" \/ u \in run'[w].todo
        PROVE  (got[Key(w)][u] = 0 \/ <<Key(w), u>> \in unsure)'
    <3>1. run[w].pc = "load" \/ u \in run[w].todo
      BY <2>1, <2>4 DEF Proceeds, Claimed
    <3> QED
      BY <2>1, <2>3, <2>4, <3>1 DEF Owed
  <2> QED
    BY <2>1, <2>2, <2>4 DEF Owed
<1> QED
  BY <1>2, <1>3 DEF OnceInv

\* A claim: the key was free, so the last claim, if any, is its life ago, and
\* no run of this tick holds it.
LEMMA ClaimStep ==
  ASSUME TypeInv, OnceInv, NEW w \in Worker, Claim(w), Free(Key(w))
  PROVE  OnceInv'
<1>0. PICK k \in Slot \X Day : k = Key(w)
  BY TodoOfSend DEF Claim, Active
<1>1. lock[k] <= time
  BY <1>0 DEF Free
<1>2. /\ lock' = [lock EXCEPT ![k] = time + LockTtl]
      /\ claims' = [claims EXCEPT ![k] = @ \cup {time}]
      /\ run' = [run EXCEPT ![w] = [run[w] EXCEPT !.pc = "load"]]
      /\ UNCHANGED <<time, got, unsure>>
  BY <1>0 DEF Claim, LockKey, Key
<1>3. /\ run'[w].pc = "load" /\ run'[w].job = run[w].job /\ run'[w].day = run[w].day
      /\ \A v \in Worker \ {w} : run'[v] = run[v]
  BY <1>2 DEF TypeInv, RunState
<1>4. Key(w)' = k /\ \A v \in Worker \ {w} : Key(v)' = Key(v) /\ (Claimed(v)' <=> Claimed(v))
  BY <1>0, <1>3 DEF Key, Claimed
<1>5. /\ time \in Nat /\ LockTtl \in Nat /\ LockTtl > 0 /\ lock[k] \in Nat
      /\ \A j \in Slot \X Day : claims[j] \subseteq Nat
  BY <1>1, DigestAssumption DEF TypeInv
<1>6. /\ claims'[k] = claims[k] \cup {time} /\ lock'[k] = time + LockTtl
      /\ \A j \in (Slot \X Day) \ {k} : claims'[j] = claims[j] /\ lock'[j] = lock[j]
  BY <1>1, <1>2 DEF TypeInv
<1>7. LastClaim(k) /\ SentOnce(k)
  BY DEF OnceInv
<1>8. time \notin claims[k]
  BY <1>1, <1>5, <1>7 DEF LastClaim
<1>9. Spread(k)' \/ claims[k] = {}
  <2>1. ASSUME NEW a \in claims[k], lock[k] = a + LockTtl
        PROVE  Spread(k)'
    <3>1. time - a >= LockTtl /\ a \in claims'[k] /\ time \in claims'[k]
      BY <1>1, <1>5, <1>6, <2>1
    <3> QED
      BY <3>1 DEF Spread
  <2> QED
    BY <1>7, <2>1 DEF LastClaim
<1>10. ASSUME NEW j \in Slot \X Day
       PROVE  LastClaim(j)' /\ SentOnce(j)'
  <2>1. LastClaim(j) /\ SentOnce(j)
    BY DEF OnceInv
  <2>2. CASE j # k
    BY <1>2, <1>6, <2>1, <2>2 DEF LastClaim, SentOnce, Spread
  <2>3. CASE j = k
    <3>1. LastClaim(k)'
      BY <1>2, <1>5, <1>6, <1>7 DEF LastClaim
    <3>2. SentOnce(k)'
      <4> SUFFICES ASSUME NEW u \in User
                   PROVE  /\ claims'[k] # {}
                          /\ Spread(k)' \/ got'[k][u] <= 1 \/ <<k, u>> \in unsure'
        BY DEF SentOnce
      <4>1. got[k][u] \in Nat
        BY <1>1 DEF TypeInv
      <4> QED
        BY <1>2, <1>6, <1>7, <1>9, <4>1 DEF SentOnce
    <3> QED
      BY <2>3, <3>1, <3>2
  <2> QED
    BY <2>2, <2>3
<1>11. ASSUME NEW v \in Worker \ {w}, Claimed(v)
       PROVE  Owed(v)' /\ Key(v) # k
  <2>1. Owed(v) /\ Key(v) \in Slot \X Day /\ run'[v] = run[v] /\ Key(v)' = Key(v)
    BY <1>3, <1>4, <1>11, TodoOfSend DEF OnceInv, Claimed, Active
  <2>2. Key(v) # k
    BY <1>8, <1>11, <2>1 DEF Owed
  <2>3. claims'[Key(v)] = claims[Key(v)] /\ (Spread(Key(v))' <=> Spread(Key(v)))
    BY <1>6, <2>1, <2>2 DEF Spread
  <2>4. ASSUME NEW x \in Worker \ {v}, Claimed(x)'
        PROVE  Key(x)' # Key(v)'
    BY <1>4, <1>11, <2>1, <2>2, <2>4 DEF Owed
  <2> QED
    BY <1>2, <1>11, <2>1, <2>2, <2>3, <2>4 DEF Owed
<1>12. Owed(w)'
  <2>1. time' \in claims'[k]
    BY <1>2, <1>6
  <2>2. \A v \in Worker \ {w} : Claimed(v)' => Key(v)' # k
    BY <1>4, <1>11
  <2>3. ASSUME ~Spread(k)', NEW u \in User
        PROVE  got'[k][u] = 0
    <3>1. claims[k] = {} /\ got[k][u] \in Nat
      BY <1>1, <1>9, <2>3 DEF TypeInv
    <3>2. ~(got[k][u] > 0)
      BY <1>7, <3>1 DEF SentOnce
    <3>3. got' = got
      BY <1>2
    <3> QED
      BY <3>1, <3>2, <3>3
  <2> QED
    BY <1>4, <2>1, <2>2, <2>3 DEF Owed
<1> QED
  BY <1>4, <1>10, <1>11, <1>12 DEF OnceInv, Owed

\* A delivery: the user had nothing yet, or the log explains it, and the run does
\* not come back to them unless the POST was reported as failed.
LEMMA DeliveryStep ==
  ASSUME TypeInv, OnceInv, NEW w \in Worker, NEW u \in User, Turn(w, u),
         got' = Delivered(w, u), UNCHANGED <<time, lock, claims>>,
         NEW c, Follows(c, w),
         \/ unsure' = unsure \cup {<<Key(w), u>>}
         \/ unsure' = unsure /\ (c.pc # "idle" => u \notin c.todo)
  PROVE  OnceInv'
<1>0. PICK k \in Slot \X Day : k = Key(w)
  BY TodoOfSend DEF Turn, Active
<1>1. /\ got'[k][u] = got[k][u] + 1 /\ \A x \in User \ {u} : got'[k][x] = got[k][x]
      /\ \A j \in (Slot \X Day) \ {k} : got'[j] = got[j]
  BY <1>0 DEF Delivered, TypeInv
<1>2. /\ run[w].pc = "send" /\ u \in run[w].todo /\ Claimed(w) /\ unsure \subseteq unsure'
  BY DEF Turn, Claimed
<1>3. /\ run'[w] = c /\ \A v \in Worker \ {w} : run'[v] = run[v] /\ Key(v)' = Key(v)
      /\ c.pc = "idle" \/ (c.pc = "send" /\ Key(w)' = k /\ c.todo \subseteq run[w].todo)
  BY <1>0, <1>2 DEF Follows, TypeInv, RunState, Key
<1>4. LastClaim(k) /\ SentOnce(k) /\ Owed(w) /\ got[k][u] \in Nat
  BY DEF OnceInv, TypeInv
<1>5. Spread(k) \/ got[k][u] = 0 \/ <<k, u>> \in unsure
  BY <1>0, <1>2, <1>4 DEF Owed
<1>6. \A j : (Spread(j)' <=> Spread(j))
  BY DEF Spread
<1>7. ASSUME NEW j \in Slot \X Day
      PROVE  LastClaim(j)' /\ SentOnce(j)'
  <2>1. LastClaim(j) /\ SentOnce(j)
    BY DEF OnceInv
  <2>2. LastClaim(j)'
    BY <2>1 DEF LastClaim
  <2>3. CASE j # k
    BY <1>1, <1>2, <1>6, <2>1, <2>2, <2>3 DEF SentOnce
  <2>4. CASE j = k
    <3>1. claims[k] # {}
      BY <1>0, <1>2, <1>4 DEF Owed
    <3>2. ASSUME NEW x \in User
          PROVE  Spread(k)' \/ got'[k][x] <= 1 \/ <<k, x>> \in unsure'
      <4>1. CASE x = u
        BY <1>1, <1>2, <1>5, <1>6, <4>1
      <4>2. CASE x # u
        BY <1>1, <1>2, <1>4, <1>6, <4>2 DEF SentOnce
      <4> QED
        BY <4>1, <4>2
    <3>3. claims' = claims
      OBVIOUS
    <3> QED
      BY <2>2, <2>4, <3>1, <3>2, <3>3 DEF SentOnce
  <2> QED
    BY <2>3, <2>4
<1>8. ASSUME NEW v \in Worker \ {w}, Claimed(v)
      PROVE  Owed(v)' /\ Key(v) # k
  <2>1. Owed(v) /\ Key(v) \in Slot \X Day /\ run'[v] = run[v] /\ Key(v)' = Key(v)
    BY <1>3, <1>8, TodoOfSend DEF OnceInv, Claimed, Active
  <2>2. Key(v) # k
    BY <1>0, <1>2, <1>8, <1>4 DEF Owed
  <2>3. got'[Key(v)] = got[Key(v)] /\ claims' = claims /\ time' = time
    BY <1>1, <2>1, <2>2
  <2>4. ASSUME NEW x \in Worker \ {v}, Claimed(x)'
        PROVE  Key(x)' # Key(v)'
    BY <1>2, <1>3, <1>8, <2>1, <2>2, <2>4 DEF Owed, Claimed
  <2> QED
    BY <1>2, <1>6, <1>8, <2>1, <2>2, <2>3, <2>4 DEF Owed
<1>9. Owed(w)'
  <2> SUFFICES ASSUME Claimed(w)'
               PROVE  Owed(w)'
    BY DEF Owed
  <2>1. c.pc = "send" /\ Key(w)' = k /\ c.todo \subseteq run[w].todo
    BY <1>3 DEF Claimed
  <2>2. time' \in claims'[k]
    BY <1>0, <1>2, <1>4 DEF Owed
  <2>3. \A v \in Worker \ {w} : Claimed(v)' => Key(v)' # k
    BY <1>3, <1>8 DEF Claimed
  <2>4. ASSUME ~Spread(k)', NEW x \in User, run'[w].pc = "load" \/ x \in run'[w].todo
        PROVE  got'[k][x] = 0 \/ <<k, x>> \in unsure'
    <3>1. x \in c.todo /\ x \in run[w].todo
      BY <1>3, <2>1, <2>4
    <3>2. CASE x = u
      BY <1>0, <2>1, <3>1, <3>2
    <3>3. CASE x # u
      BY <1>0, <1>1, <1>2, <1>4, <1>6, <2>4, <3>1, <3>3 DEF Owed
    <3> QED
      BY <3>2, <3>3
  <2> QED
    BY <2>1, <2>2, <2>3, <2>4 DEF Owed
<1> QED
  BY <1>7, <1>8, <1>9 , <1>3 DEF OnceInv, Owed, Claimed

LEMMA ProceedsAfter ==
  ASSUME TypeInv, NEW w \in Worker, NEW c, Follows(c, w), run[w].pc # "claim", time' = time
  PROVE  \A v \in Worker : Proceeds(v)
<1>1. run'[w] = c /\ \A v \in Worker \ {w} : run'[v] = run[v]
  BY DEF Follows, TypeInv
<1>2. Proceeds(w)
  BY <1>1 DEF Proceeds, Follows, Claimed
<1>3. \A v \in Worker \ {w} : Proceeds(v)
  BY <1>1 DEF Proceeds, Claimed
<1> QED
  BY <1>2, <1>3

LEMMA InitOnce == Init => OnceInv
BY DEF Init, OnceInv, LastClaim, SentOnce, Owed, Claimed, IdleRun

LEMMA NextOnce == TypeInv /\ OnceInv /\ [Next]_vars => OnceInv'
<1> SUFFICES ASSUME TypeInv, OnceInv, [Next]_vars
             PROVE  OnceInv'
  OBVIOUS
<1>0. time \in Nat
  BY DigestAssumption DEF TypeInv
<1>1. CASE Tick
  <2>1. \A w \in Worker : Proceeds(w)
    BY <1>1 DEF Tick, Proceeds, Claimed, Active
  <2> QED
    BY <1>0, <1>1, <2>1, QuietStep DEF Tick, history
<1>2. ASSUME NEW s \in Slot, Trigger(s)
      PROVE  OnceInv'
  <2>1. \A w \in Worker : Proceeds(w)
    BY <1>2 DEF Trigger, Proceeds, Claimed
  <2> QED
    BY <1>0, <1>2, <2>1, QuietStep DEF Trigger, history
<1>3. ASSUME NEW w \in Worker, NEW job \in jobs, Begin(w, job)
      PROVE  OnceInv'
  <2> DEFINE c == [IdleRun EXCEPT !.pc = "claim", !.job = job, !.day = IctDay(time)]
  <2>1. job \in TaskOf /\ IctDay(time) \in Day
    BY DayOfTime DEF TypeInv
  <2>2. c.pc = "claim"
    BY DEF IdleRun
  <2>3. run' = [run EXCEPT ![w] = c] \/ run' = run
    BY <1>3 DEF Begin
  <2> HIDE DEF c
  <2>4. \A v \in Worker : run'[v] = run[v] \/ run'[v].pc = "claim"
    BY <2>2, <2>3 DEF TypeInv
  <2>5. UNCHANGED <<time, lock, history>>
    BY <1>3 DEF Begin
  <2>6. \A v \in Worker : Proceeds(v)
    BY <2>4, <2>5 DEF Proceeds, Claimed
  <2> QED
    BY <1>0, <2>5, <2>6, QuietStep DEF history
<1>4. ASSUME NEW w \in Worker, Claim(w)
      PROVE  OnceInv'
  <2>1. CASE Free(Key(w))
    BY <1>4, <2>1, ClaimStep
  <2>2. CASE ~Free(Key(w))
    <3>1. UNCHANGED <<time, lock, claims, got, unsure>> /\ run' = [run EXCEPT ![w] = IdleRun]
      BY <1>4, <2>2 DEF Claim, LockKey, Key
    <3>2. \A v \in Worker : run'[v] = run[v] \/ run'[v].pc = "idle"
      BY <3>1, IdleTyped DEF TypeInv
    <3>3. \A v \in Worker : Proceeds(v)
      BY <3>1, <3>2 DEF Proceeds, Claimed
    <3> QED
      BY <1>0, <3>1, <3>3, QuietStep
  <2> QED
    BY <2>1, <2>2
<1>5. ASSUME NEW w \in Worker, Load(w)
      PROVE  OnceInv'
  <2>1. PICK c : Follows(c, w)
    BY <1>5, LoadFollows
  <2>2. run[w].pc # "claim" /\ UNCHANGED <<time, lock, claims, got, unsure>>
    BY <1>5 DEF Load, history
  <2> QED
    BY <1>0, <2>1, <2>2, ProceedsAfter, QuietStep
<1>6. ASSUME NEW w \in Worker, NEW u \in User, Post(w, u)
      PROVE  OnceInv'
  <2>1. /\ Turn(w, u) /\ run' = [run EXCEPT ![w] = NextUser(w, u)]
        /\ got' = Delivered(w, u) /\ UNCHANGED <<time, lock, claims, unsure>>
    BY <1>6 DEF Post
  <2>2. PICK c : Follows(c, w)
    BY <2>1, TurnFollows
  <2>3. c = NextUser(w, u) /\ Remains(NextUser(w, u), w, u)
    BY <2>1, <2>2, NextUserTyped DEF Follows, TypeInv, Turn
  <2>4. c.pc # "idle" => u \notin c.todo
    BY <2>3 DEF Remains
  <2> QED
    BY <2>1, <2>2, <2>4, DeliveryStep
<1>7. ASSUME NEW w \in Worker, NEW u \in User, PostFails(w, u) \/ UserFails(w, u)
      PROVE  OnceInv'
  <2>1. /\ Turn(w, u) /\ UNCHANGED <<time, lock, claims>> /\ run[w].pc = "send"
        /\ run' = [run EXCEPT ![w] = NextUser(w, u)] \/ run' = [run EXCEPT ![w] = AfterFailedPost(w, u)]
    BY <1>7 DEF PostFails, UserFails, Turn
  <2>2. PICK c : Follows(c, w)
    BY <2>1, TurnFollows
  <2>3. CASE UNCHANGED <<got, unsure>>
    BY <1>0, <2>1, <2>2, <2>3, ProceedsAfter, QuietStep
  <2>4. CASE got' = Delivered(w, u) /\ unsure' = unsure \cup {<<Key(w), u>>}
    BY <2>1, <2>2, <2>4, DeliveryStep
  <2> QED
    BY <1>7, <2>3, <2>4 DEF PostFails, UserFails
<1>8. ASSUME NEW w \in Worker, Raise(w) \/ Kill(w)
      PROVE  OnceInv'
  <2>1. /\ UNCHANGED <<time, lock, claims, got, unsure>>
        /\ run' = [run EXCEPT ![w] = IdleRun]
    BY <1>8 DEF Raise, Kill
  <2>2. \A v \in Worker : run'[v] = run[v] \/ run'[v].pc = "idle"
    BY <2>1, IdleTyped DEF TypeInv
  <2>3. \A v \in Worker : Proceeds(v)
    BY <2>1, <2>2 DEF Proceeds, Claimed
  <2> QED
    BY <1>0, <2>1, <2>3, QuietStep
<1>9. CASE UNCHANGED vars
  <2>1. \A w \in Worker : Proceeds(w)
    BY <1>9 DEF vars, Proceeds, Claimed
  <2> QED
    BY <1>0, <1>9, <2>1, QuietStep DEF vars, history
<1> QED
  BY <1>1, <1>2, <1>3, <1>4, <1>5, <1>6, <1>7, <1>8, <1>9 DEF Next, Go

\* One slot's digest reaches a user once per ICT day, however many runs retries,
\* redeliveries and hands start, unless a POST's answer was lost or the day was
\* claimed again when the key had expired.
THEOREM DigestSentOnce == Spec => []OneDayOneMessage
<1>1. OnceInv => OneDayOneMessage
  BY DEF OnceInv, SentOnce, Spread, OneDayOneMessage
<1> QED
  BY <1>1, AlwaysTyped, InitOnce, NextOnce, PTL DEF Spec

-----------------------------------------------------------------------------
(* Numbers and finite sets.                                                *)

LEMMA LeastNat ==
  ASSUME NEW S \in SUBSET Nat, S # {}
  PROVE  \E n \in S : \A m \in S : n <= m
<1>1. OpToRel(<, Nat) = {ss \in Nat \X Nat : ss[1] < ss[2]}
  BY DEF OpToRel
<1>2. PICK n \in S : \A m \in S : ~(<<m, n>> \in OpToRel(<, Nat))
  BY NatLessThanWellFounded, WFMin
<1>3. ASSUME NEW m \in S, m < n
      PROVE  FALSE
  BY <1>1, <1>2, <1>3
<1> QED
  BY <1>3

\* Induction over the numbers, for a set of numbers.
LEMMA AllNumbers ==
  ASSUME NEW S \in SUBSET Nat, 0 \in S, \A n \in S : n + 1 \in S
  PROVE  S = Nat
<1> SUFFICES ASSUME Nat \ S # {}
             PROVE  FALSE
  OBVIOUS
<1>1. PICK n \in Nat \ S : \A m \in Nat \ S : n <= m
  BY LeastNat
<1>2. n - 1 \in Nat /\ n - 1 \notin Nat \ S
  BY <1>1
<1> QED
  BY <1>2

\* What removing an element does to a finite set.
LEMMA OneLess ==
  ASSUME NEW S, IsFiniteSet(S), NEW T \in SUBSET S, NEW x \in T
  PROVE  /\ IsFiniteSet(T) /\ Cardinality(T) \in Nat \ {0}
         /\ T \ {x} \in SUBSET S
         /\ IsFiniteSet(T \ {x}) /\ Cardinality(T \ {x}) = Cardinality(T) - 1
<1>1. IsFiniteSet(T)
  BY FS_Subset
<1>2. Cardinality(T) \in Nat /\ IsFiniteSet(T \ {x}) /\ Cardinality(T \ {x}) = Cardinality(T) - 1
  BY <1>1, FS_CardinalityType, FS_RemoveElement
<1>3. Cardinality(T \ {x}) \in Nat
  BY <1>2, FS_CardinalityType
<1> QED
  BY <1>1, <1>2, <1>3

\* Induction over a finite set, for a family of its subsets.
LEMMA AllSubsets ==
  ASSUME NEW S, IsFiniteSet(S), NEW F, {} \in F,
         \A T \in SUBSET S : T # {} /\ (\A x \in T : T \ {x} \in F) => T \in F
  PROVE  \A T \in SUBSET S : T \in F
<1> DEFINE N == {n \in Nat : \A T \in SUBSET S : Cardinality(T) = n => T \in F}
<1>1. 0 \in N
  <2>1. ASSUME NEW T \in SUBSET S, Cardinality(T) = 0, T # {}
        PROVE  FALSE
    BY <2>1, OneLess
  <2> QED
    BY <2>1
<1>2. ASSUME NEW n \in N
      PROVE  n + 1 \in N
  <2>1. ASSUME NEW T \in SUBSET S, Cardinality(T) = n + 1
        PROVE  T \in F
    <3>1. CASE T = {}
      BY <3>1
    <3>2. ASSUME NEW x \in T
          PROVE  T \ {x} \in F
      <4>1. T \ {x} \in SUBSET S /\ Cardinality(T \ {x}) = n
        BY <2>1, <1>2, OneLess
      <4> QED
        BY <4>1, <1>2
    <3> QED
      BY <3>1, <3>2
  <2> QED
    BY <2>1
<1>3. N = Nat
  BY <1>1, <1>2, AllNumbers
<1>4. \A T \in SUBSET S : Cardinality(T) \in Nat
  BY FS_Subset, FS_CardinalityType
<1> QED
  BY <1>3, <1>4

\* What holds before the loop and is kept by each row holds after each.
LEMMA LoopKeeps ==
  ASSUME NEW n \in Nat, NEW Good, 0 \in Good,
         \A k \in 1 .. n : k - 1 \in Good => k \in Good
  PROVE  \A k \in 0 .. n : k \in Good
<1> DEFINE N == {k \in Nat : k <= n => k \in Good}
<1>1. N \in SUBSET Nat /\ 0 \in N
  OBVIOUS
<1>2. ASSUME NEW k \in N
      PROVE  k + 1 \in N
  <2>1. CASE k + 1 <= n
    <3>1. k + 1 \in 1 .. n /\ (k + 1) - 1 = k /\ k \in Good
      BY <2>1
    <3> QED
      BY <3>1
  <2> QED
    BY <2>1
<1>3. N = Nat
  <2> HIDE DEF N
  <2> QED
    BY <1>1, <1>2, AllNumbers
<1> QED
  BY <1>3

-----------------------------------------------------------------------------
(* Sorting.                                                                *)

Weighs(f, S) == \A x \in S : f[x] \in Int
Ascends(q, f) == \A i, j \in DOMAIN q : i < j => f[q[i]] <= f[q[j]]

\* Of finitely many members one weighs most.
LEMMA Heaviest ==
  ASSUME NEW S, IsFiniteSet(S), NEW f, Weighs(f, S)
  PROVE  \A T \in SUBSET S : T # {} => \E x \in T : \A y \in T : f[y] <= f[x]
<1> DEFINE F == {T \in SUBSET S : T # {} => \E x \in T : \A y \in T : f[y] <= f[x]}
<1>1. {} \in F
  OBVIOUS
<1>2. ASSUME NEW T \in SUBSET S, T # {}, \A x \in T : T \ {x} \in F
      PROVE  T \in F
  <2>1. PICK z \in T : T \ {z} \in F
    BY <1>2
  <2>2. \A y \in T : f[y] \in Int
    BY DEF Weighs
  <2>3. CASE T \ {z} = {}
    BY <2>2, <2>3
  <2>4. CASE T \ {z} # {}
    <3>1. PICK x \in T \ {z} : \A y \in T \ {z} : f[y] <= f[x]
      BY <2>1, <2>4
    <3>2. CASE f[z] <= f[x]
      BY <3>1, <3>2
    <3>3. CASE ~(f[z] <= f[x])
      <4>1. \A y \in T : f[y] <= f[z]
        BY <2>2, <3>1, <3>3
      <4> QED
        BY <4>1
    <3> QED
      BY <3>2, <3>3
  <2> QED
    BY <2>3, <2>4
<1>3. \A T \in SUBSET S : T \in F
  <2> HIDE DEF F
  <2> QED
    BY <1>1, <1>2, AllSubsets
<1> QED
  BY <1>3

\* The members of T in an ascending order.
Sorting(T, f) == {q \in SetToSeqs(T) : Ascends(q, f)}

LEMMA SortExists ==
  ASSUME NEW S, IsFiniteSet(S), NEW f, Weighs(f, S)
  PROVE  Sorting(S, f) # {}
<1> DEFINE F == {T \in SUBSET S : Sorting(T, f) # {}}
<1>1. {} \in F
  <2>1. Cardinality({}) = 0
    BY FS_EmptySet
  <2> DEFINE q == [i \in 1 .. 0 |-> 0]
  <2>2. q \in SetToSeqs({})
    BY <2>1 DEF SetToSeqs
  <2>3. q \in Sorting({}, f)
    BY <2>2 DEF Sorting, Ascends
  <2> QED
    BY <2>3
<1>2. ASSUME NEW T \in SUBSET S, T # {}, \A x \in T : T \ {x} \in F
      PROVE  T \in F
  <2>1. PICK x \in T : \A y \in T : f[y] <= f[x]
    BY <1>2, Heaviest
  <2>2. PICK n \in Nat : n + 1 = Cardinality(T) /\ n = Cardinality(T \ {x})
    <3>1. PICK m \in Nat \ {0} : m = Cardinality(T) /\ m - 1 = Cardinality(T \ {x})
      BY OneLess
    <3>2. m - 1 \in Nat /\ (m - 1) + 1 = m
      OBVIOUS
    <3> QED
      BY <3>1, <3>2
  <2>3. PICK q \in Sorting(T \ {x}, f) : TRUE
    BY <1>2
  <2>4. /\ q \in [1 .. n -> T \ {x}]
        /\ \A i, j \in 1 .. n : i # j => q[i] # q[j]
        /\ \A i, j \in 1 .. n : i < j => f[q[i]] <= f[q[j]]
    BY <2>2, <2>3 DEF Sorting, SetToSeqs, Ascends
  <2> DEFINE r == [i \in 1 .. n + 1 |-> IF i = n + 1 THEN x ELSE q[i]]
  <2>5. \A i \in 1 .. n + 1 : i = n + 1 \/ i \in 1 .. n
    OBVIOUS
  <2>6. r \in [1 .. n + 1 -> T]
    BY <2>4, <2>5
  <2>7. \A i, j \in 1 .. n + 1 : i # j => r[i] # r[j]
    BY <2>4, <2>5
  <2>8. \A i, j \in 1 .. n + 1 : i < j => f[r[i]] <= f[r[j]]
    BY <2>1, <2>4, <2>5
  <2>9. r \in Sorting(T, f)
    BY <2>2, <2>6, <2>7, <2>8 DEF Sorting, SetToSeqs, Ascends
  <2> QED
    BY <2>9
<1>3. \A T \in SUBSET S : T \in F
  <2> HIDE DEF F
  <2> QED
    BY <1>1, <1>2, AllSubsets
<1> QED
  BY <1>3

\* Every member of S once.
Lists(q, S) ==
  /\ q \in Seq(S) /\ Len(q) = Cardinality(S)
  /\ \A i, j \in DOMAIN q : i # j => q[i] # q[j]
  /\ \A x \in S : \E i \in DOMAIN q : q[i] = x

LEMMA Sorted ==
  ASSUME NEW S, IsFiniteSet(S), NEW f, Weighs(f, S)
  PROVE  Lists(SortedBy(S, f), S) /\ Ascends(SortedBy(S, f), f)
<1>1. \E q \in SetToSeqs(S) : Ascends(q, f)
  BY SortExists DEF Sorting
<1>2. PICK q \in SetToSeqs(S) : q = SortedBy(S, f) /\ Ascends(q, f)
  BY <1>1 DEF SortedBy, Ascends
<1>3. PICK n \in Nat : n = Cardinality(S)
  BY FS_CardinalityType
<1>4. q \in [1 .. n -> S] /\ \A i, j \in 1 .. n : i # j => q[i] # q[j]
  BY <1>2, <1>3 DEF SetToSeqs
<1>5. q \in Injection(1 .. n, S)
  BY <1>4 DEF Injection, IsInjective
<1>6. Cardinality(1 .. n) = n
  BY FS_Interval
<1>7. q \in Surjection(1 .. n, S)
  BY <1>3, <1>5, <1>6, FS_Injection
<1>8. \A x \in S : \E i \in 1 .. n : q[i] = x
  BY <1>7 DEF Surjection
<1>9. q \in Seq(S) /\ Len(q) = n /\ DOMAIN q = 1 .. n
  BY <1>4
<1> QED
  BY <1>2, <1>3, <1>4, <1>8, <1>9 DEF Lists

-----------------------------------------------------------------------------
(* Clusters.                                                               *)

ClusterOf(levels) == [sum : Int, members : SUBSET levels, n : Int]

\* Every member of c's clusters is in a cluster of d.
Holds(c, l) == \E j \in 1 .. Len(c) : l \in c[j].members
Covers(c, d) == \A l : Holds(c, l) => Holds(d, l)

LEMMA Joins ==
  ASSUME NEW levels, NEW l \in levels, l.price \in Int, NEW c \in Seq(ClusterOf(levels))
  PROVE  /\ JoinCluster(c, l) \in Seq(ClusterOf(levels))
         /\ Covers(c, JoinCluster(c, l)) /\ Holds(JoinCluster(c, l), l)
<1> DEFINE one == [sum |-> l.price, members |-> {l}, n |-> 1]
<1>1. one \in ClusterOf(levels) /\ l \in one.members
  BY DEF ClusterOf
<1> HIDE DEF one
<1>2. CASE c = <<>>
  <2>1. JoinCluster(c, l) = <<one>>
    BY <1>2 DEF JoinCluster, one
  <2>2. <<one>> \in Seq(ClusterOf(levels)) /\ Len(<<one>>) = 1 /\ <<one>>[1] = one
    BY <1>1
  <2>3. Len(c) = 0
    BY <1>2
  <2> QED
    BY <1>1, <2>1, <2>2, <2>3 DEF Covers, Holds
<1>3. ASSUME c # <<>>, JoinCluster(c, l) = Append(c, one)
      PROVE  /\ JoinCluster(c, l) \in Seq(ClusterOf(levels))
             /\ Covers(c, JoinCluster(c, l)) /\ Holds(JoinCluster(c, l), l)
  <2>1. PICK n \in Nat : n = Len(c)
    OBVIOUS
  <2>2. /\ Append(c, one) \in Seq(ClusterOf(levels)) /\ Len(Append(c, one)) = n + 1
        /\ Append(c, one)[n + 1] = one
        /\ \A j \in 1 .. n : Append(c, one)[j] = c[j]
    BY <1>1, <2>1
  <2>3. n + 1 \in 1 .. n + 1 /\ \A j \in 1 .. n : j \in 1 .. n + 1
    OBVIOUS
  <2> QED
    BY <1>1, <1>3, <2>1, <2>2, <2>3 DEF Covers, Holds
<1>4. PICK last : last = [sum |-> Last(c).sum + l.price, members |-> Last(c).members \cup {l},
                          n |-> Last(c).n + 1]
  OBVIOUS
<1>5. ASSUME c # <<>>, JoinCluster(c, l) = [c EXCEPT ![Len(c)] = last]
      PROVE  /\ JoinCluster(c, l) \in Seq(ClusterOf(levels))
             /\ Covers(c, JoinCluster(c, l)) /\ Holds(JoinCluster(c, l), l)
  <2>1. PICK n \in Nat : n = Len(c) /\ n \in 1 .. n
    BY <1>5
  <2>2. Last(c) = c[n] /\ c[n] \in ClusterOf(levels)
    BY <2>1 DEF Last
  <2>3. last \in ClusterOf(levels) /\ l \in last.members /\ c[n].members \subseteq last.members
    BY <1>4, <2>2 DEF ClusterOf
  <2> DEFINE d == [c EXCEPT ![n] = last]
  <2>4. /\ d \in Seq(ClusterOf(levels)) /\ Len(d) = n /\ d[n] = last
        /\ \A j \in 1 .. n : j # n => d[j] = c[j]
    BY <2>1, <2>3
  <2> HIDE DEF d
  <2>5. Covers(c, d) /\ Holds(d, l)
    BY <2>1, <2>3, <2>4 DEF Covers, Holds
  <2> QED
    BY <1>5, <2>1, <2>4, <2>5 DEF d
<1> QED
  BY <1>2, <1>3, <1>4, <1>5 DEF JoinCluster, one

\* The pass, one level after another.
LEMMA Pass ==
  ASSUME NEW q, Len(q) \in Nat
  PROVE  LET c == ClustersAfter(q)
         IN c[0] = <<>> /\ \A k \in 1 .. Len(q) : c[k] = JoinCluster(c[k - 1], q[k])
<1> DEFINE Eq(g, n) == g = [k \in 0 .. n |->
              IF k = 0 THEN <<>> ELSE JoinCluster(g[k - 1], q[k])]
           N == {n \in Nat : \E g : Eq(g, n)}
           c == ClustersAfter(q)
<1>1. 0 \in N
  <2>1. Eq([k \in 0 .. 0 |-> <<>>], 0)
    OBVIOUS
  <2> QED
    BY <2>1
<1>2. ASSUME NEW n \in N
      PROVE  n + 1 \in N
  <2>1. PICK g : Eq(g, n)
    OBVIOUS
  <2> DEFINE e == [k \in 0 .. n + 1 |-> IF k = 0 THEN <<>> ELSE JoinCluster(g[k - 1], q[k])]
  <2>2. \A k \in 0 .. n : e[k] = g[k]
    BY <2>1
  <2>3. \A k \in 0 .. n + 1 : k # 0 => k - 1 \in 0 .. n
    OBVIOUS
  <2>4. Eq(e, n + 1)
    BY <2>2, <2>3
  <2> HIDE DEF e
  <2> QED
    BY <2>4
<1>3. Len(q) \in N
  <2> HIDE DEF N
  <2>1. N = Nat
    <3>1. N \in SUBSET Nat
      BY DEF N
    <3> QED
      BY <1>1, <1>2, <3>1, AllNumbers
  <2> QED
    BY <2>1
<1>4. c = CHOOSE g : Eq(g, Len(q))
  BY DEF ClustersAfter
<1>5. Eq(c, Len(q))
  BY <1>3, <1>4
<1> HIDE DEF c
<1>6. c[0] = <<>> /\ \A k \in 1 .. Len(q) : c[k] = JoinCluster(c[k - 1], q[k])
  BY <1>5
<1> QED
  BY <1>6 DEF c

\* Each level is in a cluster, and a cluster has nothing but levels.
LEMMA Clustered ==
  ASSUME NEW levels, IsFiniteSet(levels), \A l \in levels : l.price \in Int
  PROVE  /\ \A c \in ToSet(Clusters(levels)) : c.members \subseteq levels
         /\ \A l \in levels : \E c \in ToSet(Clusters(levels)) : l \in c.members
<1> DEFINE price == [l \in levels |-> l.price]
<1>1. Weighs(price, levels)
  BY DEF Weighs
<1> HIDE DEF price
<1>2. PICK q : q = SortedBy(levels, price) /\ Lists(q, levels)
  BY <1>1, Sorted
<1>3. PICK n \in Nat : n = Len(q) /\ DOMAIN q = 1 .. n
  BY <1>2 DEF Lists
<1>4. PICK c : c = ClustersAfter(q)
  OBVIOUS
<1>5. c[0] = <<>> /\ \A k \in 1 .. n : c[k] = JoinCluster(c[k - 1], q[k])
  BY <1>3, <1>4, Pass
<1> DEFINE Good == {k \in 0 .. n : /\ c[k] \in Seq(ClusterOf(levels))
                                   /\ \A i \in 1 .. k : Holds(c[k], q[i])}
<1>6. 0 \in Good
  <2>1. <<>> \in Seq(ClusterOf(levels)) /\ 0 \in 0 .. n /\ 1 .. 0 = {}
    OBVIOUS
  <2> QED
    BY <1>5, <2>1
<1>7. ASSUME NEW k \in 1 .. n, k - 1 \in Good
      PROVE  k \in Good
  <2>1. PICK m \in 0 .. n : m = k - 1 /\ m \in Good
    BY <1>7
  <2>2. q[k] \in levels /\ q[k].price \in Int
    BY <1>2, <1>3 DEF Lists
  <2>3. c[k] = JoinCluster(c[m], q[k]) /\ c[m] \in Seq(ClusterOf(levels))
    BY <1>5, <2>1
  <2>4. c[k] \in Seq(ClusterOf(levels)) /\ Covers(c[m], c[k]) /\ Holds(c[k], q[k])
    BY <2>2, <2>3, Joins
  <2>5. \A i \in 1 .. k : i \in 1 .. m \/ i = k
    BY <2>1
  <2>6. \A i \in 1 .. k : Holds(c[k], q[i])
    BY <2>1, <2>4, <2>5 DEF Covers
  <2> QED
    BY <2>4, <2>6
<1>8. n \in Good
  <2> HIDE DEF Good
  <2>1. \A k \in 0 .. n : k \in Good
    BY <1>6, <1>7, LoopKeeps
  <2> QED
    BY <2>1
<1>9. Clusters(levels) = c[n]
  BY <1>2, <1>3, <1>4 DEF Clusters, price
<1>10. /\ c[n] \in Seq(ClusterOf(levels)) /\ \A i \in 1 .. n : Holds(c[n], q[i])
  BY <1>8
<1>11. ToSet(c[n]) = {c[n][j] : j \in 1 .. Len(c[n])}
  BY <1>10 DEF ToSet
<1>12. \A j \in 1 .. Len(c[n]) : c[n][j] \in ClusterOf(levels)
  BY <1>10
<1>13. \A d \in ToSet(c[n]) : d.members \subseteq levels
  BY <1>11, <1>12 DEF ClusterOf
<1>14. \A l \in levels : Holds(c[n], l)
  BY <1>2, <1>3, <1>10 DEF Lists
<1> QED
  BY <1>9, <1>11, <1>13, <1>14 DEF Holds

-----------------------------------------------------------------------------
(* The nearest level.                                                      *)

LEMMA Scales ==
  ASSUME NEW a \in Nat, NEW b \in Nat, NEW k \in Nat \ {0}
  PROVE  a < b <=> a * k < b * k
<1>1. CASE a < b
  <2>1. PICK c \in Nat \ {0} : b = a + c
    <3>1. b - a \in Nat \ {0} /\ b = a + (b - a)
      BY <1>1
    <3> QED
      BY <3>1
  <2>2. b * k = a * k + c * k
    BY <2>1
  <2>3. c * k > 0 /\ a * k \in Nat /\ c * k \in Nat
    OBVIOUS
  <2>4. a * k < b * k
    BY <2>2, <2>3
  <2> QED
    BY <1>1, <2>4
<1>2. CASE ~(a < b)
  <2>1. PICK c \in Nat : a = b + c
    <3>1. a - b \in Nat /\ a = b + (a - b)
      BY <1>2
    <3> QED
      BY <3>1
  <2>2. a * k = b * k + c * k
    BY <2>1
  <2>3. c * k >= 0 /\ b * k \in Nat /\ c * k \in Nat
    OBVIOUS
  <2>4. ~(a * k < b * k)
    BY <2>2, <2>3
  <2> QED
    BY <1>2, <2>4
<1> QED
  BY <1>1, <1>2

\* With da / a at least db / b, and db / b at least dc / c, da / a is at least dc / c.
LEMMA Ratios ==
  ASSUME NEW da \in Nat, NEW db \in Nat, NEW dc \in Nat,
         NEW a \in Nat \ {0}, NEW b \in Nat \ {0}, NEW c \in Nat \ {0},
         ~(da * b < db * a), ~(db * c < dc * b)
  PROVE  ~(da * c < dc * a)
<1> SUFFICES ASSUME da * c < dc * a
             PROVE  FALSE
  OBVIOUS
<1>1. PICK i \in Nat, j \in Nat, k \in Nat, l \in Nat, m \in Nat, n \in Nat :
        i = da * c /\ j = dc * a /\ k = da * b /\ l = db * a /\ m = db * c /\ n = dc * b
  OBVIOUS
<1>2. i * b < j * b
  BY <1>1, Scales
<1>3. ~(k * c < l * c)
  BY <1>1, Scales
<1>4. ~(m * a < n * a)
  BY <1>1, Scales
<1>5. i * b = k * c
  <2>1. (da * c) * b = (da * b) * c
    OBVIOUS
  <2> QED
    BY <1>1, <2>1
<1>6. l * c = m * a
  <2>1. (db * a) * c = (db * c) * a
    OBVIOUS
  <2> QED
    BY <1>1, <2>1
<1>7. j * b = n * a
  <2>1. (dc * a) * b = (dc * b) * a
    OBVIOUS
  <2> QED
    BY <1>1, <2>1
<1>8. /\ i * b \in Nat /\ j * b \in Nat /\ k * c \in Nat /\ l * c \in Nat
      /\ m * a \in Nat /\ n * a \in Nat
  OBVIOUS
<1> QED
  BY <1>2, <1>3, <1>4, <1>5, <1>6, <1>7, <1>8

\* Of two prices and their levels, not each is closer than the other.
LEMMA NotBoth ==
  ASSUME NEW p \in Int, NEW q \in Int, NEW l, NEW m,
         l.price \in Nat \ {0}, m.price \in Nat \ {0}, CloserTo(p, l, q, m)
  PROVE  ~CloserTo(q, m, p, l)
<1>1. Dist(p, l.price) \in Nat /\ Dist(q, m.price) \in Nat
  BY DEF Dist
<1>2. Dist(p, l.price) * m.price \in Int /\ Dist(q, m.price) * l.price \in Int
  BY <1>1
<1>3. \A i, j \in Int : i < j => ~(j < i)
  OBVIOUS
<1> QED
  BY <1>2, <1>3 DEF CloserTo

\* Not being closer is transitive.
LEMMA NoCloser ==
  ASSUME NEW p \in Int, NEW q \in Int, NEW r \in Int, NEW l, NEW m, NEW n,
         l.price \in Nat \ {0}, m.price \in Nat \ {0}, n.price \in Nat \ {0},
         ~CloserTo(p, l, q, m), ~CloserTo(q, m, r, n)
  PROVE  ~CloserTo(p, l, r, n)
<1>1. /\ Dist(p, l.price) \in Nat /\ Dist(q, m.price) \in Nat
      /\ Dist(r, n.price) \in Nat
  BY DEF Dist
<1>2. /\ ~(Dist(p, l.price) * m.price < Dist(q, m.price) * l.price)
      /\ ~(Dist(q, m.price) * n.price < Dist(r, n.price) * m.price)
  BY DEF CloserTo
<1>3. ~(Dist(p, l.price) * n.price < Dist(r, n.price) * l.price)
  BY <1>1, <1>2, Ratios
<1> QED
  BY <1>3 DEF CloserTo

\* R is what "closer" is: of two members not each before the other, and not being
\* before is transitive.
Orders(R, X) ==
  /\ \A x, y \in X : <<x, y>> \in R => <<y, x>> \notin R
  /\ \A x, y, z \in X : <<x, y>> \notin R /\ <<y, z>> \notin R => <<x, z>> \notin R

\* Of finitely many members one has no other before it.
LEMMA LeastExists ==
  ASSUME NEW X, IsFiniteSet(X), X # {}, NEW R, Orders(R, X)
  PROVE  \E l \in X : \A m \in X : <<m, l>> \notin R
<1> DEFINE F == {T \in SUBSET X :
                   T # {} => \E l \in T : \A m \in T : <<m, l>> \notin R}
<1>1. {} \in F
  OBVIOUS
<1>2. \A x \in X : <<x, x>> \notin R
  BY DEF Orders
<1>3. ASSUME NEW T \in SUBSET X, T # {}, \A x \in T : T \ {x} \in F
      PROVE  T \in F
  <2>1. PICK x \in T : T \ {x} \in F
    BY <1>3
  <2>2. CASE T \ {x} = {}
    BY <1>2, <2>2
  <2>3. CASE T \ {x} # {}
    <3>1. PICK l \in T \ {x} : \A m \in T \ {x} : <<m, l>> \notin R
      BY <2>1, <2>3
    <3>2. CASE <<x, l>> \notin R
      BY <3>1, <3>2
    <3>3. CASE <<x, l>> \in R
      <4>1. <<l, x>> \notin R
        BY <3>3 DEF Orders
      <4>2. \A m \in T : <<m, x>> \notin R
        BY <1>2, <3>1, <4>1 DEF Orders
      <4> QED
        BY <4>2
    <3> QED
      BY <3>2, <3>3
  <2> QED
    BY <2>2, <2>3
<1>4. \A T \in SUBSET X : T \in F
  <2> HIDE DEF F
  <2> QED
    BY <1>1, <1>3, AllSubsets
<1> QED
  BY <1>4

\* k members that none of the others is before.
Firsts(R, X, k) ==
  {S \in SUBSET X : Cardinality(S) = k /\ \A s \in S, t \in X \ S : <<t, s>> \notin R}

\* A sorted list can be cut anywhere.
LEMMA FirstsExist ==
  ASSUME NEW X, IsFiniteSet(X), NEW R, Orders(R, X), NEW k \in 0 .. Cardinality(X)
  PROVE  Firsts(R, X, k) # {}
<1>1. PICK n \in Nat : n = Cardinality(X)
  BY FS_CardinalityType
<1> DEFINE Good == {j \in 0 .. n : Firsts(R, X, j) # {}}
<1>2. 0 \in Good
  <2>1. {} \in Firsts(R, X, 0)
    BY FS_EmptySet DEF Firsts
  <2> QED
    BY <2>1
<1>3. ASSUME NEW j \in 1 .. n, j - 1 \in Good
      PROVE  j \in Good
  <2>1. PICK S \in Firsts(R, X, j - 1) : TRUE
    BY <1>3
  <2>2. S \in SUBSET X /\ IsFiniteSet(S) /\ Cardinality(S) = j - 1
    BY <2>1, FS_Subset DEF Firsts
  <2>3. IsFiniteSet(X \ S) /\ X \ S # {}
    <3>1. S # X
      BY <1>1, <2>2
    <3> QED
      BY <2>2, <3>1, FS_Subset
  <2>4. Orders(R, X \ S)
    BY DEF Orders
  <2>5. PICK l \in X \ S : \A m \in X \ S : <<m, l>> \notin R
    BY <2>3, <2>4, LeastExists
  <2>6. Cardinality(S \cup {l}) = j
    <3>1. Cardinality(S \cup {l}) = Cardinality(S) + 1
      BY <2>2, <2>5, FS_AddElement
    <3> QED
      BY <2>2, <3>1
  <2>7. \A s \in S \cup {l}, t \in X \ (S \cup {l}) : <<t, s>> \notin R
    BY <2>1, <2>5 DEF Firsts
  <2>8. S \cup {l} \in Firsts(R, X, j)
    BY <2>2, <2>5, <2>6, <2>7 DEF Firsts
  <2> QED
    BY <2>8
<1>4. \A j \in 0 .. n : j \in Good
  <2> HIDE DEF Good
  <2> QED
    BY <1>2, <1>3, LoopKeeps
<1> QED
  BY <1>1, <1>4

Levelled(levels) == IsFiniteSet(levels) /\ \A l \in levels : l.price \in Nat \ {0}

LEMMA NotItself ==
  ASSUME NEW price \in Int, NEW l, l.price \in Nat \ {0}
  PROVE  ~Nearer(price, l, l)
BY NotBoth DEF Nearer

LEMMA NearestExists ==
  ASSUME NEW price \in Int, NEW levels, Levelled(levels), levels # {}
  PROVE  /\ Nearest(levels, price) \in levels
         /\ \A m \in levels : ~Nearer(price, m, Nearest(levels, price))
<1> DEFINE R == {ll \in levels \X levels : Nearer(price, ll[1], ll[2])}
<1>1. \A l, m \in levels : <<l, m>> \in R <=> Nearer(price, l, m)
  OBVIOUS
<1>2. Orders(R, levels)
  <2>1. ASSUME NEW l \in levels, NEW m \in levels, Nearer(price, l, m)
        PROVE  ~Nearer(price, m, l)
    BY <2>1, NotBoth DEF Nearer, Levelled
  <2>2. ASSUME NEW l \in levels, NEW m \in levels, NEW n \in levels,
               ~Nearer(price, l, m), ~Nearer(price, m, n)
        PROVE  ~Nearer(price, l, n)
    <3>1. l.price \in Nat \ {0} /\ m.price \in Nat \ {0} /\ n.price \in Nat \ {0}
      BY DEF Levelled
    <3>2. ~CloserTo(price, l, price, m) /\ ~CloserTo(price, m, price, n)
      BY <2>2 DEF Nearer
    <3>3. ~CloserTo(price, l, price, n)
      BY <3>1, <3>2, NoCloser
    <3> QED
      BY <3>3 DEF Nearer
  <2> HIDE DEF R
  <2> QED
    BY <1>1, <2>1, <2>2 DEF Orders
<1>3. \E l \in levels : \A m \in levels : ~Nearer(price, m, l)
  <2>1. \E l \in levels : \A m \in levels : <<m, l>> \notin R
    <3> HIDE DEF R
    <3> QED
      BY <1>2, LeastExists DEF Levelled
  <2> QED
    BY <1>1, <2>1
<1> QED
  BY <1>3 DEF Nearest

\* What is shown for levels is some of them.
LEMMA LinesAreMatches ==
  ASSUME NEW price \in Int, NEW matches, Levelled(matches)
  PROVE  _dedupe_cross_source_matches(matches, price) \subseteq matches
<1> SUFFICES ASSUME NEW t, NEW c \in ToSet(Clusters(OfType(matches, t)))
             PROVE  Kept(c, price) \subseteq matches
  BY DEF _dedupe_cross_source_matches
<1>1. Levelled(OfType(matches, t)) /\ OfType(matches, t) \subseteq matches
  BY FS_Subset DEF OfType, Levelled
<1>2. c.members \subseteq OfType(matches, t)
  BY <1>1, Clustered DEF Levelled
<1>3. Levelled(c.members) /\ c.members \subseteq matches
  BY <1>1, <1>2, FS_Subset DEF Levelled
<1>4. CASE Cardinality(Sources(c.members)) >= 2
  <2>1. c.members # {}
    <3>1. ASSUME c.members = {}
          PROVE  FALSE
      <4>1. Sources(c.members) = {}
        BY <3>1 DEF Sources
      <4>2. Cardinality(Sources(c.members)) = 0
        BY <4>1, FS_EmptySet
      <4> QED
        BY <1>4, <4>2
    <3> QED
      BY <3>1
  <2>2. Nearest(c.members, price) \in c.members
    BY <1>3, <2>1, NearestExists
  <2> QED
    BY <1>3, <1>4, <2>2 DEF Kept
<1>5. CASE ~(Cardinality(Sources(c.members)) >= 2)
  BY <1>3, <1>5 DEF Kept
<1> QED
  BY <1>4, <1>5

\* Of what is within reach, each level or one that is no farther is a line.
LEMMA ShownFor ==
  ASSUME NEW price \in Int, NEW matches, Levelled(matches), NEW l \in matches
  PROVE  \E shown \in _dedupe_cross_source_matches(matches, price) :
           shown.level_type = l.level_type /\ ~Nearer(price, l, shown)
<1> DEFINE t == l.level_type
           levels == OfType(matches, t)
<1>1. l \in levels /\ Levelled(levels) /\ levels \subseteq matches
  BY FS_Subset DEF OfType, Levelled
<1>2. PICK c \in ToSet(Clusters(levels)) : l \in c.members /\ c.members \subseteq levels
  BY <1>1, Clustered DEF Levelled
<1>3. Kept(c, price) \subseteq _dedupe_cross_source_matches(matches, price)
  BY DEF _dedupe_cross_source_matches
<1>4. \A m \in c.members : m.level_type = t
  BY <1>2 DEF OfType
<1>5. Levelled(c.members)
  BY <1>1, <1>2, FS_Subset DEF Levelled
<1>6. CASE Kept(c, price) = {Nearest(c.members, price)}
  <2>1. /\ Nearest(c.members, price) \in c.members
        /\ ~Nearer(price, l, Nearest(c.members, price))
    BY <1>2, <1>5, NearestExists
  <2> QED
    BY <1>3, <1>4, <1>6, <2>1
<1>7. CASE Kept(c, price) = c.members
  <2>1. ~Nearer(price, l, l)
    BY NotItself DEF Levelled
  <2> QED
    BY <1>2, <1>3, <1>7, <2>1
<1> QED
  BY <1>6, <1>7 DEF Kept

\* What a user's lines are of the levels in reach.
Stands(lines, reach, q, s) ==
  /\ Levelled(reach[s]) /\ lines[s] \subseteq reach[s]
  /\ reach[s] # {} => q[s].price \in Int
  /\ \A l \in reach[s] : \E line \in lines[s] :
       line.level_type = l.level_type /\ ~Nearer(q[s].price, l, line)

\* A symbol's lead is its nearest line.
LEMMA Leads ==
  ASSUME NEW lines, NEW reach, NEW q, NEW s, Stands(lines, reach, q, s), lines[s] # {}
  PROVE  /\ q[s].price \in Int
         /\ Lead(lines, q, s) \in lines[s] /\ Lead(lines, q, s).price \in Nat \ {0}
         /\ \A line \in lines[s] : ~Nearer(q[s].price, line, Lead(lines, q, s))
<1>1. q[s].price \in Int /\ Levelled(lines[s])
  BY FS_Subset DEF Stands, Levelled
<1>2. /\ Lead(lines, q, s) \in lines[s]
      /\ \A line \in lines[s] : ~Nearer(q[s].price, line, Lead(lines, q, s))
  BY <1>1, NearestExists DEF Lead
<1> QED
  BY <1>1, <1>2 DEF Levelled

\* The sort that the length guard cuts.
Before(lines, q, near) == {st \in near \X near : Closer(lines, q, st[1], st[2])}

LEMMA SymbolsAreOrdered ==
  ASSUME NEW lines, NEW reach, NEW q, NEW near,
         \A s \in near : Stands(lines, reach, q, s) /\ lines[s] # {}
  PROVE  Orders(Before(lines, q, near), near)
<1>1. \A s, t \in near : <<s, t>> \in Before(lines, q, near) <=> Closer(lines, q, s, t)
  BY DEF Before
<1>2. \A s \in near : q[s].price \in Int /\ Lead(lines, q, s).price \in Nat \ {0}
  BY Leads
<1>3. ASSUME NEW s \in near, NEW t \in near, Closer(lines, q, s, t)
      PROVE  ~Closer(lines, q, t, s)
  BY <1>2, <1>3, NotBoth DEF Closer
<1>4. ASSUME NEW s \in near, NEW t \in near, NEW v \in near,
             ~Closer(lines, q, s, t), ~Closer(lines, q, t, v)
      PROVE  ~Closer(lines, q, s, v)
  BY <1>2, <1>4, NoCloser DEF Closer
<1> QED
  BY <1>1, <1>3, <1>4 DEF Orders

\* The message about lines that stand for the levels in reach.
LEMMA Message ==
  ASSUME NEW watched, IsFiniteSet(watched), NEW lines, NEW reach, NEW q,
         DOMAIN lines = watched, DOMAIN reach = watched,
         \A s \in watched : Stands(lines, reach, q, s)
  PROVE  ShowsTheNearest(build_digest_message(lines, q), lines, reach, q)
<1>1. PICK near \in SUBSET watched : near = {s \in watched : lines[s] # {}}
  OBVIOUS
<1>2. near = {s \in watched : reach[s] # {}}
  BY <1>1 DEF Stands
<1>3. PICK count \in Nat : count = Cardinality(near)
  BY FS_Subset, FS_CardinalityType
<1>4. PICK room \in 0 .. count : room = IF count < MaxSymbols THEN count ELSE MaxSymbols
  BY ContentAssumption
<1>5. Orders(Before(lines, q, near), near)
  <2>1. \A s \in near : Stands(lines, reach, q, s) /\ lines[s] # {}
    BY <1>1
  <2> QED
    BY <2>1, SymbolsAreOrdered
<1>6. PICK shown : shown = FirstOf(near, lines, q, room)
  OBVIOUS
<1>7. build_digest_message(lines, q) = [shown |-> shown, more |-> count - room]
  BY <1>1, <1>3, <1>4, <1>6 DEF build_digest_message
<1>8. /\ shown \subseteq near /\ Cardinality(shown) = room
      /\ \A s \in shown, t \in near \ shown : ~Closer(lines, q, t, s)
  <2>1. Firsts(Before(lines, q, near), near, room) # {}
    BY <1>3, <1>5, FS_Subset, FirstsExist
  <2>2. \A S \in SUBSET near, s, t \in near :
          <<t, s>> \in Before(lines, q, near) <=> Closer(lines, q, t, s)
    BY DEF Before
  <2>3. \E S \in SUBSET near : /\ Cardinality(S) = room
                              /\ \A s \in S, t \in near \ S : ~Closer(lines, q, t, s)
    BY <2>1, <2>2 DEF Firsts
  <2> QED
    BY <1>6, <2>3 DEF FirstOf
<1>9. ASSUME NEW s \in watched \ shown, NEW l \in reach[s], NEW t \in shown
      PROVE  \E line \in lines[t] : ~CloserTo(q[s].price, l, q[t].price, line)
  <2>1. s \in near \ shown /\ t \in near
    BY <1>2, <1>8, <1>9
  <2>2. /\ q[s].price \in Int /\ Lead(lines, q, s).price \in Nat \ {0}
        /\ \A line \in lines[s] : ~Nearer(q[s].price, line, Lead(lines, q, s))
        /\ q[t].price \in Int /\ Lead(lines, q, t).price \in Nat \ {0}
        /\ Lead(lines, q, t) \in lines[t]
    BY <1>1, <2>1, Leads
  <2>3. PICK line \in lines[s] : ~Nearer(q[s].price, l, line)
    BY DEF Stands
  <2>4. l.price \in Nat \ {0} /\ line.price \in Nat \ {0}
    BY DEF Stands, Levelled
  <2>5. ~CloserTo(q[s].price, l, q[s].price, Lead(lines, q, s))
    <3>1. /\ ~CloserTo(q[s].price, l, q[s].price, line)
          /\ ~CloserTo(q[s].price, line, q[s].price, Lead(lines, q, s))
      BY <2>2, <2>3 DEF Nearer
    <3> QED
      BY <2>2, <2>4, <3>1, NoCloser
  <2>6. ~CloserTo(q[s].price, Lead(lines, q, s), q[t].price, Lead(lines, q, t))
    BY <1>8, <2>1 DEF Closer
  <2>7. ~CloserTo(q[s].price, l, q[t].price, Lead(lines, q, t))
    BY <2>2, <2>4, <2>5, <2>6, NoCloser
  <2> QED
    BY <2>2, <2>7
<1>10. \A s \in shown : \A l \in reach[s] : \E line \in lines[s] :
         line.level_type = l.level_type /\ ~Nearer(q[s].price, l, line)
  BY <1>8 DEF Stands
<1>11. room + (count - room) = count /\ (count - room > 0 => room = MaxSymbols)
  BY <1>4
<1> QED
  BY <1>2, <1>3, <1>7, <1>8, <1>9, <1>10, <1>11 DEF ShowsTheNearest

-----------------------------------------------------------------------------
(* The gap list.                                                           *)

\* Where a book goes: listed, below the minimum, a fund, or named.
Funds(q, book) == {s \in book : q[s] # NoQuote /\ q[s].type = "fund_nav"}
Below(q, book, minimum) ==
  {s \in book \ Funds(q, book) : /\ q[s] # NoQuote /\ q[s].price > 0
                                 /\ minimum # NoMinimum
                                 /\ Dist(q[s].change, 0) < minimum}
Named(m) == m.excluded.missed \cup m.excluded.market_closed
Left(q, book, minimum, m) == Named(m) \cup Funds(q, book) \cup Below(q, book, minimum)

LEMMA BookParts ==
  ASSUME NEW book, NEW q, \A s \in book : q[s] \in Quote \cup {NoQuote},
         NEW minimum \in Int \cup {NoMinimum}, NEW open
  PROVE  LET m == build_gap_list_message(book, q, minimum, open)
             results == compute_gap_list(book, q, minimum)
         IN /\ Left(q, book, minimum, m) = book \ results
            /\ Named(m) \cap (Funds(q, book) \cup Below(q, book, minimum)) = {}
<1> DEFINE m == build_gap_list_message(book, q, minimum, open)
           results == compute_gap_list(book, q, minimum)
<1>1. Named(m) = {s \in book \ results : ~Unnamed(q, s)}
  BY DEF Named, build_gap_list_message, classify_excluded_symbols
<1> HIDE DEF m
<1>2. ASSUME NEW s \in book
      PROVE  /\ s \in Left(q, book, minimum, m) <=> s \notin results
             /\ ~(s \in Named(m) /\ s \in Funds(q, book) \cup Below(q, book, minimum))
  <2>1. CASE q[s] = NoQuote
    BY <1>1, <2>1 DEF compute_gap_list, _priced_row, Left, Funds, Below, Unnamed
  <2>2. CASE q[s] # NoQuote
    <3>1. q[s].type \in {"equity", "fund_nav"} /\ q[s].price \in Int /\ q[s].change \in Int
      BY <2>2 DEF Quote
    <3>2. Dist(q[s].change, 0) \in Int
      BY <3>1 DEF Dist
    <3> QED
      BY <1>1, <2>2, <3>1, <3>2 DEF compute_gap_list, _priced_row, Left, Funds, Below, Unnamed
  <2> QED
    BY <2>1, <2>2
<1>3. Left(q, book, minimum, m) \subseteq book /\ Named(m) \subseteq book
  BY <1>1 DEF Left, Funds, Below
<1>4. results \subseteq book
  BY DEF compute_gap_list
<1> HIDE DEF results
<1>5. Left(q, book, minimum, m) = book \ results
  BY <1>2, <1>3, <1>4
<1>6. Named(m) \cap (Funds(q, book) \cup Below(q, book, minimum)) = {}
  BY <1>2, <1>3
<1> QED
  BY <1>5, <1>6 DEF m, results

\* What the digest says of a book.
Accounts(m, book, q, left) ==
  /\ Len(m.shown) <= MaxRows
  /\ Len(m.shown) + m.more + Cardinality(left) = m.book_count
  /\ ToSet(m.shown) \cap left = {}
  /\ \A s \in book \ (left \cup ToSet(m.shown)) : \A t \in ToSet(m.shown) :
       Dist(q[s].change, 0) <= Dist(q[t].change, 0)

LEMMA GapList ==
  ASSUME NEW book, IsFiniteSet(book), NEW q, \A s \in book : q[s] \in Quote \cup {NoQuote},
         NEW minimum \in Int \cup {NoMinimum}, NEW open
  PROVE  LET m == build_gap_list_message(book, q, minimum, open)
         IN Accounts(m, book, q, Left(q, book, minimum, m))
<1> DEFINE m == build_gap_list_message(book, q, minimum, open)
           weight == [s \in compute_gap_list(book, q, minimum) |-> -Dist(q[s].change, 0)]
<1>1. PICK results : results = compute_gap_list(book, q, minimum)
  OBVIOUS
<1>2. results \subseteq book /\ \A s \in results : q[s] \in Quote
  BY <1>1 DEF compute_gap_list, _priced_row
<1>3. \A s \in results : Dist(q[s].change, 0) \in Int /\ weight[s] = -Dist(q[s].change, 0)
  BY <1>1, <1>2 DEF Quote, Dist
<1>4. PICK ranked : ranked = SortedBy(results, weight)
  OBVIOUS
<1>5. PICK k : k = IF Len(ranked) < MaxRows THEN Len(ranked) ELSE MaxRows
  OBVIOUS
<1>6. /\ m.shown = SubSeq(ranked, 1, k) /\ m.book_count = Cardinality(book)
      /\ m.more = Len(ranked) - Len(m.shown)
  BY <1>1, <1>4, <1>5 DEF build_gap_list_message
<1> HIDE DEF weight, m
<1>7. IsFiniteSet(results) /\ Weighs(weight, results)
  BY <1>2, <1>3, FS_Subset DEF Weighs
<1>8. Lists(ranked, results) /\ Ascends(ranked, weight)
  BY <1>4, <1>7, Sorted
<1>9. PICK n \in Nat : n = Len(ranked) /\ n = Cardinality(results) /\ DOMAIN ranked = 1 .. n
  BY <1>8 DEF Lists
<1>10. k \in 0 .. n /\ k <= MaxRows /\ (k = n \/ k = MaxRows)
  BY <1>5, <1>9, ContentAssumption
<1>11. PICK shown : shown = m.shown
  OBVIOUS
<1>12. Len(shown) = k /\ shown = [i \in 1 .. k |-> ranked[i]]
  BY <1>6, <1>8, <1>9, <1>10, <1>11 DEF Lists
<1>13. ToSet(shown) = {ranked[i] : i \in 1 .. k}
  BY <1>12 DEF ToSet
<1>14. \A i \in 1 .. n : ranked[i] \in results
  BY <1>8, <1>9 DEF Lists
<1>15. PICK left : left = Left(q, book, minimum, m) /\ left = book \ results
  BY <1>1, BookParts DEF m
<1>16. ToSet(shown) \cap left = {}
  BY <1>10, <1>13, <1>14, <1>15
<1>17. Len(shown) + m.more + Cardinality(left) = m.book_count
  <2>1. PICK c \in Nat : c = Cardinality(book)
    BY FS_CardinalityType
  <2>2. book \cap results = results
    BY <1>2
  <2>3. Cardinality(left) = c - n
    <3>1. Cardinality(book \ results) = Cardinality(book) - Cardinality(book \cap results)
      BY FS_Difference
    <3> QED
      BY <1>9, <1>15, <2>1, <2>2, <3>1
  <2> QED
    BY <1>6, <1>9, <1>10, <1>11, <1>12, <2>1, <2>3
<1>18. ASSUME NEW s \in book \ (left \cup ToSet(shown)), NEW t \in ToSet(shown)
       PROVE  Dist(q[s].change, 0) <= Dist(q[t].change, 0)
  <2>1. s \in results
    BY <1>15
  <2>2. PICK i \in 1 .. n : ranked[i] = s
    BY <1>8, <1>9, <2>1 DEF Lists
  <2>3. PICK j \in 1 .. k : ranked[j] = t
    BY <1>13
  <2>4. ~(i \in 1 .. k)
    BY <1>13, <2>2
  <2>5. j < i /\ j \in 1 .. n
    BY <1>10, <2>4
  <2>6. weight[t] <= weight[s]
    BY <1>8, <1>9, <2>2, <2>3, <2>5 DEF Ascends
  <2>7. t \in results
    BY <1>14, <2>3, <2>5
  <2> QED
    BY <1>3, <2>1, <2>6, <2>7
<1>19. Len(shown) <= MaxRows
  BY <1>10, <1>12
<1> QED
  BY <1>11, <1>15, <1>16, <1>17, <1>18, <1>19 DEF Accounts, m

-----------------------------------------------------------------------------
(* What a run composes.                                                    *)

\* A run that sends works on the tables and on quotes.
LEMMA WorksOn ==
  ASSUME TypeInv, NEW w \in Worker, NEW u \in run[w].todo
  PROVE  /\ u \in User /\ desk \in Desk
         /\ desk.watch[u] \subseteq Symbol /\ desk.held[u] \subseteq Symbol
         /\ IsFiniteSet(desk.watch[u] \cup desk.held[u])
         /\ desk.minimum[u] \in Int \cup {NoMinimum}
         /\ \A s \in Symbol : /\ run[w].quotes[s] \in Quote \cup {NoQuote}
                              /\ IsFiniteSet(desk.levels[s])
                              /\ \A l \in desk.levels[s] : l.price \in Int
<1>1. run[w] \in RunState /\ desk \in Desk
  BY DEF TypeInv
<1>2. u \in User
  BY <1>1 DEF RunState
<1> QED
  BY <1>1, <1>2, TablesAssumption DEF RunState

\* Every symbol of a user's book is listed, cut and counted, below the user's
\* minimum, a fund or named with the reason its price is missing, each exactly
\* once, and none that is cut moved more than one that is listed: for any book,
\* quotes, minimum, length of the list and opening hours.
THEOREM EveryBookIsAccountedFor == Spec => []BookIsAccountedFor
<1>1. TypeInv => BookIsAccountedFor
  <2> SUFFICES ASSUME TypeInv, NEW w \in Worker, NEW u \in run[w].todo
               PROVE  LeavesNoneOut(build_gap_list_message(Book("gap_list", u), run[w].quotes,
                                                           desk.minimum[u],
                                                           _is_market_open_for(time)),
                                    Book("gap_list", u), run[w].quotes, desk.minimum[u])
    BY DEF BookIsAccountedFor
  <2>1. PICK q : q = run[w].quotes
    OBVIOUS
  <2>2. PICK book : book = Book("gap_list", u)
    OBVIOUS
  <2>3. PICK minimum \in Int \cup {NoMinimum} : minimum = desk.minimum[u]
    BY WorksOn
  <2>4. PICK hours : hours = _is_market_open_for(time)
    OBVIOUS
  <2>5. book = desk.watch[u] \cup desk.held[u]
    BY <2>2 DEF Book
  <2>6. IsFiniteSet(book) /\ \A s \in book : q[s] \in Quote \cup {NoQuote}
    BY <2>1, <2>5, WorksOn
  <2>7. PICK m : m = build_gap_list_message(book, q, minimum, hours)
    OBVIOUS
  <2>8. Accounts(m, book, q, Left(q, book, minimum, m))
    BY <2>6, <2>7, GapList
  <2>9. Named(m) \cap (Funds(q, book) \cup Below(q, book, minimum)) = {}
    BY <2>6, <2>7, BookParts
  <2>10. LeavesNoneOut(m, book, q, minimum)
    BY <2>8, <2>9 DEF LeavesNoneOut, Accounts, Left, Named, Funds, Below
  <2> QED
    BY <2>1, <2>2, <2>3, <2>4, <2>7, <2>10
<1> QED
  BY <1>1, AlwaysTyped, PTL

\* Of a symbol the proximity digest shows, each level within reach or one of its kind
\* that is no farther is a line; a symbol the length guard cuts has no level in reach
\* that is closer than the nearest line of any symbol shown, and is counted: for any
\* levels, sources, tolerance, reach and length of the message.
THEOREM NearestIsAlwaysShown == Spec => []NearestIsShown
<1>1. TypeInv => NearestIsShown
  <2> SUFFICES ASSUME TypeInv, NEW w \in Worker, NEW u \in run[w].todo
               PROVE  LET q == run[w].quotes
                          lines == compute_proximity_for_user(desk.watch[u], desk.levels, q, u)
                      IN ShowsTheNearest(build_digest_message(lines, q), lines, Reach(u, q), q)
    BY DEF NearestIsShown
  <2>1. PICK q : q = run[w].quotes
    OBVIOUS
  <2>2. PICK watched : watched = desk.watch[u]
    OBVIOUS
  <2>3. PICK lines : lines = compute_proximity_for_user(watched, desk.levels, q, u)
    OBVIOUS
  <2>4. PICK reach : reach = Reach(u, q)
    OBVIOUS
  <2>5. watched \subseteq Symbol /\ IsFiniteSet(watched)
    <3>1. /\ desk.watch[u] \subseteq Symbol /\ IsFiniteSet(desk.watch[u] \cup desk.held[u])
          /\ desk.watch[u] \subseteq desk.watch[u] \cup desk.held[u]
      BY WorksOn
    <3>2. IsFiniteSet(desk.watch[u])
      BY <3>1, FS_Subset
    <3> QED
      BY <2>2, <3>1, <3>2
  <2>6. DOMAIN lines = watched /\ DOMAIN reach = watched
    BY <2>2, <2>3, <2>4 DEF compute_proximity_for_user, Reach
  <2>7. ASSUME NEW s \in watched
        PROVE  Stands(lines, reach, q, s)
    <3>1. CASE q[s] = NoQuote
      <4>1. lines[s] = {} /\ reach[s] = {}
        BY <2>2, <2>3, <2>4, <3>1 DEF compute_proximity_for_user, Reach
      <4> QED
        BY <4>1, FS_EmptySet DEF Stands, Levelled
    <3>2. CASE q[s] # NoQuote
      <4>1. PICK price \in Int : price = q[s].price
        BY <2>1, <2>5, <3>2, WorksOn DEF Quote
      <4>2. PICK matches : matches = InRange(desk.levels[s], price, u)
        OBVIOUS
      <4>3. IsFiniteSet(desk.levels[s]) /\ \A l \in desk.levels[s] : l.price \in Int
        BY <2>5, WorksOn
      <4>4. matches \subseteq desk.levels[s] /\ \A l \in matches : l.price > 0
        BY <4>2 DEF InRange
      <4>5. Levelled(matches)
        BY <4>3, <4>4, FS_Subset DEF Levelled
      <4>6. /\ reach[s] = matches
            /\ lines[s] = _dedupe_cross_source_matches(matches, price)
        BY <2>2, <2>3, <2>4, <3>2, <4>1, <4>2 DEF compute_proximity_for_user, Reach
      <4> QED
        BY <4>1, <4>5, <4>6, LinesAreMatches, ShownFor DEF Stands
    <3> QED
      BY <3>1, <3>2
  <2>8. ShowsTheNearest(build_digest_message(lines, q), lines, reach, q)
    BY <2>5, <2>6, <2>7, Message
  <2> QED
    BY <2>1, <2>2, <2>3, <2>4, <2>8
<1> QED
  BY <1>1, AlwaysTyped, PTL
=============================================================================
