------------------------ MODULE PipelineHealthProofs ------------------------
(***************************************************************************)
(* Type correctness, NoFalseAlarm and LastMessageTells, for any number of  *)
(* processes and feeds, any thresholds, TTLs and cooldowns that satisfy    *)
(* HealthAssumption, any lag, and any number of outages, failures and      *)
(* retries.                                                                *)
(***************************************************************************)
EXTENDS PipelineHealth, TLAPS

CheckState ==
  [pc : {"idle", "waiting", "read", "claim", "mark", "tell_down", "was_down",
         "clear_down", "clear_lock", "tell_recovered"},
   at : DOMAIN Section, lag : 0 .. MaxLag, claimed : BOOLEAN, shared : BOOLEAN,
   retries : 0 .. MaxRetries]

\* Where a check is once it has decided that its feed stopped, or came back.
Decided == {"claim", "mark", "tell_down", "clear_down", "clear_lock", "tell_recovered"}

\* A feed that has never failed has no key yet or a stamp within its gap.
NeverOld(f) == IF up[f] THEN age[f] <= Gap[f] ELSE age[f] = Horizon(f)

\* The inductive invariant: no check has decided anything about such a feed.
Undisturbed(f) ==
  /\ NeverOld(f)
  /\ told[f] = "nothing" /\ ~down[f]
  /\ \A r \in Run : run[r].pc \in Decided => Looking(r) # f

HealthInv == \A f \in Feed : steady[f] => Undisturbed(f)

-----------------------------------------------------------------------------
(* Constants.                                                              *)

LEMMA Sections ==
  /\ DOMAIN Section = 1 .. Len(Section) /\ Len(Section) \in Nat \ {0}
  /\ 1 \in DOMAIN Section /\ \A i \in DOMAIN Section : Section[i] \in Feed
  /\ Quotes \in Feed
<1>1. Section \in Seq(Feed) /\ Len(Section) > 0
  BY HealthAssumption
<1>2. DOMAIN Section = 1 .. Len(Section) /\ Len(Section) \in Nat \ {0}
  BY <1>1
<1> QED
  BY <1>1, <1>2 DEF Quotes

LEMMA Horizons ==
  ASSUME NEW f \in Feed
  PROVE  /\ Horizon(f) \in Nat /\ Ttl[f] \in Nat /\ Gap[f] \in Nat /\ Threshold[f] \in Nat
         /\ Gap[f] \in 1 .. Threshold[f]
         /\ Ttl[f] <= Horizon(f) /\ Gap[f] <= Horizon(f)
BY HealthAssumption DEF Horizon

-----------------------------------------------------------------------------
(* States of a check.                                                      *)

LEMMA FreshState ==
  ASSUME NEW pc \in {"idle", "waiting", "read"}, NEW b \in BOOLEAN,
         NEW n \in 0 .. MaxRetries
  PROVE  Fresh(pc, b, n) \in CheckState /\ Fresh(pc, b, n).pc = pc
<1>1. 0 \in 0 .. MaxLag
  BY HealthAssumption
<1> QED
  BY <1>1, Sections DEF Fresh, CheckState

LEMMA IdleState == IdleRun \in CheckState /\ IdleRun.pc = "idle"
<1>1. 0 \in 0 .. MaxRetries
  BY HealthAssumption
<1> QED
  BY <1>1, FreshState DEF IdleRun

LEMMA OnState ==
  ASSUME NEW r \in Run, run[r] \in CheckState,
         NEW pc \in {"read", "claim", "mark", "tell_down", "was_down", "clear_down",
                     "clear_lock", "tell_recovered"},
         NEW i \in DOMAIN Section, NEW b \in BOOLEAN
  PROVE  On(r, pc, i, b) \in CheckState /\ On(r, pc, i, b).pc = pc /\ On(r, pc, i, b).at = i
BY DEF On, CheckState

LEMMA GoState ==
  ASSUME NEW r \in Run, run[r] \in CheckState,
         NEW pc \in {"claim", "mark", "tell_down", "was_down", "clear_down",
                     "clear_lock", "tell_recovered"}
  PROVE  Go(r, pc) \in CheckState /\ Go(r, pc).pc = pc /\ Go(r, pc).at = run[r].at
<1>1. run[r].at \in DOMAIN Section /\ run[r].claimed \in BOOLEAN
  BY DEF CheckState
<1>2. pc \in {"read", "claim", "mark", "tell_down", "was_down", "clear_down",
             "clear_lock", "tell_recovered"}
  OBVIOUS
<1> QED
  BY <1>1, <1>2, OnState DEF Go

LEMMA NextState ==
  ASSUME NEW r \in Run, run[r] \in CheckState
  PROVE  NextSection(r) \in CheckState /\ NextSection(r).pc \in {"idle", "read"}
<1>1. run[r].at \in 1 .. Len(Section)
  BY Sections DEF CheckState
<1>2. CASE run[r].at < Len(Section)
  <2>1. run[r].at + 1 \in DOMAIN Section
    BY <1>1, <1>2, Sections
  <2>2. ASSUME NEW i \in DOMAIN Section
        PROVE  On(r, "read", i, FALSE) \in CheckState /\ On(r, "read", i, FALSE).pc = "read"
    BY DEF On, CheckState
  <2> QED
    BY <1>2, <2>1, <2>2 DEF NextSection
<1>3. CASE ~(run[r].at < Len(Section))
  BY <1>3, IdleState DEF NextSection
<1> QED
  BY <1>2, <1>3

-----------------------------------------------------------------------------
(* What a step of one check does to it.                                    *)

\* It goes on to a decision only from one about the same feed, or, when its
\* feed is old enough or was down, from the reads before it.
LEMMA CheckMoves ==
  ASSUME TypeOK, HealthInv, NEW r \in Run,
         \/ Read(r) \/ Claim(r) \/ MarkDown(r) \/ WasDown(r) \/ ClearDown(r)
         \/ ClearLock(r) \/ Notify(r) \/ LoseMessage(r) \/ Raise(r) \/ Kill(r)
  PROVE  \E c \in CheckState :
           /\ run' = [run EXCEPT ![r] = c]
           /\ c.pc \in Decided => /\ c.at = run[r].at
                                  /\ run[r].pc \in Decided \/ ~steady[Looking(r)]
<1> DEFINE f == Looking(r)
<1> DEFINE Fine(c) ==
      c.pc \in Decided => c.at = run[r].at /\ (run[r].pc \in Decided \/ ~steady[f])
<1> SUFFICES \E c \in CheckState : run' = [run EXCEPT ![r] = c] /\ Fine(c)
  OBVIOUS
<1>1. run[r] \in CheckState /\ run[r].at \in DOMAIN Section /\ f \in Feed
  BY Sections DEF TypeOK, CheckState, Looking
<1>2. NextSection(r) \in CheckState /\ Fine(NextSection(r))
  BY <1>1, NextState DEF Decided
<1>3. IdleRun \in CheckState /\ Fine(IdleRun)
  BY IdleState DEF Decided
<1>13. ASSUME NEW n \in 0 .. MaxRetries
       PROVE  Fresh("waiting", FALSE, n) \in CheckState /\ Fine(Fresh("waiting", FALSE, n))
  BY FreshState DEF Decided
<1>4. ASSUME NEW pc \in {"claim", "mark", "tell_down", "was_down", "clear_down",
                         "clear_lock", "tell_recovered"},
             pc \in Decided => run[r].pc \in Decided \/ ~steady[f]
      PROVE  Go(r, pc) \in CheckState /\ Fine(Go(r, pc))
  BY <1>1, <1>4, GoState
<1> HIDE DEF f, Fine
<1>5. CASE Read(r)
  <2>1. CASE ~has_data(f)
    BY <1>5, <2>1, <1>2, <1>3 DEF Read, f
  <2>2. CASE has_data(f) /\ ~is_stale(r, f)
    <3>1. Go(r, "was_down") \in CheckState /\ Fine(Go(r, "was_down"))
      BY <1>4 DEF Decided
    <3> QED
      BY <1>5, <2>2, <3>1 DEF Read, f
  <2>3. CASE has_data(f) /\ is_stale(r, f)
    <3>1. ~steady[f]
      <4> SUFFICES ASSUME steady[f] PROVE FALSE
        OBVIOUS
      <4>1. NeverOld(f)
        BY <1>1 DEF HealthInv, Undisturbed
      <4>2. age[f] <= Gap[f]
        BY <4>1, <2>3, <1>1, Horizons DEF NeverOld, has_data, TypeOK
      <4>3. run[r].lag \in Nat
        BY <1>1, HealthAssumption DEF CheckState
      <4>4. age[f] \in Nat
        BY <1>1 DEF TypeOK
      <4> QED
        BY <4>2, <4>3, <4>4, <2>3, <1>1, Horizons DEF is_stale
    <3>2. Go(r, "claim") \in CheckState /\ Fine(Go(r, "claim"))
      BY <1>4, <3>1
    <3> QED
      BY <1>5, <2>3, <3>2 DEF Read, f
  <2> QED
    BY <2>1, <2>2, <2>3
<1>6. CASE Claim(r)
  <2>1. (lock[f] = 0) \in BOOLEAN
    OBVIOUS
  <2>2. On(r, "mark", run[r].at, lock[f] = 0) \in CheckState
    BY <1>1, <2>1, OnState
  <2>3. Fine(On(r, "mark", run[r].at, lock[f] = 0))
    <3>1. On(r, "mark", run[r].at, lock[f] = 0).at = run[r].at
      BY DEF On
    <3> QED
      BY <1>6, <3>1 DEF Fine, Claim, Decided
  <2> QED
    BY <1>6, <2>2, <2>3 DEF Claim, f
<1>7. CASE MarkDown(r)
  <2>1. Go(r, "tell_down") \in CheckState /\ Fine(Go(r, "tell_down"))
    BY <1>7, <1>4 DEF MarkDown, Decided
  <2> QED
    BY <1>7, <1>2, <2>1 DEF MarkDown, f
<1>8. CASE WasDown(r)
  <2>1. CASE down[f]
    <3>1. ~steady[f]
      BY <1>1, <2>1 DEF HealthInv, Undisturbed
    <3>2. Go(r, "clear_down") \in CheckState /\ Fine(Go(r, "clear_down"))
      BY <1>4, <3>1
    <3> QED
      BY <1>8, <2>1, <3>2 DEF WasDown, f
  <2>2. CASE ~down[f]
    BY <1>8, <2>2, <1>2 DEF WasDown, f
  <2> QED
    BY <2>1, <2>2
<1>9. CASE ClearDown(r)
  <2>1. Go(r, "clear_lock") \in CheckState /\ Fine(Go(r, "clear_lock"))
    BY <1>9, <1>4 DEF ClearDown, Decided
  <2> QED
    BY <1>9, <2>1 DEF ClearDown, f
<1>10. CASE ClearLock(r)
  <2>1. Go(r, "tell_recovered") \in CheckState /\ Fine(Go(r, "tell_recovered"))
    BY <1>10, <1>4 DEF ClearLock, Decided
  <2> QED
    BY <1>10, <2>1 DEF ClearLock, f
<1>11. CASE Notify(r) \/ LoseMessage(r)
  BY <1>11, <1>2 DEF Notify, LoseMessage, f
<1>12. CASE Raise(r) \/ Kill(r)
  <2>1. run[r].retries \in 0 .. MaxRetries
    BY <1>1 DEF CheckState
  <2>2. run[r].retries < MaxRetries => run[r].retries + 1 \in 0 .. MaxRetries
    BY <2>1, HealthAssumption
  <2>3. \/ run' = [run EXCEPT ![r] = IdleRun]
        \/ \E n \in 0 .. MaxRetries : run' = [run EXCEPT ![r] = Fresh("waiting", FALSE, n)]
    BY <1>12, <2>1, <2>2 DEF Raise, Kill
  <2> QED
    BY <2>3, <1>3, <1>13
<1> QED
  BY <1>5, <1>6, <1>7, <1>8, <1>9, <1>10, <1>11, <1>12

-----------------------------------------------------------------------------
(* Types.                                                                  *)

Types ==
  /\ up \in [Feed -> BOOLEAN] /\ steady \in [Feed -> BOOLEAN] /\ due \in BOOLEAN
  /\ age \in [Feed -> Nat] /\ \A f \in Feed : age[f] <= Horizon(f)
  /\ outages \in 0 .. MaxOutages /\ failures \in 0 .. MaxFailures

KeyTypes ==
  /\ lock \in [Feed -> 0 .. Cooldown] /\ down \in [Feed -> BOOLEAN]
  /\ told \in [Feed -> {"nothing", "down", "recovered"}] /\ doubt \in [Feed -> BOOLEAN]

LEMMA TypeInit == Init => TypeOK
<1> SUFFICES ASSUME Init PROVE TypeOK
  OBVIOUS
<1>1. Types
  <2>1. age \in [Feed -> Nat] /\ \A f \in Feed : age[f] <= Horizon(f)
    BY Horizons DEF Init
  <2>2. outages \in 0 .. MaxOutages /\ failures \in 0 .. MaxFailures
    BY HealthAssumption DEF Init
  <2> QED
    BY <2>1, <2>2 DEF Init, Types
<1>2. KeyTypes
  BY HealthAssumption DEF Init, KeyTypes
<1>3. run \in [Run -> CheckState]
  BY IdleState DEF Init
<1> QED
  BY <1>1, <1>2, <1>3 DEF TypeOK, Types, KeyTypes, CheckState

\* The feeds and the bounds.
LEMMA FeedTypes ==
  ASSUME TypeOK, Next
  PROVE  Types'
<1> USE DEF TypeOK, Types
<1>1. ASSUME NEW f \in Feed, Refresh(f) PROVE Types'
  BY <1>1, Horizons DEF Refresh
<1>2. ASSUME NEW f \in Feed, Outage(f) PROVE Types'
  BY <1>2, HealthAssumption DEF Outage
<1>3. CASE Tick
  <2>1. age' \in [Feed -> Nat] /\ \A f \in Feed : age'[f] <= Horizon(f)
    BY <1>3, Horizons DEF Tick
  <2> QED
    BY <1>3, <2>1 DEF Tick
<1>4. ASSUME NEW r \in Run, Check(r) PROVE Types'
  BY <1>4 DEF Check, check_pipeline_health, Retry, Begin, Read, Claim, MarkDown, WasDown,
       ClearDown, ClearLock, Notify, feeds
<1>5. ASSUME NEW r \in Run, LoseMessage(r) \/ Raise(r) \/ Kill(r) PROVE Types'
  <2>1. Failure
    BY <1>5 DEF LoseMessage, Raise, Kill
  <2>2. failures' \in 0 .. MaxFailures
    BY <2>1, HealthAssumption DEF Failure
  <2> QED
    BY <2>1, <2>2 DEF Failure, feeds
<1> QED
  BY <1>1, <1>2, <1>3, <1>4, <1>5 DEF Next

\* The keys and the messages.
LEMMA KeysTypes ==
  ASSUME TypeOK, Next
  PROVE  KeyTypes'
<1> USE DEF TypeOK, KeyTypes
<1>1. ASSUME NEW f \in Feed, Refresh(f) \/ Outage(f) PROVE KeyTypes'
  BY <1>1 DEF Refresh, Outage, keys, messages
<1>2. CASE Tick
  BY <1>2, HealthAssumption DEF Tick, messages
<1>3. ASSUME NEW r \in Run, check_pipeline_health(r) \/ Retry(r) PROVE KeyTypes'
  BY <1>3 DEF check_pipeline_health, Retry, Begin, keys
<1>4. ASSUME NEW r \in Run, Check(r), ~(check_pipeline_health(r) \/ Retry(r)) PROVE KeyTypes'
  <2>1. lock' \in [Feed -> 0 .. Cooldown]
    <3>0. 0 \in 0 .. Cooldown /\ Cooldown \in 0 .. Cooldown
      BY HealthAssumption
    <3>1. CASE Claim(r)
      <4>1. lock' = [lock EXCEPT ![Looking(r)] = IF @ = 0 THEN Cooldown ELSE @]
        BY <3>1 DEF Claim
      <4> QED
        BY <4>1, <3>0
    <3>2. CASE ClearLock(r)
      <4>1. lock' = [lock EXCEPT ![Looking(r)] = 0]
        BY <3>2 DEF ClearLock, Released
      <4> QED
        BY <4>1, <3>0
    <3>3. CASE UNCHANGED lock
      BY <3>3
    <3> QED
      BY <1>4, <3>1, <3>2, <3>3 DEF Check, Read, MarkDown, WasDown, ClearDown, Notify, keys
  <2>2. down' \in [Feed -> BOOLEAN]
    BY <1>4 DEF Check, Read, Claim, MarkDown, WasDown, ClearDown, ClearLock, Notify, keys
  <2>3. told' \in [Feed -> {"nothing", "down", "recovered"}]
    BY <1>4 DEF Check, Read, Claim, MarkDown, WasDown, ClearDown, ClearLock, Notify, messages
  <2>4. doubt' \in [Feed -> BOOLEAN]
    <3>1. run[r].shared \in BOOLEAN
      OBVIOUS
    <3>2. CASE Notify(r)
      BY <3>1, <3>2 DEF Notify
    <3> QED
      BY <1>4, <3>2 DEF Check, Read, Claim, MarkDown, WasDown, ClearDown, ClearLock, messages
  <2> QED
    BY <2>1, <2>2, <2>3, <2>4
<1>5. ASSUME NEW r \in Run, LoseMessage(r) \/ Raise(r) \/ Kill(r) PROVE KeyTypes'
  <2>1. Interrupted(r) \in [Feed -> BOOLEAN]
    BY DEF Interrupted
  <2> QED
    BY <1>5, <2>1 DEF LoseMessage, Raise, Kill, Failure, keys
<1> QED
  BY <1>1, <1>2, <1>3, <1>4, <1>5 DEF Next

\* The checks: a tick only ages them, a beginning makes one fresh and marks the
\* others, every other step moves one.
LEMMA TickState ==
  ASSUME TypeOK, Tick, NEW q \in Run
  PROVE  /\ run'[q] \in CheckState /\ run'[q].pc = run[q].pc /\ run'[q].at = run[q].at
<1>1. run[q] \in CheckState /\ run[q].lag < MaxLag
  BY DEF TypeOK, CheckState, Tick
<1>2. run'[q] = IF Active(q) THEN [run[q] EXCEPT !.lag = @ + 1] ELSE run[q]
  BY DEF Tick
<1>3. run[q].lag + 1 \in 0 .. MaxLag
  BY <1>1, HealthAssumption DEF CheckState
<1> QED
  BY <1>1, <1>2, <1>3 DEF CheckState

LEMMA BeginState ==
  ASSUME TypeOK, NEW r \in Run, Begin(r), NEW q \in Run
  PROVE  /\ run'[q] \in CheckState
         /\ run'[q].pc \in Decided => run'[q].pc = run[q].pc /\ run'[q].at = run[q].at
<1>1. run[q] \in CheckState
  BY DEF TypeOK, CheckState
<1>2. CASE q = r
  <2>1. run'[q] = Fresh("read", Others(r) # {}, run[r].retries)
    BY <1>2 DEF Begin
  <2>2. (Others(r) # {}) \in BOOLEAN /\ run[r].retries \in 0 .. MaxRetries
    BY <1>1, <1>2 DEF CheckState
  <2> QED
    BY <2>1, <2>2, FreshState DEF Decided
<1>3. CASE q # r
  <2>1. run'[q] = IF Active(q) THEN [run[q] EXCEPT !.shared = TRUE] ELSE run[q]
    BY <1>3 DEF Begin
  <2> QED
    BY <1>1, <2>1 DEF CheckState
<1> QED
  BY <1>2, <1>3

LEMMA RunTypes ==
  ASSUME TypeOK, HealthInv, Next
  PROVE  run' \in [Run -> CheckState]
<1>1. run \in [Run -> CheckState]
  BY DEF TypeOK, CheckState
<1>2. CASE Tick
  <2>1. DOMAIN run' = Run /\ run' = [q \in Run |-> run'[q]]
    BY <1>2 DEF Tick
  <2> QED
    BY <1>2, <2>1, TickState
<1>3. ASSUME NEW f \in Feed, Refresh(f) \/ Outage(f) PROVE run' \in [Run -> CheckState]
  BY <1>1, <1>3 DEF Refresh, Outage
<1>4. ASSUME NEW r \in Run, check_pipeline_health(r) \/ Retry(r)
      PROVE  run' \in [Run -> CheckState]
  <2>1. Begin(r)
    BY <1>4 DEF check_pipeline_health, Retry
  <2>2. run' = [q \in Run |-> run'[q]]
    BY <2>1 DEF Begin
  <2> QED
    BY <2>1, <2>2, BeginState
<1>5. ASSUME NEW r \in Run, Check(r) \/ LoseMessage(r) \/ Raise(r) \/ Kill(r),
             ~(check_pipeline_health(r) \/ Retry(r))
      PROVE  run' \in [Run -> CheckState]
  <2>1. PICK c \in CheckState : run' = [run EXCEPT ![r] = c]
    BY <1>5, CheckMoves DEF Check
  <2> QED
    BY <1>1, <2>1
<1> QED
  BY <1>2, <1>3, <1>4, <1>5 DEF Next, Check

-----------------------------------------------------------------------------
(* The invariant.                                                          *)

LEMMA HealthInit == Init => HealthInv
BY DEF Init, HealthInv, Undisturbed, NeverOld, IdleRun, Fresh, Decided

\* A decision about a feed that never failed is not taken in this step either.
LEMMA Undecided ==
  ASSUME TypeOK, HealthInv, Next, NEW f \in Feed, steady[f], NEW q \in Run,
         run'[q].pc \in Decided
  PROVE  Looking(q)' # f
<1>1. run \in [Run -> CheckState] /\ (run[q].pc \in Decided => Looking(q) # f)
  BY DEF TypeOK, CheckState, HealthInv, Undisturbed
<1>2. Looking(q) = Section[run[q].at] /\ Looking(q)' = Section[run'[q].at]
  BY DEF Looking
<1>3. CASE run'[q].pc = run[q].pc /\ run'[q].at = run[q].at
  BY <1>1, <1>2, <1>3
<1>4. CASE Tick
  BY <1>3, <1>4, TickState
<1>5. CASE \E g \in Feed : Refresh(g) \/ Outage(g)
  BY <1>3, <1>5 DEF Refresh, Outage
<1>6. ASSUME NEW r \in Run, check_pipeline_health(r) \/ Retry(r) PROVE Looking(q)' # f
  BY <1>3, <1>6, BeginState DEF check_pipeline_health, Retry
<1>7. ASSUME NEW r \in Run, Check(r) \/ LoseMessage(r) \/ Raise(r) \/ Kill(r),
             ~(check_pipeline_health(r) \/ Retry(r))
      PROVE  Looking(q)' # f
  <2>1. PICK c \in CheckState :
          /\ run' = [run EXCEPT ![r] = c]
          /\ c.pc \in Decided => /\ c.at = run[r].at
                                 /\ run[r].pc \in Decided \/ ~steady[Looking(r)]
    BY <1>7, CheckMoves DEF Check
  <2>2. CASE q # r
    BY <1>1, <1>3, <2>1, <2>2
  <2>3. CASE q = r
    <3>1. run'[q] = c
      BY <1>1, <2>1, <2>3
    <3>2. c.at = run[q].at /\ (run[q].pc \in Decided \/ ~steady[Looking(q)])
      BY <2>1, <2>3, <3>1
    <3> QED
      BY <1>1, <1>2, <3>1, <3>2
  <2> QED
    BY <2>2, <2>3
<1> QED
  BY <1>4, <1>5, <1>6, <1>7 DEF Next, Check

\* Its stamp stays within the gap: a tick waits for the write that is due.
LEMMA StillFresh ==
  ASSUME TypeOK, HealthInv, Next, NEW f \in Feed, steady'[f]
  PROVE  steady[f] /\ NeverOld(f)'
<1>1. CASE Tick
  <2>1. steady[f] /\ up'[f] = up[f] /\ NeverOld(f)
    BY <1>1 DEF Tick, HealthInv, Undisturbed
  <2>2. age'[f] = (IF age[f] < Horizon(f) THEN age[f] + 1 ELSE age[f])
    BY <1>1 DEF Tick
  <2>3. up[f] => age[f] < Gap[f]
    BY <1>1 DEF Tick
  <2>4. age[f] \in Nat
    BY DEF TypeOK
  <2> QED
    BY <2>1, <2>2, <2>3, <2>4, Horizons DEF NeverOld, Horizon
<1>2. ASSUME NEW g \in Feed, Refresh(g) PROVE steady[f] /\ NeverOld(f)'
  <2>1. steady[f] /\ NeverOld(f)
    BY <1>2 DEF Refresh, HealthInv, Undisturbed
  <2>2. CASE f = g
    <3>1. up'[f] /\ age'[f] = 0
      BY <1>2, <2>2 DEF Refresh, TypeOK
    <3> QED
      BY <2>1, <3>1, Horizons DEF NeverOld
  <2>3. CASE f # g
    <3>1. up'[f] = up[f] /\ age'[f] = age[f]
      BY <1>2, <2>3 DEF Refresh, TypeOK
    <3> QED
      BY <2>1, <3>1 DEF NeverOld, Horizon
  <2> QED
    BY <2>2, <2>3
<1>3. ASSUME NEW g \in Feed, Outage(g) PROVE steady[f] /\ NeverOld(f)'
  <2>1. f # g /\ steady[f]
    BY <1>3 DEF Outage, TypeOK
  <2>2. NeverOld(f) /\ up'[f] = up[f] /\ age'[f] = age[f]
    BY <1>3, <2>1 DEF Outage, TypeOK, HealthInv, Undisturbed
  <2> QED
    BY <2>1, <2>2 DEF NeverOld, Horizon
<1>4. CASE UNCHANGED feeds
  BY <1>4 DEF feeds, NeverOld, Horizon, HealthInv, Undisturbed
<1> QED
  BY <1>1, <1>2, <1>3, <1>4 DEF Next, Check, check_pipeline_health, Retry, Begin, Read, Claim,
     MarkDown, WasDown, ClearDown, ClearLock, Notify, LoseMessage, Raise, Kill, Failure

\* Only a check that decided about a feed writes its state or tells of it.
LEMMA Untold ==
  ASSUME TypeOK, HealthInv, Next, NEW f \in Feed, steady[f]
  PROVE  told'[f] = "nothing" /\ ~down'[f]
<1>1. told[f] = "nothing" /\ ~down[f]
  BY DEF HealthInv, Undisturbed
<1>2. ASSUME NEW r \in Run, MarkDown(r) PROVE told'[f] = "nothing" /\ ~down'[f]
  <2>1. Looking(r) # f
    BY <1>2 DEF MarkDown, Decided, HealthInv, Undisturbed
  <2> QED
    BY <1>1, <1>2, <2>1 DEF MarkDown, messages, TypeOK
<1>3. ASSUME NEW r \in Run, ClearDown(r) PROVE told'[f] = "nothing" /\ ~down'[f]
  BY <1>1, <1>3 DEF ClearDown, messages, TypeOK
<1>4. ASSUME NEW r \in Run, Notify(r) PROVE told'[f] = "nothing" /\ ~down'[f]
  <2>1. Looking(r) # f
    BY <1>4 DEF Notify, Decided, HealthInv, Undisturbed
  <2> QED
    BY <1>1, <1>4, <2>1 DEF Notify, keys, TypeOK
<1>5. CASE UNCHANGED <<told, down>>
  BY <1>1, <1>5
<1> QED
  BY <1>2, <1>3, <1>4, <1>5 DEF Next, Check, Tick, Refresh, Outage, check_pipeline_health, Retry,
     Begin, Read, Claim, WasDown, ClearLock, LoseMessage, Raise, Kill, Failure, keys, messages

-----------------------------------------------------------------------------
THEOREM Invariant == Spec => [](TypeOK /\ HealthInv)
<1>1. Init => TypeOK /\ HealthInv
  BY TypeInit, HealthInit
<1>2. TypeOK /\ HealthInv /\ [Next]_vars => (TypeOK /\ HealthInv)'
  <2> SUFFICES ASSUME TypeOK, HealthInv, [Next]_vars PROVE (TypeOK /\ HealthInv)'
    OBVIOUS
  <2>1. CASE Next
    <3>1. TypeOK'
      BY <2>1, FeedTypes, KeysTypes, RunTypes DEF TypeOK, Types, KeyTypes, CheckState
    <3>2. HealthInv'
      BY <2>1, StillFresh, Undecided, Untold DEF HealthInv, Undisturbed
    <3> QED
      BY <3>1, <3>2
  <2>2. CASE UNCHANGED vars
    BY <2>2 DEF vars, feeds, keys, messages, TypeOK, HealthInv, Undisturbed, NeverOld, Looking,
       Horizon
  <2> QED
    BY <2>1, <2>2
<1> QED
  BY <1>1, <1>2, PTL DEF Spec

\* Whatever the processes, feeds and bounds, the stamps, keys and checks keep
\* their types (check_pipeline_health and its Redis keys).
THEOREM TypeCorrect == Spec => []TypeOK
BY Invariant, PTL

\* "A detector nobody trusts is worse": with any number of overlapping, retried
\* and killed checks, check_pipeline_health neither tells users that a feed
\* stopped or recovered nor marks it down, while the feed has never failed.
THEOREM NobodyAlarmedForNothing == Spec => []NoFalseAlarm
<1>1. HealthInv => NoFalseAlarm
  BY DEF HealthInv, Undisturbed, NoFalseAlarm
<1> QED
  BY <1>1, Invariant, PTL

-----------------------------------------------------------------------------
(* The last message.  A check that shares its time with another puts every *)
(* feed in doubt, and a doubt is only lifted by a check that is alone; so  *)
(* what has to be shown is what one check alone does to one feed, step by  *)
(* step, the lock included: a section without a claim may mark a feed down *)
(* silently, which is right only because the lock of a feed that is not    *)
(* down is free.                                                           *)

\* Where a check has written something of its feed and not yet told.
Handled == {"mark", "tell_down", "clear_lock", "tell_recovered"}
Quiet(f) == (told[f] = "down" <=> down[f]) /\ (lock[f] > 0 => down[f])

Stage(r) ==
  LET f == Looking(r)
  IN /\ run[r].pc = "mark" /\ ~doubt[f] =>
          (told[f] = "down" <=> down[f]) /\ (run[r].claimed \/ down[f])
     /\ run[r].pc = "tell_down" => down[f]
     /\ run[r].pc = "clear_lock" => ~down[f]
     /\ run[r].pc = "tell_recovered" => ~down[f] /\ lock[f] = 0

ReportInv ==
  /\ \A r \in Run : Active(r) => IF run[r].shared THEN \A f \in Feed : doubt[f]
                                 ELSE Others(r) = {}
  /\ \A f \in Feed : ~doubt[f] => \/ Quiet(f)
                                  \/ \E r \in Run : run[r].pc \in Handled /\ Looking(r) = f
  /\ \A r \in Run : ~run[r].shared => Stage(r)

\* Any step of a check but its beginning.
CheckStep(r) ==
  \/ Read(r) \/ Claim(r) \/ MarkDown(r) \/ WasDown(r) \/ ClearDown(r)
  \/ ClearLock(r) \/ Notify(r) \/ LoseMessage(r) \/ Raise(r) \/ Kill(r)

LEMMA ReportInit == Init => ReportInv
BY DEF Init, ReportInv, Quiet, Stage, IdleRun, Fresh, Active, Others, Looking

\* A check keeps its mark of company until it ends.
LEMMA KeepsShared ==
  ASSUME TypeOK, HealthInv, NEW r \in Run, CheckStep(r)
  PROVE  /\ Active(r) /\ run[r] \in CheckState /\ Looking(r) \in Feed
         /\ \E c \in CheckState : /\ run' = [run EXCEPT ![r] = c]
                                  /\ c.pc \notin {"idle", "waiting"} => c.shared = run[r].shared
<1>1. run[r] \in CheckState /\ Looking(r) \in Feed
  BY Sections DEF TypeOK, CheckState, Looking
<1>2. Active(r)
  BY DEF CheckStep, Read, Claim, MarkDown, WasDown, ClearDown, ClearLock, Notify, LoseMessage,
     Raise, Kill, Active
<1>3. PICK c \in CheckState : run' = [run EXCEPT ![r] = c]
  BY CheckMoves DEF CheckStep
<1>4. run'[r] = c
  BY <1>3 DEF TypeOK
<1>5. \A pc, i, b : On(r, pc, i, b).shared = run[r].shared /\ Go(r, pc).shared = run[r].shared
  BY DEF On, Go
<1>6. IdleRun.pc = "idle" /\ \A n : Fresh("waiting", FALSE, n).pc = "waiting"
  BY DEF IdleRun, Fresh
<1>7. NextSection(r).pc = "idle" \/ NextSection(r).shared = run[r].shared
  BY <1>5, <1>6 DEF NextSection
<1>8. \/ run'[r].shared = run[r].shared
      \/ run'[r].pc \in {"idle", "waiting"}
  <2>0. \A d : run' = [run EXCEPT ![r] = d] => run'[r] = d
    BY DEF TypeOK
  <2>1. CASE Read(r)
    BY <1>5, <1>6, <1>7, <2>0, <2>1 DEF Read
  <2>2. CASE Claim(r)
    BY <1>5, <2>0, <2>2 DEF Claim
  <2>3. CASE MarkDown(r) \/ WasDown(r) \/ ClearDown(r) \/ ClearLock(r)
    BY <1>5, <1>7, <2>0, <2>3 DEF MarkDown, WasDown, ClearDown, ClearLock
  <2>4. CASE Notify(r) \/ LoseMessage(r)
    BY <1>7, <2>0, <2>4 DEF Notify, LoseMessage
  <2>5. CASE Raise(r) \/ Kill(r)
    BY <1>6, <2>0, <2>5 DEF Raise, Kill
  <2> QED
    BY <2>1, <2>2, <2>3, <2>4, <2>5 DEF CheckStep
<1>9. c.pc \notin {"idle", "waiting"} => c.shared = run[r].shared
  BY <1>4, <1>8
<1> QED
  BY <1>1, <1>2, <1>3, <1>9

\* A step of a check in company, which doubts every feed.
LEMMA SharedStep ==
  ASSUME TypeOK, ReportInv, NEW r \in Run, Active(r), run[r].shared,
         NEW c \in CheckState, run' = [run EXCEPT ![r] = c],
         c.pc \notin {"idle", "waiting"} => c.shared,
         \A f \in Feed : doubt[f] => doubt'[f]
  PROVE  ReportInv'
<1>1. \A f \in Feed : doubt'[f]
  BY DEF ReportInv
<1>2. run'[r] = c /\ \A q \in Run \ {r} : run'[q] = run[q]
  BY DEF TypeOK
<1>3. \A q \in Run \ {r} : Active(q) => run[q].shared
  BY DEF ReportInv, Others
<1>4. \A q \in Run : Active(q)' => run'[q].shared
  BY <1>2, <1>3 DEF Active
<1>5. ASSUME NEW q \in Run, ~run'[q].shared
      PROVE  Stage(q)'
  BY <1>4, <1>5 DEF Stage, Active
<1> QED
  BY <1>1, <1>4, <1>5 DEF ReportInv

\* A step of a check alone, which touches only the feed it looks at.
LEMMA AloneStep ==
  ASSUME TypeOK, ReportInv, NEW r \in Run, Active(r), ~run[r].shared,
         NEW c \in CheckState, run' = [run EXCEPT ![r] = c],
         c.pc \notin {"idle", "waiting"} => ~c.shared,
         NEW f \in Feed, f = Looking(r),
         \A g \in Feed \ {f} : /\ told'[g] = told[g] /\ down'[g] = down[g]
                               /\ lock'[g] = lock[g] /\ doubt'[g] = doubt[g],
         c.pc \in Handled => Looking(r)' = f,
         c.pc \in Handled \/ doubt'[f] \/ Quiet(f)',
         Stage(r)'
  PROVE  ReportInv'
<1>1. run'[r] = c /\ \A q \in Run \ {r} : run'[q] = run[q]
  BY DEF TypeOK
<1>2. \A q \in Run \ {r} : ~Active(q)
  BY DEF ReportInv, Others
<1>3. \A q \in Run : Active(q)' => q = r /\ ~run'[q].shared
  BY <1>1, <1>2 DEF Active
<1>4. ASSUME NEW q \in Run, Active(q)'
      PROVE  ~run'[q].shared /\ Others(q)' = {}
  BY <1>3, <1>4 DEF Others
<1>5. ASSUME NEW g \in Feed, ~doubt'[g]
      PROVE  Quiet(g)' \/ \E q \in Run : run'[q].pc \in Handled /\ Looking(q)' = g
  <2>1. CASE g = f
    BY <1>1, <1>5, <2>1
  <2>2. CASE g # f
    <3>1. Quiet(g)
      BY <1>2, <1>5, <2>2 DEF ReportInv, Active, Handled
    <3> QED
      BY <2>2, <3>1 DEF Quiet
  <2> QED
    BY <2>1, <2>2
<1>6. ASSUME NEW q \in Run, q # r
      PROVE  Stage(q)'
  BY <1>1, <1>2, <1>6 DEF Stage, Active
<1> QED
  BY <1>4, <1>5, <1>6 DEF ReportInv

\* What one check alone does to the feed it looks at.
LEMMA AloneChecks ==
  ASSUME TypeOK, HealthInv, ReportInv, NEW r \in Run, CheckStep(r), ~run[r].shared
  PROVE  ReportInv'
<1>1. PICK c \in CheckState :
        /\ run' = [run EXCEPT ![r] = c]
        /\ c.pc \notin {"idle", "waiting"} => c.shared = run[r].shared
  BY KeepsShared
<1>2. Active(r) /\ run[r] \in CheckState
  BY KeepsShared
<1>3. PICK f \in Feed : f = Looking(r)
  BY KeepsShared
<1>4. /\ told \in [Feed -> {"nothing", "down", "recovered"}] /\ down \in [Feed -> BOOLEAN]
      /\ lock \in [Feed -> 0 .. Cooldown] /\ doubt \in [Feed -> BOOLEAN]
  BY DEF TypeOK
<1>5. Stage(r)
  BY DEF ReportInv
<1>6. run[r].pc \notin Handled /\ ~doubt[f] => Quiet(f)
  <2>1. \A q \in Run \ {r} : ~Active(q)
    BY <1>2 DEF ReportInv, Others
  <2> QED
    BY <2>1 DEF ReportInv, Active, Handled
<1>7. run'[r] = c /\ (c.at = run[r].at => Looking(r)' = f)
  BY <1>1, <1>3 DEF TypeOK, Looking
<1> DEFINE Elsewhere ==
      \A g \in Feed \ {f} : /\ told'[g] = told[g] /\ down'[g] = down[g]
                            /\ lock'[g] = lock[g] /\ doubt'[g] = doubt[g]
\* Either it goes on with this feed, or what it leaves is in order.
<1>8. ASSUME Elsewhere,
             \/ /\ c.pc \in Handled /\ c.at = run[r].at /\ Stage(r)'
             \/ c.pc \notin Handled /\ (doubt'[f] \/ Quiet(f)')
      PROVE  ReportInv'
  <2>1. Stage(r)'
    BY <1>7, <1>8 DEF Stage, Handled
  <2> QED
    BY <1>1, <1>2, <1>3, <1>7, <1>8, <2>1, AloneStep
<1>9. NextSection(r).pc \notin Handled
  BY <1>2, NextState DEF Handled
<1>10. \A pc : /\ Go(r, pc).pc = pc /\ Go(r, pc).at = run[r].at
               /\ \A b : On(r, pc, run[r].at, b).pc = pc /\ On(r, pc, run[r].at, b).at = run[r].at
  BY DEF Go, On
<1>11. CASE Read(r)
  <2>1. c.pc \notin Handled
    BY <1>1, <1>7, <1>9, <1>10, <1>11 DEF Read, Handled, IdleRun, Fresh, TypeOK
  <2>2. Elsewhere /\ UNCHANGED <<told, down, lock, doubt>>
    BY <1>11 DEF Read, keys, messages
  <2>3. doubt'[f] \/ Quiet(f)'
    BY <1>6, <1>11, <2>2 DEF Read, Handled, Quiet
  <2> QED
    BY <1>8, <2>1, <2>2, <2>3
<1>12. CASE Claim(r)
  <2>1. c = On(r, "mark", run[r].at, lock[f] = 0) /\ c.claimed = (lock[f] = 0)
    BY <1>1, <1>3, <1>7, <1>12 DEF Claim, On, TypeOK
  <2>2. Elsewhere /\ UNCHANGED <<told, down, doubt>>
    BY <1>3, <1>4, <1>12 DEF Claim, messages
  <2>3. ~doubt[f] => Quiet(f)
    BY <1>6, <1>12 DEF Claim, Handled
  <2>4. c.pc = "mark" /\ c.at = run[r].at
    BY <1>10, <2>1
  <2>5. lock[f] = 0 \/ lock[f] > 0
    BY <1>4, HealthAssumption
  <2>6. Stage(r)'
    BY <1>7, <2>1, <2>2, <2>3, <2>4, <2>5 DEF Stage, Quiet
  <2> QED
    BY <1>8, <2>2, <2>4, <2>6 DEF Handled
<1>13. CASE MarkDown(r)
  <2>1. Elsewhere /\ UNCHANGED <<told, lock, doubt>> /\ down'[f]
    BY <1>3, <1>4, <1>13 DEF MarkDown, messages
  <2>2. CASE run[r].claimed
    <3>1. c = Go(r, "tell_down")
      BY <1>1, <1>13, <2>2, <1>7 DEF MarkDown, TypeOK
    <3>2. c.pc = "tell_down" /\ c.at = run[r].at
      BY <1>10, <3>1
    <3>3. Stage(r)'
      BY <1>7, <2>1, <3>2 DEF Stage
    <3> QED
      BY <1>8, <2>1, <3>2, <3>3 DEF Handled
  <2>3. CASE ~run[r].claimed
    <3>1. c = NextSection(r)
      BY <1>1, <1>13, <2>3, <1>7 DEF MarkDown, TypeOK
    <3>2. doubt'[f] \/ Quiet(f)'
      BY <1>3, <1>5, <1>13, <2>1, <2>3 DEF Stage, Quiet, MarkDown
    <3> QED
      BY <1>8, <1>9, <2>1, <3>1, <3>2
  <2> QED
    BY <2>2, <2>3
<1>14. CASE WasDown(r)
  <2>1. c.pc \notin Handled
    BY <1>1, <1>7, <1>9, <1>10, <1>14 DEF WasDown, Handled, TypeOK
  <2>2. Elsewhere /\ UNCHANGED <<told, down, lock, doubt>>
    BY <1>14 DEF WasDown, keys, messages
  <2>3. doubt'[f] \/ Quiet(f)'
    BY <1>6, <1>14, <2>2 DEF WasDown, Handled, Quiet
  <2> QED
    BY <1>8, <2>1, <2>2, <2>3
<1>15. CASE ClearDown(r)
  <2>1. Elsewhere /\ ~down'[f]
    BY <1>3, <1>4, <1>15 DEF ClearDown, messages
  <2>2. c.pc = "clear_lock" /\ c.at = run[r].at
    BY <1>1, <1>7, <1>10, <1>15 DEF ClearDown, TypeOK
  <2>3. Stage(r)'
    BY <1>7, <2>1, <2>2 DEF Stage
  <2> QED
    BY <1>8, <2>1, <2>2, <2>3 DEF Handled
<1>16. CASE ClearLock(r)
  <2>1. Elsewhere /\ down' = down /\ lock'[f] = 0
    BY <1>3, <1>4, <1>16 DEF ClearLock, Released, messages
  <2>2. c.pc = "tell_recovered" /\ c.at = run[r].at
    BY <1>1, <1>7, <1>10, <1>16 DEF ClearLock, TypeOK
  <2>3. ~down[f]
    BY <1>3, <1>5, <1>16 DEF Stage, ClearLock
  <2>4. Stage(r)'
    BY <1>7, <2>1, <2>2, <2>3 DEF Stage
  <2> QED
    BY <1>8, <2>1, <2>2, <2>4 DEF Handled
<1>17. CASE Notify(r)
  <2>1. Elsewhere /\ UNCHANGED <<down, lock>>
        /\ told'[f] = IF run[r].pc = "tell_down" THEN "down" ELSE "recovered"
    BY <1>3, <1>4, <1>17 DEF Notify, keys
  <2>2. c = NextSection(r)
    BY <1>1, <1>7, <1>17 DEF Notify, TypeOK
  <2>3. Quiet(f)'
    BY <1>3, <1>5, <1>17, <2>1 DEF Stage, Quiet, Notify
  <2> QED
    BY <1>8, <1>9, <2>1, <2>2, <2>3
<1>18. CASE LoseMessage(r) \/ Raise(r) \/ Kill(r)
  <2>1. doubt' = Interrupted(r) /\ UNCHANGED <<told, down, lock>>
    BY <1>18 DEF LoseMessage, Raise, Kill, Failure, keys
  <2>2. Elsewhere
    BY <1>3, <1>4, <2>1 DEF Interrupted
  <2>3. doubt'[f] = (doubt[f] \/ run[r].pc \notin {"read", "was_down", "claim"})
    BY <1>3, <1>4, <2>1 DEF Interrupted
  <2>4. doubt'[f] \/ Quiet(f)'
    BY <1>6, <2>1, <2>3 DEF Quiet, Handled
  <2>5. c.pc \notin Handled
    <3>1. CASE LoseMessage(r)
      BY <1>1, <1>7, <1>9, <3>1 DEF LoseMessage, TypeOK
    <3>2. CASE Raise(r)
      <4>1. c = IdleRun \/ c = Fresh("waiting", FALSE, run[r].retries + 1)
        BY <1>1, <1>7, <3>2 DEF Raise, TypeOK
      <4> QED
        BY <4>1 DEF IdleRun, Fresh, Handled
    <3>3. CASE Kill(r)
      <4>1. c = Fresh("waiting", FALSE, run[r].retries)
        BY <1>1, <1>7, <3>3 DEF Kill, TypeOK
      <4> QED
        BY <4>1 DEF Fresh, Handled
    <3> QED
      BY <1>18, <3>1, <3>2, <3>3
  <2> QED
    BY <1>8, <2>2, <2>4, <2>5
<1> QED
  BY <1>11, <1>12, <1>13, <1>14, <1>15, <1>16, <1>17, <1>18 DEF CheckStep

LEMMA CheckReports ==
  ASSUME TypeOK, HealthInv, ReportInv, NEW r \in Run, CheckStep(r)
  PROVE  ReportInv'
<1>1. CASE ~run[r].shared
  BY <1>1, AloneChecks
<1>2. CASE run[r].shared
  <2>1. PICK c \in CheckState :
          /\ run' = [run EXCEPT ![r] = c]
          /\ c.pc \notin {"idle", "waiting"} => c.shared = run[r].shared
    BY KeepsShared
  <2>2. Active(r)
    BY KeepsShared
  <2>3. \A f \in Feed : doubt[f] => doubt'[f]
    <3>1. CASE Notify(r)
      BY <1>2, <3>1 DEF Notify, TypeOK
    <3>2. CASE LoseMessage(r) \/ Raise(r) \/ Kill(r)
      BY <3>2 DEF LoseMessage, Raise, Kill, Interrupted, TypeOK
    <3>3. CASE doubt' = doubt
      BY <3>3
    <3> QED
      BY <3>1, <3>2, <3>3 DEF CheckStep, Read, Claim, MarkDown, WasDown, ClearDown, ClearLock,
         messages
  <2> QED
    BY <1>2, <2>1, <2>2, <2>3, SharedStep
<1> QED
  BY <1>1, <1>2

\* A check that begins is alone, or everything is in doubt.
LEMMA BeginReports ==
  ASSUME TypeOK, ReportInv, NEW r \in Run, ~Active(r), Begin(r)
  PROVE  ReportInv'
<1>1. /\ run'[r] = Fresh("read", Others(r) # {}, run[r].retries)
      /\ \A q \in Run \ {r} : run'[q] = IF Active(q) THEN [run[q] EXCEPT !.shared = TRUE] ELSE run[q]
      /\ UNCHANGED <<told, down, lock>>
  BY DEF Begin, keys
<1>2. run'[r].pc = "read" /\ run'[r].shared = (Others(r) # {})
  BY <1>1 DEF Fresh
<1>3. \A q \in Run \ {r} : /\ run'[q].pc = run[q].pc /\ run'[q].at = run[q].at
                           /\ Active(q) => run'[q].shared
                           /\ ~Active(q) => run'[q] = run[q]
  BY <1>1 DEF TypeOK
<1>4. \A f \in Feed : doubt'[f] = (doubt[f] \/ Others(r) # {})
  BY DEF Begin
<1>5. CASE Others(r) # {}
  <2>1. \A f \in Feed : doubt'[f]
    BY <1>4, <1>5
  <2>2. \A q \in Run : Active(q)' => run'[q].shared
    BY <1>2, <1>3, <1>5 DEF Active
  <2>3. ASSUME NEW q \in Run, ~run'[q].shared
        PROVE  Stage(q)'
    BY <2>2, <2>3 DEF Stage, Active
  <2> QED
    BY <2>1, <2>2, <2>3 DEF ReportInv
<1>6. CASE Others(r) = {}
  <2>1. \A q \in Run : ~Active(q)
    BY <1>6 DEF Others
  <2>2. Others(r)' = {} /\ \A q \in Run : Active(q)' => q = r
    BY <1>3, <2>1 DEF Others, Active
  <2>3. \A f \in Feed : ~doubt'[f] => Quiet(f)'
    BY <1>1, <1>4, <1>6, <2>1 DEF ReportInv, Quiet, Active, Handled
  <2>4. ASSUME NEW q \in Run
        PROVE  Stage(q)'
    BY <1>2, <1>3, <2>1 DEF Stage, Active
  <2> QED
    BY <1>2, <1>6, <2>2, <2>3, <2>4 DEF ReportInv
<1> QED
  BY <1>5, <1>6

\* Time and the feeds write no key; a key that expires says nothing.
LEMMA OtherReports ==
  ASSUME TypeOK, ReportInv, UNCHANGED <<told, down, doubt>>,
         \A f \in Feed : lock'[f] = lock[f] \/ lock'[f] < lock[f],
         \A f \in Feed : lock[f] \in Nat /\ lock'[f] \in Nat,
         \A q \in Run : /\ run'[q].pc = run[q].pc /\ run'[q].at = run[q].at
                        /\ run'[q].claimed = run[q].claimed /\ run'[q].shared = run[q].shared
  PROVE  ReportInv'
<1>1. \A q \in Run : Looking(q)' = Looking(q) /\ (Active(q)' <=> Active(q)) /\ Looking(q) \in Feed
  BY Sections DEF Looking, Active, TypeOK
<1>2. \A q \in Run : Others(q)' = Others(q)
  BY <1>1 DEF Others
<1>3. \A f \in Feed : Quiet(f) => Quiet(f)'
  BY DEF Quiet
<1>4. ASSUME NEW q \in Run, ~run'[q].shared
      PROVE  Stage(q)'
  <2>1. Stage(q)
    BY <1>4 DEF ReportInv
  <2> QED
    BY <1>1, <2>1 DEF Stage
<1> QED
  BY <1>1, <1>2, <1>3, <1>4 DEF ReportInv

LEMMA NextReports == TypeOK /\ HealthInv /\ ReportInv /\ [Next]_vars => ReportInv'
<1> SUFFICES ASSUME TypeOK, HealthInv, ReportInv, [Next]_vars PROVE ReportInv'
  OBVIOUS
<1>1. \A f \in Feed : lock[f] \in Nat
  BY HealthAssumption DEF TypeOK
<1>2. CASE Tick
  <2>1. \A f \in Feed : lock'[f] \in Nat /\ (lock'[f] = lock[f] \/ lock'[f] < lock[f])
    BY <1>1, <1>2 DEF Tick
  <2>2. \A q \in Run : /\ run'[q].pc = run[q].pc /\ run'[q].at = run[q].at
                       /\ run'[q].claimed = run[q].claimed /\ run'[q].shared = run[q].shared
    BY <1>2 DEF Tick, TypeOK
  <2>3. UNCHANGED <<told, down, doubt>>
    BY <1>2 DEF Tick, messages
  <2> QED
    BY <1>1, <2>1, <2>2, <2>3, OtherReports
<1>3. CASE UNCHANGED <<run, lock, told, down, doubt>>
  BY <1>1, <1>3, OtherReports
<1>4. ASSUME NEW r \in Run, check_pipeline_health(r) \/ Retry(r)
      PROVE  ReportInv'
  BY <1>4, BeginReports DEF check_pipeline_health, Retry, Active
<1>5. ASSUME NEW r \in Run, CheckStep(r)
      PROVE  ReportInv'
  BY <1>5, CheckReports
<1>6. ASSUME NEW f \in Feed, Refresh(f) \/ Outage(f)
      PROVE  ReportInv'
  BY <1>3, <1>6 DEF Refresh, Outage, keys, messages
<1>7. CASE UNCHANGED vars
  BY <1>3, <1>7 DEF vars, keys, messages
<1> QED
  BY <1>2, <1>4, <1>5, <1>6, <1>7 DEF Next, Check, CheckStep

\* Between checks the last message about a feed is the truth about its state,
\* unless one was lost or two checks overlapped since: a new outage is told even
\* within the cooldown of the last (check_pipeline_health releases the lock on
\* recovery), and a recovery is told once.
THEOREM LastMessageIsTrue == Spec => []LastMessageTells
<1>1. ReportInv => LastMessageTells
  BY DEF ReportInv, LastMessageTells, Quiet, Handled
<1> QED
  BY <1>1, ReportInit, NextReports, Invariant, PTL DEF Spec
=============================================================================
