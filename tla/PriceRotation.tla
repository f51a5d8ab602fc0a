--------------------------- MODULE PriceRotation ---------------------------
(***************************************************************************)
(* backend/workers/price_fetcher.py: fetch_prices, started every minute,   *)
(* serves one market slot per run.  Slots are served in a ring; the only   *)
(* memory between runs is a counter in Redis that every run increments and *)
(* that a run which skipped closed markets sets to the slot it served,     *)
(* after its fetch.  Nothing keeps two runs from overlapping: a fetch may  *)
(* take longer than the minute between two beats.                          *)
(*                                                                         *)
(* The counter is kept modulo the number of slots, which is all the code   *)
(* uses of it.                                                             *)
(***************************************************************************)
EXTENDS Integers, FiniteSets

CONSTANTS
  NumSlots,       \* the last slot is Overview: always open, never empty
  Workers,        \* how many runs may be under way at once
  Null

Slot == 0 .. NumSlots - 1
Worker == 1 .. Workers
Run == [raw : Slot, attempt : Slot, alone : BOOLEAN]

RotationAssumption ==
  /\ NumSlots \in Nat \ {0, 1}
  /\ Workers \in Nat \ {0}
  /\ Null \notin Nat /\ Null \notin Run

\* Overview, and SET, to which the SET index is added whatever is watched.
\* (Crypto never closes either: here it is as free as the others.)
NeverEmpty == {0, NumSlots - 1}
NeverClosed == {NumSlots - 1}

VARIABLES
  counter,    \* REDIS_SLOT_KEY
  open,       \* slots whose market hours it is
  stocked,    \* slots with a watched symbol
  run,        \* Worker -> the run it executes, or Null
  served,     \* the slot a run chose last
  waited      \* Slot -> runs since it was last chosen, since the last
              \* disturbance (overlapping runs, market hours, watchlists)

rotationVars == <<counter, open, stocked, run, served, waited>>

-----------------------------------------------------------------------------
Fetchable == open \cap stocked

\* attempt: how many slots are skipped, from raw on, to reach a fetchable one.
Skips(raw) == CHOOSE n \in Slot : /\ (raw + n) % NumSlots \in Fetchable
                                  /\ \A m \in 0 .. n - 1 : (raw + m) % NumSlots \notin Fetchable

\* What disturbs the order for which waited counts: another run under way at
\* the same time, a market that opens or closes, a change of what is watched.
Disturbed == [w \in Worker |-> IF run[w] = Null THEN Null ELSE [run[w] EXCEPT !.alone = FALSE]]
Unwaited == [s \in Slot |-> 0]

\* INCR, then the loop up to the slot that is fetched.
Start(w) ==
  /\ run[w] = Null
  /\ LET raw == (counter + 1) % NumSlots
         attempt == Skips(raw)
         others == {v \in Worker : run[v] # Null}
     IN /\ counter' = raw
        /\ served' = (raw + attempt) % NumSlots
        /\ run' = [Disturbed EXCEPT ![w] = [raw |-> raw, attempt |-> attempt, alone |-> others = {}]]
        /\ waited' = IF others = {} THEN waited ELSE Unwaited
  /\ UNCHANGED <<open, stocked>>

\* A plausible bug: the skipping run stores the slot after the one it served,
\* and the next run increments that.
StoredNext(r) == IF r.attempt > 0 THEN (r.raw + r.attempt + 1) % NumSlots ELSE counter

\* A plausible bug: a run that skipped slots does not store where it ended.
StoredNothing(r) == counter

\* What a run leaves in the counter when its quotes are published: the slot it
\* served, if it skipped any to get there.
Stored(r) == IF r.attempt > 0 THEN (r.raw + r.attempt) % NumSlots ELSE counter

Finish(w) ==
  /\ run[w] # Null
  /\ counter' = Stored(run[w])
  /\ run' = [run EXCEPT ![w] = Null]
  /\ LET s == (run[w].raw + run[w].attempt) % NumSlots
     IN waited' = IF run[w].alone
                  THEN [t \in Slot |-> IF t \in Fetchable \ {s} THEN waited[t] + 1 ELSE 0]
                  ELSE waited
  /\ UNCHANGED <<open, stocked, served>>

\* The fetch or the publishing raises, or the worker dies: the counter keeps
\* the increment and nothing else.
Fail(w) ==
  /\ run[w] # Null
  /\ run' = [run EXCEPT ![w] = Null]
  /\ waited' = IF run[w].alone
               THEN [waited EXCEPT ![(run[w].raw + run[w].attempt) % NumSlots] = 0]
               ELSE waited
  /\ UNCHANGED <<counter, open, stocked, served>>

\* The _*_hours functions change their answer.
MarketHours(s) ==
  /\ s \in Slot \ NeverClosed
  /\ open' = IF s \in open THEN open \ {s} ELSE open \cup {s}
  /\ run' = Disturbed
  /\ waited' = Unwaited
  /\ UNCHANGED <<counter, stocked, served>>

\* get_watched_symbols answers otherwise: watchlists or transactions changed,
\* or the database failed and the fallback lists stand in.
Watching(s) ==
  /\ s \in Slot \ NeverEmpty
  /\ stocked' = IF s \in stocked THEN stocked \ {s} ELSE stocked \cup {s}
  /\ run' = Disturbed
  /\ waited' = Unwaited
  /\ UNCHANGED <<counter, open, served>>

-----------------------------------------------------------------------------
Init ==
  /\ counter \in Slot
  /\ open \in {S \cup NeverClosed : S \in SUBSET Slot}
  /\ stocked \in {S \cup NeverEmpty : S \in SUBSET Slot}
  /\ run = [w \in Worker |-> Null]
  /\ served = Null
  /\ waited = Unwaited

Next ==
  \/ \E w \in Worker : Start(w) \/ Finish(w) \/ Fail(w)
  \/ \E s \in Slot : MarketHours(s) \/ Watching(s)

Spec == Init /\ [][Next]_rotationVars

-----------------------------------------------------------------------------
\* Types of the rotation's state.
TypeOK ==
  /\ counter \in Slot
  /\ NeverClosed \subseteq open /\ open \subseteq Slot
  /\ NeverEmpty \subseteq stocked /\ stocked \subseteq Slot
  /\ run \in [Worker -> {Null} \cup Run]
  /\ served \in Slot \cup {Null}
  /\ waited \in [Slot -> Nat]

\* "Closed markets are auto-skipped so open markets get more frequent updates"
\* (celery_app.py): while hours stay as they are and no two runs overlap, every
\* open market with symbols is chosen once in as many runs as there are open
\* markets with symbols, whatever runs fail.
RoundIsShort == \A s \in Fetchable : waited[s] < Cardinality(Fetchable)

\* However runs overlap, and however late a slow one sets the counter back, no
\* market that stays open is starved.
NoMarketStarves ==
  \A s \in Slot : []<>(s \notin Fetchable) \/ []<>(served = s)
=============================================================================
