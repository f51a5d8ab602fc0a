---------------------------- MODULE FeedsProofs ----------------------------
(***************************************************************************)
(* Theorems about the small components that share no state, each for every *)
(* value of its constants: the rotation of the markets (PriceRotation),    *)
(* support and resistance levels and stops (Levels), fund NAVs (FundNav),  *)
(* daily bars (Bars), backtests (Backtest); and that what holds of a       *)
(* component by itself holds of the components side by side (Feeds).       *)
(***************************************************************************)
EXTENDS Feeds, WsBroadcastProofs, Sequences, SequenceTheorems, FiniteSetTheorems, WellFoundedInduction, TLAPS

\* A set of numbers has a least one.
LEMMA LeastNat ==
  ASSUME NEW S \in SUBSET Nat, S # {}
  PROVE  \E n \in S : \A m \in S : n <= m
<1>1. OpToRel(<, Nat) = {ss \in Nat \X Nat : ss[1] < ss[2]}
  BY DEF OpToRel
<1>2. PICK n \in S : \A m \in S : ~(<<m, n>> \in OpToRel(<, Nat))
  BY NatLessThanWellFounded, WFMin
<1>3. ASSUME NEW m \in S, m < n
      PROVE  FALSE
  BY <1>1, <1>2, <1>3
<1> QED
  BY <1>3

\* Induction over the numbers, for a set of numbers.
LEMMA AllNumbers ==
  ASSUME NEW S \in SUBSET Nat, 0 \in S, \A n \in S : n + 1 \in S
  PROVE  S = Nat
<1> SUFFICES ASSUME Nat \ S # {}
             PROVE  FALSE
  OBVIOUS
<1>1. PICK n \in Nat \ S : \A m \in Nat \ S : n <= m
  BY LeastNat
<1>2. n - 1 \in Nat /\ n - 1 \notin Nat \ S
  BY <1>1
<1> QED
  BY <1>2

\* What holds before the loop and is kept by each row holds after each.
LEMMA LoopKeeps ==
  ASSUME NEW n \in Nat, NEW Good, 0 \in Good,
         \A k \in 1 .. n : k - 1 \in Good => k \in Good
  PROVE  \A k \in 0 .. n : k \in Good
<1> DEFINE Ks == {k \in Nat : k <= n => k \in Good}
<1>1. Ks \in SUBSET Nat /\ 0 \in Ks
  OBVIOUS
<1>2. ASSUME NEW k \in Ks
      PROVE  k + 1 \in Ks
  <2>1. CASE k + 1 <= n
    <3>1. k + 1 \in 1 .. n /\ (k + 1) - 1 = k /\ k \in Good
      BY <2>1
    <3> QED
      BY <3>1
  <2> QED
    BY <2>1
<1>3. Ks = Nat
  <2> HIDE DEF Ks
  <2> QED
    BY <1>1, <1>2, AllNumbers
<1> QED
  BY <1>3

-----------------------------------------------------------------------------
(* The ring of slots.                                                      *)

\* How far u lies ahead of t, and the slot before c.
Distance(t, u) == IF t <= u THEN u - t ELSE u - t + NumSlots
Before(c) == IF c = 0 THEN NumSlots - 1 ELSE c - 1

\* The fetchable slots of F that follow t up to c.
Passed(F, t, c) == {u \in F : u # t /\ Distance(t, u) <= Distance(t, c)}

LEMMA Around ==
  ASSUME NEW n \in Nat \ {0}, NEW r \in 0 .. n - 1, NEW k \in 0 .. n - 1
  PROVE  (r + k) % n = IF r + k < n THEN r + k ELSE r + k - n
<1>1. PICK a \in 0 .. 2 * n - 2 : a = r + k
  OBVIOUS
<1>2. CASE a < n
  BY <1>1, <1>2
<1>3. CASE a >= n
  <2>1. a = n * (a \div n) + (a % n) /\ a % n \in 0 .. n - 1
    OBVIOUS
  <2>2. a \div n \in Nat
    OBVIOUS
  <2>3. a \div n # 0
    BY <1>3, <2>1
  <2>4. ~ (a \div n >= 2)
    BY <1>3, <2>1, <2>2
  <2>5. a % n = a - n
    BY <1>3, <2>1, <2>2, <2>3, <2>4
  <2> QED
    BY <1>1, <1>3, <2>5
<1> QED
  BY <1>1, <1>2, <1>3

\* A slot is reached by as many steps as it lies ahead, and by no others.
LEMMA Reached ==
  ASSUME R!RotationAssumption, NEW r \in R!Slot, NEW k \in R!Slot
  PROVE  /\ (r + k) % NumSlots \in R!Slot
         /\ Distance(r, (r + k) % NumSlots) = k
         /\ \A u \in R!Slot : /\ Distance(r, u) \in R!Slot
                              /\ (r + Distance(r, u)) % NumSlots = u
<1>1. NumSlots \in Nat \ {0}
  BY DEF R!RotationAssumption
<1>2. (r + k) % NumSlots = IF r + k < NumSlots THEN r + k ELSE r + k - NumSlots
  BY <1>1, Around DEF R!Slot
<1>3. ASSUME NEW u \in R!Slot
      PROVE  Distance(r, u) \in R!Slot /\ (r + Distance(r, u)) % NumSlots = u
  <2>1. Distance(r, u) \in R!Slot
    BY <1>1 DEF Distance, R!Slot
  <2>2. (r + Distance(r, u)) % NumSlots
          = IF r + Distance(r, u) < NumSlots THEN r + Distance(r, u) ELSE r + Distance(r, u) - NumSlots
    BY <1>1, <2>1, Around DEF R!Slot
  <2> QED
    BY <1>1, <2>1, <2>2 DEF Distance, R!Slot
<1> QED
  BY <1>1, <1>2, <1>3 DEF Distance, R!Slot

\* Skips finds the fetchable slot that lies least ahead.
LEMMA NearestSlot ==
  ASSUME R!RotationAssumption, R!TypeOK, NEW r \in R!Slot
  PROVE  /\ R!Skips(r) \in R!Slot
         /\ (r + R!Skips(r)) % NumSlots \in R!Fetchable
         /\ \A u \in R!Fetchable : R!Skips(r) <= Distance(r, u)
<1> DEFINE Hits == {n \in R!Slot : (r + n) % NumSlots \in R!Fetchable}
<1>1. R!Fetchable \subseteq R!Slot /\ NumSlots - 1 \in R!Fetchable
  BY DEF R!TypeOK, R!Fetchable, R!NeverClosed, R!NeverEmpty
<1>2. NumSlots - 1 \in R!Slot
  BY <1>1
<1>3. Distance(r, NumSlots - 1) \in Hits
  BY <1>1, <1>2, Reached
<1>4. Hits \subseteq Nat
  BY DEF R!Slot
<1> HIDE DEF Hits
<1>5. PICK n \in Hits : \A m \in Hits : n <= m
  BY <1>3, <1>4, LeastNat
<1>7. /\ n \in R!Slot /\ (r + n) % NumSlots \in R!Fetchable
      /\ \A m \in 0 .. n - 1 : (r + m) % NumSlots \notin R!Fetchable
  <2>1. n \in R!Slot /\ (r + n) % NumSlots \in R!Fetchable
    BY DEF Hits
  <2>2. ASSUME NEW m \in 0 .. n - 1, (r + m) % NumSlots \in R!Fetchable
        PROVE  FALSE
    <3>1. m \in R!Slot
      BY <2>1 DEF R!Slot, R!RotationAssumption
    <3>2. m \in Hits
      BY <2>2, <3>1 DEF Hits
    <3> QED
      BY <1>5, <2>1, <3>2 DEF R!Slot
  <2> QED
    BY <2>1, <2>2
<1> DEFINE k == R!Skips(r)
<1>8. /\ k \in R!Slot /\ (r + k) % NumSlots \in R!Fetchable
      /\ \A m \in 0 .. k - 1 : (r + m) % NumSlots \notin R!Fetchable
  BY <1>7 DEF R!Skips
<1> HIDE DEF k
<1>9. ASSUME NEW u \in R!Fetchable
      PROVE  k <= Distance(r, u)
  <2>1. Distance(r, u) \in R!Slot /\ (r + Distance(r, u)) % NumSlots = u
    BY <1>1, Reached
  <2> QED
    BY <1>8, <1>9, <2>1 DEF R!Slot
<1> QED
  BY <1>8, <1>9 DEF k

LEMMA PassedSize ==
  ASSUME R!RotationAssumption, NEW F \in SUBSET R!Slot, NEW t \in F, NEW c
  PROVE  /\ IsFiniteSet(Passed(F, t, c))
         /\ Cardinality(Passed(F, t, c)) \in Nat
         /\ Cardinality(Passed(F, t, c)) < Cardinality(F)
<1>1. IsFiniteSet(R!Slot)
  BY FS_Interval DEF R!Slot, R!RotationAssumption
<1>2. IsFiniteSet(F)
  BY <1>1, FS_Subset
<1>3. IsFiniteSet(F \ {t}) /\ Cardinality(F \ {t}) = Cardinality(F) - 1
  BY <1>2, FS_RemoveElement
<1>4. Passed(F, t, c) \subseteq F \ {t}
  BY DEF Passed
<1>5. IsFiniteSet(Passed(F, t, c)) /\ Cardinality(Passed(F, t, c)) <= Cardinality(F \ {t})
  BY <1>3, <1>4, FS_Subset
<1> QED
  BY <1>2, <1>3, <1>5, FS_CardinalityType

\* Serving the nearest slot, s, adds it to what has passed each other one.
LEMMA PassedGains ==
  ASSUME R!RotationAssumption, NEW F \in SUBSET R!Slot, NEW t \in F, NEW r \in R!Slot,
         NEW s \in F, s # t, \A u \in F : Distance(r, s) <= Distance(r, u)
  PROVE  Cardinality(Passed(F, t, s)) = Cardinality(Passed(F, t, Before(r))) + 1
<1> USE DEF R!RotationAssumption, R!Slot
<1>1. s \notin Passed(F, t, Before(r))
  BY DEF Passed, Distance, Before
<1>2. ASSUME NEW u \in F
      PROVE  u \in Passed(F, t, s) <=> u \in Passed(F, t, Before(r)) \cup {s}
  BY <1>2 DEF Passed, Distance, Before
<1>3. Passed(F, t, s) = Passed(F, t, Before(r)) \cup {s}
  BY <1>2 DEF Passed
<1> QED
  BY <1>1, <1>3, PassedSize, FS_AddElement

\* So does moving on by one slot, if it is not the one looked at.
LEMMA PassedKeeps ==
  ASSUME R!RotationAssumption, NEW F \in SUBSET R!Slot, NEW t \in F, NEW r \in R!Slot, t # r
  PROVE  Cardinality(Passed(F, t, Before(r))) <= Cardinality(Passed(F, t, r))
<1>1. ASSUME NEW u \in Passed(F, t, Before(r))
      PROVE  u \in Passed(F, t, r)
  BY <1>1 DEF Passed, Distance, Before, R!RotationAssumption, R!Slot
<1> QED
  BY <1>1, PassedSize, FS_Subset

-----------------------------------------------------------------------------
(* The rotation of the markets.                                            *)

Chosen(r) == (r.raw + r.attempt) % NumSlots

\* Nobody waited for more runs than slots were served since.
Ordered(c) ==
  \A t \in R!Fetchable : waited[t] <= Cardinality(Passed(R!Fetchable, t, c))

\* What a run that nothing disturbed is about to serve, and who waits for it.
Undisturbed(w) ==
  /\ \A v \in R!Worker : run[v] # Null => v = w
  /\ counter = run[w].raw
  /\ Chosen(run[w]) \in R!Fetchable
  /\ \A u \in R!Fetchable : Distance(run[w].raw, Chosen(run[w])) <= Distance(run[w].raw, u)
  /\ Ordered(Before(run[w].raw))

RoundInv ==
  /\ \A w \in R!Worker : run[w] # Null =>
       IF run[w].alone THEN Undisturbed(w) ELSE waited = R!Unwaited
  /\ (\A w \in R!Worker : run[w] = Null) => Ordered(counter)

\* Nobody waits after a disturbance.
LEMMA UnwaitedOrdered ==
  ASSUME R!RotationAssumption, R!TypeOK, waited = R!Unwaited, NEW c
  PROVE  Ordered(c)
<1>1. R!Fetchable \subseteq R!Slot
  BY DEF R!TypeOK, R!Fetchable
<1> QED
  BY <1>1, PassedSize DEF Ordered, R!Unwaited

LEMMA DisturbedRuns ==
  ASSUME R!RotationAssumption, R!TypeOK
  PROVE  /\ R!Disturbed \in [R!Worker -> {Null} \cup R!Run]
         /\ \A w \in R!Worker : R!Disturbed[w] # Null => ~R!Disturbed[w].alone
<1>1. ASSUME NEW w \in R!Worker, run[w] # Null
      PROVE  [run[w] EXCEPT !.alone = FALSE] \in R!Run /\ ~[run[w] EXCEPT !.alone = FALSE].alone
  BY <1>1 DEF R!TypeOK, R!Run
<1> QED
  BY <1>1 DEF R!Disturbed

LEMMA RotationInit ==
  ASSUME R!RotationAssumption, R!Init
  PROVE  R!TypeOK /\ RoundInv
<1>1. R!TypeOK
  <2>1. R!NeverClosed \subseteq R!Slot /\ R!NeverEmpty \subseteq R!Slot
    BY DEF R!NeverClosed, R!NeverEmpty, R!Slot, R!RotationAssumption
  <2>2. R!NeverClosed \subseteq open /\ open \subseteq R!Slot
    BY <2>1 DEF R!Init
  <2>3. R!NeverEmpty \subseteq stocked /\ stocked \subseteq R!Slot
    BY <2>1 DEF R!Init
  <2> QED
    BY <2>2, <2>3 DEF R!Init, R!TypeOK, R!Unwaited
<1>2. waited = R!Unwaited /\ \A w \in R!Worker : run[w] = Null
  BY DEF R!Init
<1> QED
  BY <1>1, <1>2, UnwaitedOrdered DEF RoundInv

\* The rest of a disturbance: market hours, watchlists, a second run.
LEMMA AfterDisturbance ==
  ASSUME R!RotationAssumption, R!TypeOK', waited' = R!Unwaited',
         \A w \in R!Worker : run'[w] # Null => ~run'[w].alone
  PROVE  RoundInv'
<1>1. Ordered(counter)'
  <2>1. R!Fetchable' \subseteq R!Slot
    BY DEF R!TypeOK, R!Fetchable
  <2> QED
    BY <2>1, PassedSize DEF Ordered, R!Unwaited
<1> QED
  BY <1>1 DEF RoundInv

\* A run starts.
LEMMA RotationStart ==
  ASSUME R!RotationAssumption, R!TypeOK, RoundInv, NEW w \in R!Worker, R!Start(w)
  PROVE  R!TypeOK' /\ RoundInv'
<1> DEFINE others == {v \in R!Worker : run[v] # Null}
<1>1. PICK raw \in R!Slot : raw = (counter + 1) % NumSlots /\ Before(raw) = counter
  <2> DEFINE next == (counter + 1) % NumSlots
  <2>1. 1 \in R!Slot
    BY DEF R!Slot, R!RotationAssumption
  <2>2. next = IF counter + 1 < NumSlots THEN counter + 1 ELSE counter + 1 - NumSlots
    BY <2>1, Around DEF R!TypeOK, R!Slot, R!RotationAssumption
  <2> HIDE DEF next
  <2>3. next \in R!Slot /\ Before(next) = counter
    BY <2>2 DEF Before, R!TypeOK, R!Slot, R!RotationAssumption
  <2> QED
    BY <2>3 DEF next
<1>2. PICK k \in R!Slot, b \in BOOLEAN : k = R!Skips(raw) /\ b = (others = {})
  BY NearestSlot
<1> DEFINE rec == [raw |-> raw, attempt |-> k, alone |-> b]
<1>3. /\ counter' = raw /\ run' = [R!Disturbed EXCEPT ![w] = rec] /\ run[w] = Null
      /\ served' = Chosen(rec)
      /\ waited' = IF b THEN waited ELSE R!Unwaited
      /\ open' = open /\ stocked' = stocked
  BY <1>1, <1>2 DEF R!Start, Chosen
<1>4. /\ rec \in R!Run /\ rec # Null /\ rec.raw = raw /\ rec.alone = b
      /\ Chosen(rec) \in R!Fetchable
      /\ \A u \in R!Fetchable : Distance(raw, Chosen(rec)) <= Distance(raw, u)
  <2>1. rec \in R!Run
    BY DEF R!Run
  <2> QED
    BY <1>2, <2>1, NearestSlot, Reached DEF Chosen, R!RotationAssumption
<1> HIDE DEF rec
<1>5. /\ run' \in [R!Worker -> {Null} \cup R!Run]
      /\ run'[w] = rec
      /\ \A v \in R!Worker \ {w} : run'[v] # Null => ~run'[v].alone /\ run[v] # Null
  BY <1>3, <1>4, DisturbedRuns DEF R!Disturbed
<1>6. R!TypeOK'
  <2>1. R!Fetchable \subseteq R!Slot
    BY DEF R!TypeOK, R!Fetchable
  <2>2. waited' \in [R!Slot -> Nat]
    BY <1>3 DEF R!TypeOK, R!Unwaited
  <2> QED
    BY <1>1, <1>3, <1>4, <1>5, <2>1, <2>2 DEF R!TypeOK
<1>7. CASE b
  <2>1. \A v \in R!Worker : run[v] = Null
    BY <1>2, <1>7
  <2>2. \A v \in R!Worker : run'[v] # Null => v = w
    BY <1>5, <2>1
  <2>3. R!Fetchable' = R!Fetchable
    BY <1>3 DEF R!Fetchable
  <2>4. Ordered(Before(raw))'
    BY <1>1, <1>3, <1>7, <2>1, <2>3 DEF RoundInv, Ordered
  <2>5. Undisturbed(w)'
    BY <1>3, <1>4, <1>5, <2>2, <2>3, <2>4 DEF Undisturbed
  <2> QED
    BY <1>4, <1>5, <1>6, <1>7, <2>2, <2>5 DEF RoundInv
<1>8. CASE ~b
  <2>1. waited' = R!Unwaited'
    BY <1>3, <1>8 DEF R!Unwaited
  <2> QED
    BY <1>4, <1>5, <1>6, <1>8, <2>1, AfterDisturbance
<1> QED
  BY <1>6, <1>7, <1>8

\* A run ends, having published its quotes or not.
LEMMA RotationEnd ==
  ASSUME R!RotationAssumption, R!TypeOK, RoundInv, NEW w \in R!Worker, R!Finish(w) \/ R!Fail(w)
  PROVE  R!TypeOK' /\ RoundInv'
<1>1. run[w] \in R!Run /\ run' = [run EXCEPT ![w] = Null] /\ open' = open /\ stocked' = stocked
      /\ served' = served
  BY DEF R!Finish, R!Fail, R!TypeOK
<1> DEFINE raw == run[w].raw
           s == Chosen(run[w])
<1>2. raw \in R!Slot /\ s \in R!Slot
  BY <1>1, Reached DEF Chosen, R!Run
<1>3. run' \in [R!Worker -> {Null} \cup R!Run] /\ run'[w] = Null
      /\ \A v \in R!Worker \ {w} : run'[v] = run[v]
  BY <1>1 DEF R!TypeOK
<1>4. counter' \in R!Slot
  <2>1. R!Stored(run[w]) \in R!Slot
    BY <1>2 DEF R!Stored, Chosen, R!TypeOK
  <2> QED
    BY <2>1 DEF R!Finish, R!Fail, R!TypeOK
<1>5. R!Fetchable' = R!Fetchable /\ R!Fetchable \subseteq R!Slot
  BY <1>1 DEF R!Fetchable, R!TypeOK
<1>6. CASE ~run[w].alone
  <2>1. waited' = waited /\ waited = R!Unwaited
    BY <1>1, <1>6 DEF R!Finish, R!Fail, RoundInv, R!RotationAssumption
  <2>2. R!TypeOK'
    BY <1>1, <1>3, <1>4, <2>1 DEF R!TypeOK
  <2>3. ASSUME NEW v \in R!Worker, run'[v] # Null
        PROVE  ~run'[v].alone
    <3>1. v # w /\ run'[v] = run[v]
      BY <1>3, <2>3
    <3> QED
      BY <1>1, <1>6, <2>3, <3>1 DEF RoundInv, Undisturbed, R!RotationAssumption
  <2> QED
    BY <2>1, <2>2, <2>3, AfterDisturbance DEF R!Unwaited
<1>7. CASE run[w].alone
  <2>1. Undisturbed(w)
    BY <1>1, <1>7 DEF RoundInv, R!RotationAssumption
  <2>2. \A v \in R!Worker : run'[v] = Null
    BY <1>3, <2>1 DEF Undisturbed
  <2> DEFINE gained(t) == Cardinality(Passed(R!Fetchable, t, s))
             passed(t) == Cardinality(Passed(R!Fetchable, t, Before(raw)))
  <2>3. \A t \in R!Fetchable : waited[t] <= passed(t) /\ waited[t] \in Nat
    BY <1>5, <2>1 DEF Undisturbed, Ordered, R!TypeOK
  <2>4. s \in R!Fetchable /\ \A u \in R!Fetchable : Distance(raw, s) <= Distance(raw, u)
    BY <2>1 DEF Undisturbed
  <2> HIDE DEF s, raw
  <2>5. CASE R!Finish(w)
    <3>1. /\ counter' = s
          /\ waited' = [t \in R!Slot |-> IF t \in R!Fetchable \ {s} THEN waited[t] + 1 ELSE 0]
      <4>1. waited' = [t \in R!Slot |-> IF t \in R!Fetchable \ {s} THEN waited[t] + 1 ELSE 0]
        BY <1>7, <2>5 DEF R!Finish, s, Chosen
      <4>2. counter' = IF run[w].attempt > 0 THEN s ELSE counter
        BY <2>5 DEF R!Finish, R!Stored, s, Chosen
      <4>3. run[w].attempt = 0 => s = raw
        BY <1>1 DEF s, raw, Chosen, R!Run, R!Slot, R!RotationAssumption
      <4>4. counter = raw /\ run[w].attempt \in Nat
        BY <1>1, <2>1 DEF Undisturbed, raw, R!Run, R!Slot
      <4> QED
        BY <4>1, <4>2, <4>3, <4>4
    <3>2. R!TypeOK'
      BY <1>1, <1>3, <1>4, <2>3, <3>1 DEF R!TypeOK
    <3>3. ASSUME NEW t \in R!Fetchable
          PROVE  waited'[t] <= gained(t)
      <4>1. CASE t = s
        BY <1>2, <1>5, <2>4, <3>1, <4>1, PassedSize
      <4>2. CASE t # s
        <5>1. gained(t) = passed(t) + 1
          BY <1>2, <1>5, <2>4, <4>2, PassedGains
        <5>2. passed(t) \in Nat
          BY <1>5, PassedSize
        <5> HIDE DEF gained, passed
        <5> QED
          BY <1>5, <2>3, <3>1, <4>2, <5>1, <5>2
      <4> QED
        BY <4>1, <4>2
    <3>4. Ordered(counter)'
      BY <1>5, <3>1, <3>3 DEF Ordered
    <3> QED
      BY <2>2, <3>2, <3>4 DEF RoundInv
  <2>6. CASE R!Fail(w)
    <3>1. counter' = raw /\ waited' = [waited EXCEPT ![s] = 0]
      BY <1>7, <2>1, <2>6 DEF R!Fail, Undisturbed, s, raw, Chosen
    <3>2. R!TypeOK'
      BY <1>1, <1>3, <1>4, <2>3, <3>1 DEF R!TypeOK
    <3>3. ASSUME NEW t \in R!Fetchable
          PROVE  waited'[t] <= Cardinality(Passed(R!Fetchable, t, raw))
      <4>1. CASE t = s
        <5>1. waited'[t] = 0
          BY <1>2, <3>1, <4>1 DEF R!TypeOK
        <5> QED
          BY <1>5, <5>1, PassedSize
      <4>2. CASE t # s
        <5>1. t # raw
          BY <1>2, <1>5, <2>4, <4>2 DEF Distance, R!Slot, R!RotationAssumption
        <5>2. passed(t) <= Cardinality(Passed(R!Fetchable, t, raw))
          BY <1>2, <1>5, <5>1, PassedKeeps
        <5>3. passed(t) \in Nat /\ Cardinality(Passed(R!Fetchable, t, raw)) \in Nat
          BY <1>5, PassedSize
        <5>4. waited'[t] = waited[t]
          BY <1>5, <3>1, <4>2 DEF R!TypeOK
        <5> QED
          BY <2>3, <5>2, <5>3, <5>4
      <4> QED
        BY <4>1, <4>2
    <3>4. Ordered(counter)'
      BY <1>5, <3>1, <3>3 DEF Ordered
    <3> QED
      BY <2>2, <3>2, <3>4 DEF RoundInv
  <2> QED
    BY <2>5, <2>6
<1> QED
  BY <1>6, <1>7

LEMMA RotationNext ==
  ASSUME R!RotationAssumption, R!TypeOK, RoundInv, [R!Next]_(R!rotationVars)
  PROVE  R!TypeOK' /\ RoundInv'
<1>1. ASSUME NEW s \in R!Slot, R!MarketHours(s) \/ R!Watching(s)
      PROVE  R!TypeOK' /\ RoundInv'
  <2>1. R!TypeOK'
    <3>1. R!NeverClosed \subseteq open' /\ open' \subseteq R!Slot
      BY <1>1 DEF R!MarketHours, R!Watching, R!TypeOK
    <3>2. R!NeverEmpty \subseteq stocked' /\ stocked' \subseteq R!Slot
      BY <1>1 DEF R!MarketHours, R!Watching, R!TypeOK
    <3> QED
      BY <1>1, <3>1, <3>2, DisturbedRuns DEF R!MarketHours, R!Watching, R!TypeOK, R!Unwaited
  <2> QED
    BY <1>1, <2>1, DisturbedRuns, AfterDisturbance DEF R!MarketHours, R!Watching, R!Unwaited
<1>2. CASE UNCHANGED R!rotationVars
  BY <1>2 DEF R!rotationVars, R!TypeOK, RoundInv, Undisturbed, Ordered, Chosen, R!Fetchable,
              R!Unwaited
<1> QED
  BY <1>1, <1>2, RotationStart, RotationEnd DEF R!Next

\* Every reachable state of the rotation is well typed (price_fetcher.py).
THEOREM RotationTyped ==
  ASSUME R!RotationAssumption
  PROVE  R!Spec => []R!TypeOK
<1>1. R!Init => R!TypeOK /\ RoundInv
  BY RotationInit
<1>2. R!TypeOK /\ RoundInv /\ [R!Next]_(R!rotationVars) => (R!TypeOK /\ RoundInv)'
  BY RotationNext
<1> QED
  BY <1>1, <1>2, PTL DEF R!Spec

\* "Closed markets are auto-skipped so open markets get more frequent updates"
\* (celery_app.py): of the runs of price_fetcher that nothing disturbs, however
\* many slots there are and whichever runs fail, no open market with symbols is
\* passed over by as many as there are such markets.
THEOREM RoundStaysShort ==
  ASSUME R!RotationAssumption
  PROVE  R!Spec => []R!RoundIsShort
<1>1. R!TypeOK /\ RoundInv => R!RoundIsShort
  <2> SUFFICES ASSUME R!TypeOK, RoundInv, NEW s \in R!Fetchable
               PROVE  waited[s] < Cardinality(R!Fetchable)
    BY DEF R!RoundIsShort, R!Cardinality, Cardinality
  <2>1. R!Fetchable \subseteq R!Slot /\ waited[s] \in Nat
    BY DEF R!TypeOK, R!Fetchable
  <2>2. \A c : Ordered(c) => waited[s] < Cardinality(R!Fetchable)
    <3>1. ASSUME NEW c, Ordered(c)
          PROVE  waited[s] < Cardinality(R!Fetchable)
      <4>1. waited[s] <= Cardinality(Passed(R!Fetchable, s, c))
        BY <3>1 DEF Ordered
      <4>2. /\ Cardinality(Passed(R!Fetchable, s, c)) \in Nat
            /\ Cardinality(Passed(R!Fetchable, s, c)) < Cardinality(R!Fetchable)
        BY <2>1, PassedSize
      <4>3. Cardinality(R!Fetchable) \in Nat
        <5>1. IsFiniteSet(R!Slot)
          BY FS_Interval DEF R!Slot, R!RotationAssumption
        <5>2. IsFiniteSet(R!Fetchable)
          BY <2>1, <5>1, FS_Subset
        <5> QED
          BY <5>2, FS_CardinalityType
      <4> QED
        BY <2>1, <4>1, <4>2, <4>3
    <3> QED
      BY <3>1
  <2>3. Ordered(counter) \/ \E w \in R!Worker : Ordered(Before(run[w].raw))
    BY UnwaitedOrdered DEF RoundInv, Undisturbed
  <2> QED
    BY <2>2, <2>3
<1>2. R!Init => R!TypeOK /\ RoundInv
  BY RotationInit
<1>3. R!TypeOK /\ RoundInv /\ [R!Next]_(R!rotationVars) => (R!TypeOK /\ RoundInv)'
  BY RotationNext
<1> QED
  BY <1>1, <1>2, <1>3, PTL DEF R!Spec

-----------------------------------------------------------------------------
(* Support and resistance levels.                                          *)

\* One row for a side and a tag.
Tagged(rows) == \A r, t \in rows : r.side = t.side /\ r.tag = t.tag => r = t

PivotTyped ==
  /\ auto \subseteq L!Stored
  /\ pivot \in [PivotRun -> {Null} \cup L!Transaction]

\* What a run has found that nobody's commit has made out of date.
Current(p) ==
  /\ Tagged(p.rows)
  /\ p.alone =>
       /\ p.stage \in {"half", "asked", "deleted"} => manual \cap {"support"} \subseteq p.blocked
       /\ p.stage \in {"asked", "deleted"} => manual \cap {"resistance"} \subseteq p.blocked
       /\ p.stage = "deleted" => p.doomed = auto

PivotInv == PivotTyped /\ \A w \in PivotRun : pivot[w] # Null => Current(pivot[w])

LEMMA SelectedRows ==
  ASSUME NEW side, NEW cs, NEW close
  PROVE  \E near : L!Selected(side, cs, close)
                     = {[side |-> side, tag |-> n, price |-> cs[near[n]]] : n \in DOMAIN near}
BY DEF L!Selected

\* Whatever the fractals and clusters of a history are, its rows are tagged.
LEMMA PivotRowsTagged ==
  ASSUME NEW h
  PROVE  Tagged(L!PivotRows(h)) /\ \A r \in L!PivotRows(h) : r.side \in L!Side
<1> DEFINE highs == [i \in DOMAIN h |-> h[i].high]
           lows == [i \in DOMAIN h |-> h[i].low]
           cs == L!Clusters(highs, L!Fractals(highs, 1)) \o L!Clusters(lows, L!Fractals(lows, -1))
           close == L!Last(h).close
<1>1. L!PivotRows(h) = UNION {L!Selected(side, cs, close) : side \in L!Side}
  BY DEF L!PivotRows
<1> HIDE DEF cs, close
<1>2. ASSUME NEW side \in L!Side, NEW r \in L!Selected(side, cs, close)
      PROVE  r.side = side
  BY SelectedRows
<1>3. ASSUME NEW side \in L!Side
      PROVE  Tagged(L!Selected(side, cs, close))
  BY SelectedRows DEF Tagged
<1> QED
  BY <1>1, <1>2, <1>3 DEF Tagged

LEMMA LevelsInit ==
  ASSUME L!Init
  PROVE  PivotInv
BY DEF L!Init, PivotInv, PivotTyped

\* Another transaction's commit leaves a run what it was, but not alone.
LEMMA DisturbedPivots ==
  ASSUME PivotTyped, L!LevelsNullAssumption, NEW v
  PROVE  /\ L!Disturb(v) \in [PivotRun -> {Null} \cup L!Transaction]
         /\ \A w \in PivotRun :
              /\ w = v \/ pivot[w] = Null => L!Disturb(v)[w] = Null
              /\ w # v /\ pivot[w] # Null =>
                   /\ L!Disturb(v)[w] # Null /\ ~L!Disturb(v)[w].alone
                   /\ L!Disturb(v)[w].rows = pivot[w].rows
<1>1. ASSUME NEW w \in PivotRun, pivot[w] # Null
      PROVE  LET p == [pivot[w] EXCEPT !.alone = FALSE]
             IN p \in L!Transaction /\ p # Null /\ ~p.alone /\ p.rows = pivot[w].rows
  <2> DEFINE p == [pivot[w] EXCEPT !.alone = FALSE]
  <2>1. p \in L!Transaction /\ ~p.alone /\ p.rows = pivot[w].rows
    BY <1>1 DEF PivotTyped, L!Transaction
  <2> QED
    BY <2>1 DEF L!LevelsNullAssumption
<1> QED
  BY <1>1 DEF L!Disturb

\* A step of one run's transaction before its commit.
LEMMA PivotStep ==
  ASSUME PivotInv, auto' = auto, manual' = manual, NEW w \in PivotRun,
         NEW p \in {Null} \cup L!Transaction, p # Null => Current(p),
         pivot' = [pivot EXCEPT ![w] = p]
  PROVE  PivotInv'
<1>1. pivot' \in [PivotRun -> {Null} \cup L!Transaction]
  BY DEF PivotInv, PivotTyped
<1>2. ASSUME NEW v \in PivotRun, pivot'[v] # Null
      PROVE  Current(pivot'[v])
  BY <1>2 DEF PivotInv, PivotTyped
<1>3. Current(p)' = Current(p) /\ \A q : Current(q)' = Current(q)
  BY DEF Current
<1> QED
  BY <1>1, <1>2, <1>3 DEF PivotInv, PivotTyped

LEMMA PivotRead ==
  ASSUME bars \in Histories, PivotInv, NEW w \in PivotRun, L!Read(w)
  PROVE  PivotInv'
<1>1. PICK rows : rows = L!PivotRows(bars)
  OBVIOUS
<1> DEFINE p == [rows |-> rows, stage |-> "read", blocked |-> {}, doomed |-> {}, alone |-> TRUE]
<1>2. /\ pivot' = [pivot EXCEPT ![w] = p] /\ auto' = auto /\ manual' = manual
  BY <1>1 DEF L!Read
<1>3. p \in L!Transaction
  <2>1. rows \subseteq L!Computed
    BY <1>1 DEF L!Computed
  <2> QED
    BY <2>1 DEF L!Transaction
<1>4. Current(p)
  BY <1>1, PivotRowsTagged DEF Current
<1> HIDE DEF p
<1> QED
  BY <1>2, <1>3, <1>4, PivotStep

LEMMA PivotAsk ==
  ASSUME PivotInv, L!LevelsNullAssumption, NEW w \in PivotRun,
         L!Ask(w, "read", "support", "half") \/ L!Ask(w, "half", "resistance", "asked")
  PROVE  PivotInv'
<1>1. pivot[w] \in L!Transaction /\ pivot[w] # Null /\ Current(pivot[w])
  BY DEF L!Ask, PivotInv, PivotTyped
<1>2. CASE L!Ask(w, "read", "support", "half")
  <2>1. PICK blocked \in SUBSET L!Side : blocked = pivot[w].blocked \cup (manual \cap {"support"})
    BY <1>1 DEF L!Transaction, L!Side
  <2> DEFINE p == [pivot[w] EXCEPT !.stage = "half", !.blocked = blocked, !.alone = TRUE]
  <2>2. pivot' = [pivot EXCEPT ![w] = p] /\ auto' = auto /\ manual' = manual
    BY <1>2, <2>1 DEF L!Ask, PivotInv, PivotTyped
  <2>3. /\ p \in L!Transaction /\ p.stage = "half" /\ p.blocked = blocked
        /\ p.rows = pivot[w].rows
    BY <1>1 DEF L!Transaction
  <2> HIDE DEF p
  <2>4. Current(p)
    BY <1>1, <2>1, <2>3 DEF Current
  <2>5. PICK q \in L!Transaction : q = p
    BY <2>3
  <2> QED
    BY <2>2, <2>4, <2>5, PivotStep
<1>3. CASE L!Ask(w, "half", "resistance", "asked")
  <2>1. PICK blocked \in SUBSET L!Side :
          blocked = pivot[w].blocked \cup (manual \cap {"resistance"})
    BY <1>1 DEF L!Transaction, L!Side
  <2> DEFINE p == [pivot[w] EXCEPT !.stage = "asked", !.blocked = blocked]
  <2>2. pivot' = [pivot EXCEPT ![w] = p] /\ auto' = auto /\ manual' = manual
        /\ pivot[w].stage = "half"
    <3>1. pivot' = [pivot EXCEPT ![w] = [pivot[w] EXCEPT !.stage = "asked",
                      !.blocked = blocked, !.alone = ("half" = "read" \/ pivot[w].alone)]]
      BY <1>3, <2>1 DEF L!Ask
    <3>2. ("half" = "read" \/ pivot[w].alone) = pivot[w].alone
      BY <1>1 DEF L!Transaction
    <3>3. [pivot[w] EXCEPT !.stage = "asked", !.blocked = blocked, !.alone = pivot[w].alone] = p
      BY <1>1 DEF L!Transaction
    <3> QED
      BY <1>3, <3>1, <3>2, <3>3 DEF L!Ask
  <2>3. /\ p \in L!Transaction /\ p.stage = "asked" /\ p.blocked = blocked
        /\ p.rows = pivot[w].rows /\ p.alone = pivot[w].alone
    BY <1>1 DEF L!Transaction
  <2> HIDE DEF p
  <2>4. Current(p)
    BY <1>1, <2>1, <2>2, <2>3 DEF Current
  <2>5. PICK q \in L!Transaction : q = p
    BY <2>3
  <2> QED
    BY <2>2, <2>4, <2>5, PivotStep
<1> QED
  BY <1>2, <1>3

LEMMA PivotDelete ==
  ASSUME PivotInv, NEW w \in PivotRun, L!Delete(w)
  PROVE  PivotInv'
<1>1. pivot[w] \in L!Transaction /\ Current(pivot[w]) /\ pivot[w].stage = "asked"
  BY DEF L!Delete, PivotInv, PivotTyped
<1>2. PICK doomed \in SUBSET L!Stored : doomed = auto
  BY DEF PivotInv, PivotTyped
<1> DEFINE p == [pivot[w] EXCEPT !.stage = "deleted", !.doomed = doomed]
<1>3. pivot' = [pivot EXCEPT ![w] = p] /\ auto' = auto /\ manual' = manual
  BY <1>2 DEF L!Delete, L!Doomed
<1>4. /\ p \in L!Transaction /\ p.stage = "deleted" /\ p.blocked = pivot[w].blocked
      /\ p.doomed = doomed /\ p.rows = pivot[w].rows /\ p.alone = pivot[w].alone
  BY <1>1 DEF L!Transaction
<1> HIDE DEF p
<1>5. Current(p)
  BY <1>1, <1>2, <1>4 DEF Current
<1>6. PICK q \in L!Transaction : q = p
  BY <1>4
<1> QED
  BY <1>3, <1>5, <1>6, PivotStep

\* A commit: the others are not alone any more.
LEMMA PivotCommit ==
  ASSUME PivotInv, L!LevelsNullAssumption, NEW v, pivot' = L!Disturb(v), auto' \subseteq L!Stored
  PROVE  PivotInv'
<1>1. pivot' \in [PivotRun -> {Null} \cup L!Transaction]
  BY DisturbedPivots DEF PivotInv
<1>2. ASSUME NEW w \in PivotRun, pivot'[w] # Null
      PROVE  Current(pivot[w])'
  <2>1. pivot[w] # Null /\ ~pivot'[w].alone /\ pivot'[w].rows = pivot[w].rows
    BY <1>2, DisturbedPivots DEF PivotInv
  <2> QED
    BY <2>1 DEF PivotInv, Current
<1> QED
  BY <1>1, <1>2 DEF PivotInv, PivotTyped

LEMMA LevelsNext ==
  ASSUME L!LevelsNullAssumption, bars \in Histories, PivotInv, [L!Next]_(L!levelVars)
  PROVE  PivotInv'
<1>1. ASSUME NEW w \in PivotRun, L!Write(w)
      PROVE  PivotInv'
  <2>1. pivot[w] \in L!Transaction
    BY <1>1 DEF L!Write, PivotInv, PivotTyped
  <2>2. auto' \subseteq L!Stored
    <3>1. auto' = (auto \ pivot[w].doomed)
               \cup {[side |-> r.side, tag |-> r.tag, price |-> r.price, by |-> w] :
                       r \in {r \in pivot[w].rows : r.side \notin pivot[w].blocked}}
      BY <1>1 DEF L!Write
    <3>2. pivot[w].rows \subseteq L!Computed
      BY <2>1 DEF L!Transaction
    <3> QED
      BY <3>1, <3>2 DEF L!Stored, PivotInv, PivotTyped
  <2> QED
    BY <1>1, <2>2, PivotCommit DEF L!Write
<1>2. ASSUME NEW S, L!Import(S)
      PROVE  PivotInv'
  BY <1>2, PivotCommit DEF L!Import, PivotInv, PivotTyped
<1>3. ASSUME NEW w \in PivotRun, L!PivotFails(w)
      PROVE  PivotInv'
  BY <1>3, PivotStep DEF L!PivotFails
<1>4. CASE UNCHANGED <<manual, auto, pivot>>
  BY <1>4 DEF PivotInv, PivotTyped, Current
<1> QED
  BY <1>1, <1>2, <1>3, <1>4, PivotRead, PivotAsk, PivotDelete
  DEF L!Next, L!PivotNext, L!UserNext, L!BarsChange, L!StopWrite, L!StopRead, L!Mark, L!DeleteMark,
      L!DeleteStop, L!levelVars, L!pivotVars

\* A run that nobody's commit interrupts leaves no computed level on a side an
\* import owns and no tag twice on the other (_compute_and_write_symbol), for any
\* histories, imports and overlapping runs, and whatever those have left behind.
THEOREM PivotsStayRight ==
  ASSUME L!LevelsNullAssumption
  PROVE  L!Spec => L!PivotsSetRight
<1> DEFINE Right == \A w \in PivotRun :
             /\ pivot[w] # Null /\ pivot[w].alone
             /\ pivot'[w] = Null /\ auto' # auto
             => \A r, t \in auto' : /\ r.side \notin manual
                                    /\ r.side = t.side /\ r.tag = t.tag => r = t
           Held == bars \in Histories /\ PivotInv
<1>1. ASSUME Held, L!Next
      PROVE  Right
  <2> SUFFICES ASSUME NEW w \in PivotRun, pivot[w] # Null, pivot[w].alone, pivot'[w] = Null,
                      auto' # auto
               PROVE  \A r, t \in auto' : /\ r.side \notin manual
                                          /\ r.side = t.side /\ r.tag = t.tag => r = t
    OBVIOUS
  <2>1. PICK v \in PivotRun : L!Write(v)
    BY <1>1 DEF L!Next, L!PivotNext, L!UserNext, L!BarsChange, L!Read, L!Ask, L!Delete, L!PivotFails,
         L!Import, L!StopWrite, L!StopRead, L!Mark, L!DeleteMark, L!DeleteStop, L!pivotVars
  <2>2. v = w
    BY <1>1, <2>1, DisturbedPivots DEF L!Write, PivotInv
  <2>3. /\ auto' = (auto \ pivot[w].doomed)
                     \cup {[side |-> r.side, tag |-> r.tag, price |-> r.price, by |-> w] :
                             r \in {r \in pivot[w].rows : r.side \notin pivot[w].blocked}}
        /\ pivot[w].stage = "deleted"
    BY <2>1, <2>2 DEF L!Write
  <2>4. Current(pivot[w]) /\ pivot[w].rows \subseteq L!Computed
    BY <1>1 DEF PivotInv, PivotTyped, L!Transaction
  <2>5. pivot[w].doomed = auto /\ manual \cap L!Side \subseteq pivot[w].blocked
    BY <2>3, <2>4 DEF Current, L!Side
  <2>6. \A x \in L!Computed : x.side \in L!Side
    BY PivotRowsTagged DEF L!Computed
  <2>7. ASSUME NEW r \in auto'
        PROVE  \E x \in pivot[w].rows : /\ r = [side |-> x.side, tag |-> x.tag,
                                                price |-> x.price, by |-> w]
                                        /\ r.side = x.side /\ r.tag = x.tag
                                        /\ x.side \notin manual
    BY <2>3, <2>4, <2>5, <2>6
  <2>8. Tagged(pivot[w].rows)
    BY <2>4 DEF Current
  <2> QED
    BY <2>7, <2>8 DEF Tagged
<1>2. L!Init => Held
  BY LevelsInit DEF L!Init
<1>3. Held /\ [L!Next]_(L!levelVars) => Held'
  <2>1. ASSUME bars \in Histories, [L!Next]_(L!levelVars)
        PROVE  bars' \in Histories
    BY <2>1 DEF L!Next, L!PivotNext, L!UserNext, L!BarsChange, L!Read, L!Ask, L!Delete, L!Write,
         L!PivotFails, L!Import, L!StopWrite, L!StopRead, L!Mark, L!DeleteMark, L!DeleteStop,
         L!levelVars, L!pivotVars
  <2> QED
    BY <2>1, LevelsNext
<1>4. UNCHANGED L!levelVars => UNCHANGED L!pivotVars
  BY DEF L!levelVars, L!pivotVars
<1> HIDE DEF Right, Held
<1>5. L!Spec => [][Right]_(L!pivotVars)
  BY <1>1, <1>2, <1>3, <1>4, PTL DEF L!Spec
<1> QED
  BY <1>5 DEF L!PivotsSetRight, Right

-----------------------------------------------------------------------------
(* Stops.                                                                  *)

\* A request that found no stop, and that no other of its user's overtook, still
\* finds none.
StopInv ==
  /\ stops \in [User -> SUBSET StopId]
  /\ post \in [Post -> {Null} \cup L!StopRequest]
  /\ \A q \in Post : post[q] # Null /\ post[q].alone /\ post[q].found = Null =>
       stops[post[q].user] = {}

\* What a commit of request q makes of the others of user u.
LEMMA CrossedRequests ==
  ASSUME L!LevelsNullAssumption, StopInv, NEW q \in Post, NEW u
  PROVE  /\ L!Crossed(q, u) \in [Post -> {Null} \cup L!StopRequest]
         /\ L!Crossed(q, u)[q] = Null
         /\ \A p \in Post \ {q} :
              IF post[p] # Null /\ post[p].user = u
              THEN L!Crossed(q, u)[p] # Null /\ ~L!Crossed(q, u)[p].alone
              ELSE L!Crossed(q, u)[p] = post[p]
<1>1. ASSUME NEW p \in Post, post[p] # Null
      PROVE  /\ [post[p] EXCEPT !.alone = FALSE] \in L!StopRequest
             /\ ~[post[p] EXCEPT !.alone = FALSE].alone
  BY <1>1 DEF StopInv, L!StopRequest
<1>2. \A p \in Post : L!Crossed(q, u)[p]
        = IF p = q THEN Null
          ELSE IF post[p] # Null /\ post[p].user = u THEN [post[p] EXCEPT !.alone = FALSE]
          ELSE post[p]
  BY DEF L!Crossed
<1>3. L!Crossed(q, u) = [p \in Post |-> L!Crossed(q, u)[p]]
  BY DEF L!Crossed
<1> QED
  BY <1>1, <1>2, <1>3 DEF StopInv, L!LevelsNullAssumption

LEMMA StopsNext ==
  ASSUME L!LevelsNullAssumption, StopInv, [L!Next]_(L!levelVars)
  PROVE  StopInv'
<1>1. ASSUME NEW q \in Post, NEW u \in User, L!StopRead(q, u)
      PROVE  StopInv'
  <2>1. PICK id \in L!Existing(u) :
          post' = [post EXCEPT ![q] = [user |-> u, found |-> id, alone |-> TRUE]]
    BY <1>1 DEF L!StopRead
  <2> DEFINE r == [user |-> u, found |-> id, alone |-> TRUE]
  <2>2. /\ id \in StopId \cup {Null}
        /\ id = Null => stops[u] = {}
    BY DEF L!Existing, StopInv, L!LevelsNullAssumption
  <2>3. r \in L!StopRequest /\ r.user = u /\ r.found = id
    BY <2>2 DEF L!StopRequest
  <2>4. stops' = stops /\ post' = [post EXCEPT ![q] = r]
    BY <1>1, <2>1 DEF L!StopRead
  <2> HIDE DEF r
  <2> QED
    BY <2>2, <2>3, <2>4 DEF StopInv
<1>2. ASSUME NEW q \in Post, L!StopWrite(q)
      PROVE  StopInv'
  <2>1. PICK u \in User : u = post[q].user
    BY <1>2 DEF L!StopWrite, StopInv, L!StopRequest
  <2>2. post' = L!Crossed(q, u)
    BY <1>2, <2>1 DEF L!StopWrite
  <2>3. /\ stops' \in [User -> SUBSET StopId]
        /\ \A t \in User \ {u} : stops'[t] = stops[t]
    BY <1>2, <2>1 DEF L!StopWrite, StopInv
  <2>4. ASSUME NEW p \in Post, post'[p] # Null, post'[p].alone, post'[p].found = Null
        PROVE  stops'[post'[p].user] = {}
    <3>1. p # q /\ post'[p] = post[p] /\ post[p].user # u
      BY <2>2, <2>4, CrossedRequests
    <3>2. post[p].user \in User
      BY <2>4, <3>1 DEF StopInv, L!StopRequest
    <3> QED
      BY <2>3, <2>4, <3>1, <3>2 DEF StopInv
  <2> QED
    BY <2>2, <2>3, <2>4, CrossedRequests DEF StopInv
<1>3. ASSUME NEW u \in User, NEW id \in StopId, L!DeleteStop(u, id)
      PROVE  StopInv'
  <2>1. post' = post /\ stops' = [stops EXCEPT ![u] = stops[u] \ {id}]
    BY <1>3 DEF L!DeleteStop, L!userVars
  <2>2. stops' \in [User -> SUBSET StopId] /\ \A t \in User : stops'[t] \subseteq stops[t]
    BY <2>1 DEF StopInv
  <2>3. \A q \in Post : post[q] # Null => post[q].user \in User
    BY DEF StopInv, L!StopRequest
  <2> QED
    BY <2>1, <2>2, <2>3 DEF StopInv
<1>4. CASE UNCHANGED <<stops, post>>
  BY <1>4 DEF StopInv
<1> QED
  BY <1>1, <1>2, <1>3, <1>4
  DEF L!Next, L!PivotNext, L!UserNext, L!BarsChange, L!Read, L!Ask, L!Delete, L!Write, L!PivotFails,
      L!Import, L!Mark, L!DeleteMark, L!levelVars, L!userVars

\* "One position, one stop" (create_sr_level), for any users and requests: one
\* that no other of the same user's overlaps never makes a second stop.
THEOREM StopStaysOne ==
  ASSUME L!LevelsNullAssumption
  PROVE  L!Spec => L!StopIsMoved
<1> DEFINE Moved == \A q \in Post : \A u \in User :
             /\ post[q] # Null /\ post[q].user = u /\ post[q].alone
             /\ L!Cardinality(stops[u]) <= 1
             /\ post'[q] = Null
             => L!Cardinality(stops'[u]) <= 1
<1>1. ASSUME StopInv, L!Next
      PROVE  Moved
  <2> SUFFICES ASSUME NEW q \in Post, NEW u \in User, post[q] # Null, post[q].user = u,
                      post[q].alone, Cardinality(stops[u]) <= 1, post'[q] = Null
               PROVE  Cardinality(stops'[u]) <= 1
    BY DEF L!Cardinality, Cardinality
  <2>1. L!StopWrite(q)
    <3>1. ASSUME post' = post
          PROVE  FALSE
      BY <3>1
    <3>2. ASSUME NEW p \in Post, NEW t \in User, L!StopRead(p, t)
          PROVE  FALSE
      BY <1>1, <3>2 DEF L!StopRead, StopInv
    <3>3. ASSUME NEW p \in Post \ {q}, L!StopWrite(p)
          PROVE  FALSE
      <4>1. PICK t : t = post[p].user
        OBVIOUS
      <4>2. post' = L!Crossed(p, t)
        BY <3>3, <4>1 DEF L!StopWrite
      <4> QED
        BY <1>1, <4>2, CrossedRequests
    <3> QED
      BY <1>1, <3>1, <3>2, <3>3
      DEF L!Next, L!PivotNext, L!UserNext, L!BarsChange, L!Read, L!Ask, L!Delete, L!Write,
          L!PivotFails, L!Import, L!Mark, L!DeleteMark, L!DeleteStop, L!userVars
  <2>2. CASE post[q].found # Null
    BY <2>1, <2>2 DEF L!StopWrite
  <2>3. CASE post[q].found = Null
    <3>1. stops[u] = {} /\ stops \in [User -> SUBSET StopId]
      BY <1>1, <2>3 DEF StopInv
    <3>2. PICK id : stops'[u] = {id}
      BY <2>1, <2>3, <3>1 DEF L!StopWrite
    <3>3. Cardinality({id}) = 1
      BY FS_Singleton
    <3> QED
      BY <3>2, <3>3
  <2> QED
    BY <2>2, <2>3
<1>2. L!Init => StopInv
  BY DEF L!Init, StopInv
<1>3. StopInv /\ [L!Next]_(L!levelVars) => StopInv'
  BY StopsNext
<1>4. UNCHANGED L!levelVars => UNCHANGED L!userVars
  BY DEF L!levelVars, L!userVars
<1> HIDE DEF Moved
<1>5. L!Spec => [][Moved]_(L!userVars)
  BY <1>1, <1>2, <1>3, <1>4, PTL DEF L!Spec
<1> QED
  BY <1>5 DEF L!StopIsMoved, Moved

-----------------------------------------------------------------------------
(* Fund NAVs.                                                              *)

\* What the key holds was published, and for the fund the symbol names unless the
\* run could not know it.
NavInv ==
  /\ day \in N!Day
  /\ navs \in [N!Day -> SUBSET Class]
  /\ kept # Null =>
       /\ kept.date \in N!Day /\ kept.date <= day
       /\ kept.project # Own => Own \notin kept.map
       /\ kept.source = "sec" => kept.date < day /\ N!Answer(kept.project, kept.date) # {}
       /\ kept.source # "sec" => kept.class = Asked
       /\ kept.project = Own /\ kept.class # Asked => Asked \notin navs[kept.date]

\* A map with the symbol's own project resolves to it.
LEMMA ResolvesOwn ==
  ASSUME N!FundNavAssumption, N!NamedAssumption, NEW m \in SUBSET Project, Own \in m
  PROVE  N!Resolve(m) = Own
<1>1. PICK k \in DOMAIN Tries : Tries[k] = {Own} /\ \A j \in 1 .. k - 1 : Tries[j] = {}
  BY DEF N!NamedAssumption
<1>2. DOMAIN Tries \subseteq Nat \ {0} /\ k \in Nat
  BY <1>1 DEF N!FundNavAssumption
<1>3. N!Cardinality({Own}) = 1 /\ N!Cardinality({}) = 0
  BY FS_Singleton, FS_EmptySet DEF N!Cardinality, Cardinality
<1>4. k \in N!Matching(m)
  <2>1. Tries[k] \cap m = {Own}
    BY <1>1
  <2> QED
    BY <1>3, <2>1 DEF N!Matching
<1>5. \A i \in N!Matching(m) : k <= i
  <2>1. ASSUME NEW i \in DOMAIN Tries, i < k
        PROVE  i \notin N!Matching(m)
    <3>1. Tries[i] \cap m = {}
      BY <1>1, <1>2, <2>1
    <3> QED
      BY <1>3, <3>1 DEF N!Matching
  <2> QED
    BY <1>2, <2>1 DEF N!Matching
<1>6. N!Min(N!Matching(m)) = k
  <2>1. \A i \in N!Matching(m) : i \in Nat
    BY <1>2 DEF N!Matching
  <2> QED
    BY <1>2, <1>4, <1>5, <2>1 DEF N!Min
<1> QED
  BY <1>1, <1>4, <1>6 DEF N!Resolve

\* The day a run takes is the newest it can read.
LEMMA NewestRead ==
  ASSUME N!FundNavAssumption, NEW D \in SUBSET N!Day, D # {}
  PROVE  N!FirstFound(D) \in D /\ \A e \in D : e <= N!FirstFound(D)
<1>1. D \subseteq Nat /\ \A e \in D : e <= LastDay
  BY DEF N!Day, N!FundNavAssumption
<1> DEFINE back == {LastDay - e : e \in D}
<1>2. back \in SUBSET Nat /\ back # {}
  <2>1. LastDay \in Nat
    BY DEF N!FundNavAssumption
  <2>2. ASSUME NEW e \in D
        PROVE  LastDay - e \in Nat
    BY <1>1, <2>1, <2>2
  <2> QED
    BY <2>2
<1>3. PICK n \in back : \A m \in back : n <= m
  BY <1>2, LeastNat
<1>4. PICK d \in D : n = LastDay - d
  BY <1>3
<1>5. ASSUME NEW e \in D
      PROVE  e <= d
  <2>1. n <= LastDay - e
    BY <1>3
  <2>2. LastDay \in Nat /\ e \in Nat /\ d \in Nat
    BY <1>1 DEF N!FundNavAssumption
  <2> QED
    BY <1>4, <2>1, <2>2
<1> QED
  BY <1>4, <1>5 DEF N!FirstFound

\* What a run keeps.
LEMMA RunKeeps ==
  ASSUME N!FundNavAssumption, NavInv, NEW m \in SUBSET Project, NEW cached,
         NEW failing \in SUBSET N!Asking, N!fetch_thai_fund_navs(m, cached, failing)
  PROVE  \/ kept' = kept
         \/ /\ kept'.project = Own /\ kept'.class = Asked /\ kept'.source = "finnomena"
            /\ kept'.date \in N!Day /\ kept'.date <= day
         \/ /\ kept'.project = N!Resolve(m) /\ kept'.map = m /\ kept'.source = "sec"
            /\ kept'.date \in N!Readable(N!Resolve(m), failing)
            /\ \A e \in N!Readable(N!Resolve(m), failing) : e <= kept'.date
            /\ kept'.class \in N!Choice(N!Answer(N!Resolve(m), kept'.date))
            /\ kept'.blind = \E e \in failing : e > kept'.date
<1> DEFINE p == N!Resolve(m)
           D == N!Readable(p, failing)
<1>1. CASE D # {}
  <2>1. PICK d : d = N!FirstFound(D)
    OBVIOUS
  <2>2. PICK c \in N!Choice(N!Answer(p, d)) : kept' = N!Nav(p, c, d, "sec", m, failing)
    BY <1>1, <2>1 DEF N!fetch_thai_fund_navs, N!FromSec
  <2>3. D \subseteq N!Day
    BY DEF N!Readable, N!Asking
  <2> HIDE DEF p, D
  <2>4. d \in D /\ \A e \in D : e <= d
    BY <1>1, <2>1, <2>3, NewestRead
  <2>5. d # Null
    BY <2>3, <2>4 DEF N!Day, N!FundNavAssumption
  <2> QED
    BY <2>2, <2>4, <2>5 DEF N!Nav, p, D
<1>2. CASE D = {}
  <2>1. kept' \in {kept} \cup N!FromFinnomena(m)
    BY <1>2 DEF N!fetch_thai_fund_navs
  <2>2. CASE kept' \in N!FromFinnomena(m)
    <3>1. PICK d \in {Null} \cup {e \in N!Day : e <= day} :
            kept' = N!Nav(Own, Asked, d, "finnomena", m, {})
      BY <2>2 DEF N!FromFinnomena
    <3>2. day \in N!Day /\ day <= day
      BY DEF NavInv, N!Day
    <3> QED
      BY <3>1, <3>2 DEF N!Nav
  <2> QED
    BY <2>1, <2>2
<1> QED
  BY <1>1, <1>2

LEMMA NavNext ==
  ASSUME N!FundNavAssumption, N!NamedAssumption, NavInv, [N!Next]_(N!navVars)
  PROVE  NavInv'
<1>1. ASSUME NEW m \in SUBSET Project, NEW failing \in SUBSET N!Asking, NEW cached,
             N!fetch_thai_fund_navs(m, cached, failing)
      PROVE  NavInv'
  <2>1. day' = day /\ navs' = navs
    BY <1>1 DEF N!fetch_thai_fund_navs
  <2>5. PICK p, d : p = N!Resolve(m) /\ d = kept'.date
    OBVIOUS
  <2>2. CASE kept' = kept
    BY <2>1, <2>2 DEF NavInv, N!Answer
  <2>3. CASE /\ kept'.project = Own /\ kept'.class = Asked /\ kept'.source = "finnomena"
             /\ kept'.date \in N!Day /\ kept'.date <= day
    BY <2>1, <2>3 DEF NavInv, N!Answer
  <2>4. CASE /\ kept'.project = p /\ kept'.map = m /\ kept'.source = "sec"
             /\ d \in N!Readable(p, failing)
             /\ kept'.class \in N!Choice(N!Answer(p, d))
    <3>1. d \in N!Day /\ d < day /\ d <= day /\ N!Answer(p, d) # {}
      BY <2>4 DEF N!Readable, N!Asking, N!Day, NavInv
    <3>2. p # Own => Own \notin m
      BY <2>5, ResolvesOwn
    <3>3. p = Own /\ kept'.class # Asked => Asked \notin navs[d]
      BY <2>4 DEF N!Answer, N!Choice
    <3>4. N!Answer(p, d)' = N!Answer(p, d)
      BY <2>1 DEF N!Answer
    <3> QED
      BY <2>1, <2>4, <2>5, <3>1, <3>2, <3>3, <3>4 DEF NavInv
  <2> QED
    BY <1>1, <2>2, <2>3, <2>4, <2>5, RunKeeps
<1>2. ASSUME NEW d \in N!Day, NEW S \in SUBSET Class, N!Publish(d, S)
      PROVE  NavInv'
  <2>1. /\ navs' = [navs EXCEPT ![d] = S] /\ navs[d] = {} /\ S # {} /\ day' = day
        /\ kept' = kept
    BY <1>2 DEF N!Publish
  <2>2. ASSUME kept # Null, kept.date = d
        PROVE  navs'[kept.date] = S
    BY <2>1, <2>2 DEF NavInv
  <2>3. \A e \in N!Day : navs'[e] = IF e = d THEN S ELSE navs[e]
    BY <2>1 DEF NavInv
  <2> QED
    BY <2>1, <2>3 DEF NavInv, N!Answer
<1>3. CASE N!NextDay
  BY <1>3 DEF N!NextDay, NavInv, N!Answer, N!Day, N!FundNavAssumption
<1>4. CASE N!MapExpires \/ N!NavExpires \/ UNCHANGED N!navVars
  BY <1>4 DEF N!MapExpires, N!NavExpires, N!navVars, NavInv, N!Answer
<1> QED
  BY <1>1, <1>2, <1>3, <1>4 DEF N!Next

LEMMA NavInit == ASSUME N!FundNavAssumption, N!Init
                 PROVE  NavInv
BY DEF N!Init, NavInv, N!Day, N!FundNavAssumption

\* Another fund's NAV stands under the symbol only if the run's map lacked the
\* symbol's own, and another class only on a day its own was not published
\* (fetch_thai_fund_navs, "pick the right class"), for any register, classes and
\* failures, of a symbol that names its fund.
THEOREM NavStaysOwn ==
  ASSUME N!FundNavAssumption, N!NamedAssumption
  PROVE  N!Spec => []N!OwnNav
<1>1. NavInv => N!OwnNav
  BY DEF NavInv, N!OwnNav
<1>2. N!Init => NavInv
  BY NavInit
<1>3. NavInv /\ [N!Next]_(N!navVars) => NavInv'
  BY NavNext
<1> QED
  BY <1>1, <1>2, <1>3, PTL DEF N!Spec

\* Between two NAVs the SEC gave for a fund there is no going back unless the
\* request for a newer day failed, however late it publishes, whatever expires,
\* and for any number of days looked back on.
THEOREM NavGoesForward ==
  ASSUME N!FundNavAssumption, N!NamedAssumption
  PROVE  N!Spec => N!GoesForward
<1> DEFINE Forward == kept # Null /\ kept' # Null /\ N!FromOneSource =>
                        kept'.date >= kept.date \/ kept'.blind
<1>1. ASSUME NavInv, N!Next
      PROVE  Forward
  <2> SUFFICES ASSUME kept # Null, kept' # Null, N!FromOneSource,
                      ~(kept'.date >= kept.date)
               PROVE  kept'.blind
    OBVIOUS
  <2>1. kept.date \in N!Day /\ kept.date < day /\ kept.source = "sec" /\ kept'.source = "sec"
        /\ kept'.project = kept.project /\ N!Answer(kept.project, kept.date) # {}
    BY <1>1 DEF NavInv, N!FromOneSource
  <2>2. kept' # kept
    BY <2>1 DEF N!Day, N!FundNavAssumption
  <2>3. PICK m \in SUBSET Project, failing \in SUBSET N!Asking :
          \E cached \in {m, Null} : N!fetch_thai_fund_navs(m, cached, failing)
    BY <1>1, <2>2 DEF N!Next, N!NextDay, N!Publish, N!MapExpires, N!NavExpires
  <2>4. /\ kept'.project = N!Resolve(m)
        /\ kept'.date \in N!Readable(N!Resolve(m), failing)
        /\ \A e \in N!Readable(N!Resolve(m), failing) : e <= kept'.date
        /\ kept'.blind = \E e \in failing : e > kept'.date
    BY <1>1, <2>1, <2>2, <2>3, RunKeeps
  <2>5. kept'.date \in Int /\ kept.date \in Int /\ kept'.date < kept.date
        /\ day - LookBack <= kept'.date
    BY <1>1, <2>1, <2>4 DEF N!Readable, N!Asking, N!Day, NavInv, N!FundNavAssumption
  <2>6. kept.date \in N!Asking
    BY <1>1, <2>1, <2>5 DEF N!Asking, N!Day, NavInv, N!FundNavAssumption
  <2>7. kept.date \notin N!Readable(N!Resolve(m), failing)
    BY <2>4, <2>5
  <2>8. kept.date \in failing
    BY <2>1, <2>4, <2>6, <2>7 DEF N!Readable
  <2> QED
    BY <2>4, <2>5, <2>8
<1>2. N!Init => NavInv
  BY NavInit
<1>3. NavInv /\ [N!Next]_(N!navVars) => NavInv'
  BY NavNext
<1> HIDE DEF Forward
<1>4. N!Spec => [][Forward]_(N!navVars)
  BY <1>1, <1>2, <1>3, PTL DEF N!Spec
<1> QED
  BY <1>4 DEF N!GoesForward, Forward

-----------------------------------------------------------------------------
(* Daily bars.                                                             *)

\* Every writer but the prefetcher has dropped the blank bars when it holds a
\* series; the prefetcher drops them when it stores one.
CleanJobs ==
  \A w \in {"demand", "fallback", "seed"} :
    job[w] # Null => \A d \in B!Day : job[w].bars[d] # "blank"

\* The inductive invariant.
BarsInv ==
  /\ DOMAIN job = B!Writer
  /\ CleanJobs
  /\ B!StoredBarsHavePrices

-----------------------------------------------------------------------------
LEMMA FiniteIsClean ==
  ASSUME B!BarsAssumption, NEW s, NEW d \in B!Day
  PROVE  B!Finite(s)[d] # "blank"
BY DEF B!BarsAssumption, B!Finite, B!Kind

\* Fetching: what is held was cleaned, but for the prefetcher's.
LEMMA FetchKeeps ==
  ASSUME B!BarsAssumption, BarsInv,
         \/ B!PrefetchFetch \/ B!DemandFetch \/ B!DirectFetch("fallback") \/ B!SeedFetch
  PROVE  BarsInv'
<1> USE DEF BarsInv
<1>1. UNCHANGED db
  BY DEF B!PrefetchFetch, B!DemandFetch, B!SeedFetch, B!DirectFetch
<1>2. PICK w, s :
        /\ w \in B!Writer
        /\ job' = B!Fetched(w, s)
        /\ w # "prefetch" => \A d \in B!Day : s[d] # "blank"
  <2>1. CASE B!PrefetchFetch
    BY <2>1 DEF B!PrefetchFetch, B!Writer
  <2>2. CASE B!DemandFetch
    BY <2>2, FiniteIsClean DEF B!DemandFetch, B!Writer
  <2>3. ASSUME NEW v \in {"fallback", "seed"}, B!DirectFetch(v)
        PROVE  \E s : job' = B!Fetched(v, s) /\ \A d \in B!Day : s[d] # "blank"
    <3>1. PICK t \in B!Answers, first \in B!Day :
            job' = B!Fetched(v, [d \in B!Day |-> IF d < first THEN Null ELSE B!Finite(t)[d]])
      BY <2>3 DEF B!DirectFetch
    <3>2. \A d \in B!Day : [e \in B!Day |-> IF e < first THEN Null ELSE B!Finite(t)[e]][d] # "blank"
      BY FiniteIsClean DEF B!BarsAssumption, B!Kind
    <3> QED
      BY <3>1, <3>2
  <2> QED
    BY <2>1, <2>2, <2>3 DEF B!SeedFetch, B!Writer
<1>3. /\ DOMAIN job' = B!Writer
      /\ job'[w].bars = s
      /\ \A v \in B!Writer \ {w} : job'[v] = job[v]
  BY <1>2 DEF B!Fetched
<1>4. CleanJobs'
  BY <1>2, <1>3 DEF CleanJobs, B!Writer
<1> QED
  BY <1>1, <1>3, <1>4 DEF B!StoredBarsHavePrices

-----------------------------------------------------------------------------
\* Rows: an insert or an upsert of a series without blank bars adds none.
LEMMA RowsKeep ==
  ASSUME B!BarsAssumption, B!StoredBarsHavePrices, NEW s, NEW zone,
         \A d \in B!Day : s[d] # "blank",
         \/ db' = B!Inserted(s, zone) \/ db' = B!Upserted(s, zone) \/ UNCHANGED db
  PROVE  B!StoredBarsHavePrices'
<1> SUFFICES ASSUME NEW k \in B!Key PROVE db'[k] # "blank"
  BY DEF B!StoredBarsHavePrices
<1>1. k[1] \in B!Day /\ db[k] # "blank"
  BY DEF B!Key, B!StoredBarsHavePrices
<1> QED
  BY <1>1 DEF B!Inserted, B!Upserted

\* Jobs: one that is done holds nothing, one that has stored what it held.
LEMMA JobDone ==
  ASSUME DOMAIN job = B!Writer, CleanJobs, NEW w \in B!Writer, job' = B!Done(w)
  PROVE  DOMAIN job' = B!Writer /\ CleanJobs'
BY DEF B!Done, CleanJobs, B!Writer

LEMMA JobStored ==
  ASSUME DOMAIN job = B!Writer, CleanJobs, NEW w \in B!Writer,
         job[w] # Null, job' = B!Stored(w)
  PROVE  DOMAIN job' = B!Writer /\ CleanJobs'
<1>1. /\ DOMAIN job' = B!Writer
      /\ job'[w].bars = job[w].bars
      /\ \A v \in B!Writer \ {w} : job'[v] = job[v]
  BY DEF B!Stored
<1> QED
  BY <1>1 DEF CleanJobs, B!Writer

\* Storing: the prefetcher cleans what it inserts, the others hold nothing else.
LEMMA StoreKeeps ==
  ASSUME B!BarsAssumption, BarsInv, B!PrefetchStore \/ B!DemandStore \/ B!SeedStore
  PROVE  BarsInv'
<1> USE DEF BarsInv
<1>1. CASE B!PrefetchStore
  <2>1. B!StoredBarsHavePrices'
    BY <1>1, RowsKeep, FiniteIsClean DEF B!PrefetchStore, B!Prefetched
  <2>2. DOMAIN job' = B!Writer /\ CleanJobs'
    BY <1>1, JobStored DEF B!PrefetchStore, B!At, B!Writer
  <2> QED
    BY <2>1, <2>2
<1>2. CASE B!DemandStore
  <2>1. B!StoredBarsHavePrices'
    BY <1>2, RowsKeep DEF B!DemandStore, B!At, CleanJobs
  <2>2. DOMAIN job' = B!Writer /\ CleanJobs'
    BY <1>2, JobStored DEF B!DemandStore, B!At, B!Writer
  <2> QED
    BY <2>1, <2>2
<1>3. CASE B!SeedStore
  <2>1. B!StoredBarsHavePrices'
    BY <1>3, RowsKeep DEF B!SeedStore, B!At, CleanJobs
  <2>2. DOMAIN job' = B!Writer /\ CleanJobs'
    BY <1>3, JobDone DEF B!SeedStore, B!Writer
  <2> QED
    BY <2>1, <2>2
<1> QED
  BY <1>1, <1>2, <1>3

\* Every other step deletes rows at most.
LEMMA RestKeeps ==
  ASSUME B!BarsAssumption, BarsInv,
         \/ \E w \in {"prefetch", "demand", "fallback"} : B!Cache(w)
         \/ \E w \in B!Writer : B!Fails(w)
         \/ B!Tick \/ B!Expire \/ B!Housekeep \/ UNCHANGED B!barVars
  PROVE  BarsInv'
<1> USE DEF BarsInv
<1>1. B!StoredBarsHavePrices'
  <2>1. CASE B!Housekeep
    BY <2>1 DEF B!Housekeep, B!StoredBarsHavePrices, B!BarsAssumption, B!Kind
  <2>2. CASE UNCHANGED db
    BY <2>2 DEF B!StoredBarsHavePrices
  <2> QED
    BY <2>1, <2>2 DEF B!Cache, B!Fails, B!Tick, B!Expire, B!barVars
<1>2. DOMAIN job' = B!Writer /\ CleanJobs'
  <2>1. CASE \E w \in B!Writer : job' = B!Done(w)
    BY <2>1, JobDone
  <2>2. CASE UNCHANGED job
    BY <2>2 DEF CleanJobs
  <2> QED
    BY <2>1, <2>2 DEF B!Cache, B!Fails, B!Tick, B!Expire, B!Housekeep, B!barVars, B!Writer
<1> QED
  BY <1>1, <1>2

\* "A bar with no prices should never be persisted" (bar_hygiene.py): whichever
\* of the four writers store what they fetched, in whatever order, with the
\* table refusing, housekeeping deleting and processes dying in between, no row
\* of ohlcv_bars is blank.
THEOREM NoBlankRow ==
  ASSUME B!BarsAssumption
  PROVE  B!Spec => []B!StoredBarsHavePrices
<1>1. B!Init => BarsInv
  BY DEF B!Init, BarsInv, CleanJobs, B!StoredBarsHavePrices, B!BarsAssumption, B!Kind, B!Writer
<1>2. BarsInv /\ [B!Next]_B!barVars => BarsInv'
  BY FetchKeeps, StoreKeeps, RestKeeps DEF B!Next
<1>3. BarsInv => B!StoredBarsHavePrices
  BY DEF BarsInv
<1> QED
  BY <1>1, <1>2, <1>3, PTL DEF B!Spec

-----------------------------------------------------------------------------
(* Backtests.  Each loop of the engine is taken apart row by row (SumsStep  *)
(* to EmaStep); an indicator on a longer series agrees with the one on the  *)
(* shorter where both are defined (SameEma, SameSmoothed, SameSma), so the  *)
(* signals do, and the walk over them.                                      *)

\* A sum, one number after another.
LEMMA SumsStep ==
  ASSUME NEW s, Len(s) \in Nat
  PROVE  LET f == T!Sums(s)
         IN f[0] = 0 /\ \A k \in 1 .. Len(s) : f[k] = f[k - 1] + s[k]
<1> DEFINE Eq(g, m) == g = [k \in 0 .. m |-> IF k = 0 THEN 0 ELSE g[k - 1] + s[k]]
           Ks == {m \in Nat : \E g : Eq(g, m)}
           f == T!Sums(s)
<1>1. 0 \in Ks
  <2>1. Eq([k \in 0 .. 0 |-> 0], 0)
    OBVIOUS
  <2> QED
    BY <2>1
<1>2. ASSUME NEW m \in Ks
      PROVE  m + 1 \in Ks
  <2>1. PICK g : Eq(g, m)
    OBVIOUS
  <2> DEFINE e == [k \in 0 .. m + 1 |-> IF k = 0 THEN 0 ELSE g[k - 1] + s[k]]
  <2>2. \A k \in 0 .. m : k \in 0 .. m + 1
    OBVIOUS
  <2>3. \A k \in 0 .. m : e[k] = g[k]
    BY <2>1, <2>2
  <2>4. \A k \in 0 .. m + 1 : k # 0 => k - 1 \in 0 .. m
    OBVIOUS
  <2>5. Eq(e, m + 1)
    BY <2>3, <2>4
  <2> HIDE DEF e, Eq
  <2>6. m + 1 \in Nat /\ \E h : Eq(h, (m + 1))
    <3>1. m \in Nat /\ m + 1 \in Nat /\ (m + 1) = m + 1
      OBVIOUS
    <3> QED
      BY <2>5, <3>1
  <2> QED
    BY <2>6
<1>3. PICK m \in Nat : Len(s) = m
  OBVIOUS
<1>4. m \in Ks
  <2> HIDE DEF Ks
  <2>1. Ks = Nat
    <3>1. Ks \in SUBSET Nat
      BY DEF Ks
    <3> QED
      BY <1>1, <1>2, <3>1, AllNumbers
  <2> QED
    BY <2>1
<1>5. f = CHOOSE g : Eq(g, Len(s))
  BY DEF T!Sums
<1>6. Eq(f, Len(s))
  BY <1>3, <1>4, <1>5
<1> HIDE DEF f
<1>7. f[0] = 0 /\ \A k \in 1 .. Len(s) : f[k] = f[k - 1] + s[k]
  BY <1>3, <1>6
<1> QED
  BY <1>7 DEF f

\* A product, one number after another.
LEMMA ProductsStep ==
  ASSUME NEW s, Len(s) \in Nat
  PROVE  LET f == T!Products(s)
         IN f[0] = 1 /\ \A k \in 1 .. Len(s) : f[k] = f[k - 1] * s[k]
<1> DEFINE Eq(g, m) == g = [k \in 0 .. m |-> IF k = 0 THEN 1 ELSE g[k - 1] * s[k]]
           Ks == {m \in Nat : \E g : Eq(g, m)}
           f == T!Products(s)
<1>1. 0 \in Ks
  <2>1. Eq([k \in 0 .. 0 |-> 1], 0)
    OBVIOUS
  <2> QED
    BY <2>1
<1>2. ASSUME NEW m \in Ks
      PROVE  m + 1 \in Ks
  <2>1. PICK g : Eq(g, m)
    OBVIOUS
  <2> DEFINE e == [k \in 0 .. m + 1 |-> IF k = 0 THEN 1 ELSE g[k - 1] * s[k]]
  <2>2. \A k \in 0 .. m : k \in 0 .. m + 1
    OBVIOUS
  <2>3. \A k \in 0 .. m : e[k] = g[k]
    BY <2>1, <2>2
  <2>4. \A k \in 0 .. m + 1 : k # 0 => k - 1 \in 0 .. m
    OBVIOUS
  <2>5. Eq(e, m + 1)
    BY <2>3, <2>4
  <2> HIDE DEF e, Eq
  <2>6. m + 1 \in Nat /\ \E h : Eq(h, (m + 1))
    <3>1. m \in Nat /\ m + 1 \in Nat /\ (m + 1) = m + 1
      OBVIOUS
    <3> QED
      BY <2>5, <3>1
  <2> QED
    BY <2>6
<1>3. PICK m \in Nat : Len(s) = m
  OBVIOUS
<1>4. m \in Ks
  <2> HIDE DEF Ks
  <2>1. Ks = Nat
    <3>1. Ks \in SUBSET Nat
      BY DEF Ks
    <3> QED
      BY <1>1, <1>2, <3>1, AllNumbers
  <2> QED
    BY <2>1
<1>5. f = CHOOSE g : Eq(g, Len(s))
  BY DEF T!Products
<1>6. Eq(f, Len(s))
  BY <1>3, <1>4, <1>5
<1> HIDE DEF f
<1>7. f[0] = 1 /\ \A k \in 1 .. Len(s) : f[k] = f[k - 1] * s[k]
  BY <1>3, <1>6
<1> QED
  BY <1>7 DEF f

\* A walk, day by day.
LEMMA WalksStep ==
  ASSUME NEW c, Len(c) \in Nat, NEW E, NEW X
  PROVE  LET f == T!Walks(c, E, X)
         IN f[0] = T!Idle /\ \A k \in 1 .. Len(c) : f[k] = T!OneDay(f[k - 1], k, E, X)
<1> DEFINE Eq(g, m) == g = [k \in 0 .. m |-> IF k = 0 THEN T!Idle ELSE T!OneDay(g[k - 1], k, E, X)]
           Ks == {m \in Nat : \E g : Eq(g, m)}
           f == T!Walks(c, E, X)
<1>1. 0 \in Ks
  <2>1. Eq([k \in 0 .. 0 |-> T!Idle], 0)
    OBVIOUS
  <2> QED
    BY <2>1
<1>2. ASSUME NEW m \in Ks
      PROVE  m + 1 \in Ks
  <2>1. PICK g : Eq(g, m)
    OBVIOUS
  <2> DEFINE e == [k \in 0 .. m + 1 |-> IF k = 0 THEN T!Idle ELSE T!OneDay(g[k - 1], k, E, X)]
  <2>2. \A k \in 0 .. m : k \in 0 .. m + 1
    OBVIOUS
  <2>3. \A k \in 0 .. m : e[k] = g[k]
    BY <2>1, <2>2
  <2>4. \A k \in 0 .. m + 1 : k # 0 => k - 1 \in 0 .. m
    OBVIOUS
  <2>5. Eq(e, m + 1)
    BY <2>3, <2>4
  <2> HIDE DEF e, Eq
  <2>6. m + 1 \in Nat /\ \E h : Eq(h, (m + 1))
    <3>1. m \in Nat /\ m + 1 \in Nat /\ (m + 1) = m + 1
      OBVIOUS
    <3> QED
      BY <2>5, <3>1
  <2> QED
    BY <2>6
<1>3. PICK m \in Nat : Len(c) = m
  OBVIOUS
<1>4. m \in Ks
  <2> HIDE DEF Ks
  <2>1. Ks = Nat
    <3>1. Ks \in SUBSET Nat
      BY DEF Ks
    <3> QED
      BY <1>1, <1>2, <3>1, AllNumbers
  <2> QED
    BY <2>1
<1>5. f = CHOOSE g : Eq(g, Len(c))
  BY DEF T!Walks
<1>6. Eq(f, Len(c))
  BY <1>3, <1>4, <1>5
<1> HIDE DEF f
<1>7. f[0] = T!Idle /\ \A k \in 1 .. Len(c) : f[k] = T!OneDay(f[k - 1], k, E, X)
  BY <1>3, <1>6
<1> QED
  BY <1>7 DEF f

\* The drawdown, one equity after another.
LEMMA DrawdownsStep ==
  ASSUME NEW s, Len(s) \in Nat
  PROVE  LET f == T!Drawdowns(s)
         IN f[0] = [peak |-> s[1], drop |-> 0, of |-> 1] /\ \A k \in 1 .. Len(s) : f[k] = T!Deeper(f[k - 1], s[k])
<1> DEFINE Eq(g, m) == g = [k \in 0 .. m |-> IF k = 0 THEN [peak |-> s[1], drop |-> 0, of |-> 1] ELSE T!Deeper(g[k - 1], s[k])]
           Ks == {m \in Nat : \E g : Eq(g, m)}
           f == T!Drawdowns(s)
<1>1. 0 \in Ks
  <2>1. Eq([k \in 0 .. 0 |-> [peak |-> s[1], drop |-> 0, of |-> 1]], 0)
    OBVIOUS
  <2> QED
    BY <2>1
<1>2. ASSUME NEW m \in Ks
      PROVE  m + 1 \in Ks
  <2>1. PICK g : Eq(g, m)
    OBVIOUS
  <2> DEFINE e == [k \in 0 .. m + 1 |-> IF k = 0 THEN [peak |-> s[1], drop |-> 0, of |-> 1] ELSE T!Deeper(g[k - 1], s[k])]
  <2>2. \A k \in 0 .. m : k \in 0 .. m + 1
    OBVIOUS
  <2>3. \A k \in 0 .. m : e[k] = g[k]
    BY <2>1, <2>2
  <2>4. \A k \in 0 .. m + 1 : k # 0 => k - 1 \in 0 .. m
    OBVIOUS
  <2>5. Eq(e, m + 1)
    BY <2>3, <2>4
  <2> HIDE DEF e, Eq
  <2>6. m + 1 \in Nat /\ \E h : Eq(h, (m + 1))
    <3>1. m \in Nat /\ m + 1 \in Nat /\ (m + 1) = m + 1
      OBVIOUS
    <3> QED
      BY <2>5, <3>1
  <2> QED
    BY <2>6
<1>3. PICK m \in Nat : Len(s) = m
  OBVIOUS
<1>4. m \in Ks
  <2> HIDE DEF Ks
  <2>1. Ks = Nat
    <3>1. Ks \in SUBSET Nat
      BY DEF Ks
    <3> QED
      BY <1>1, <1>2, <3>1, AllNumbers
  <2> QED
    BY <2>1
<1>5. f = CHOOSE g : Eq(g, Len(s))
  BY DEF T!Drawdowns
<1>6. Eq(f, Len(s))
  BY <1>3, <1>4, <1>5
<1> HIDE DEF f
<1>7. f[0] = [peak |-> s[1], drop |-> 0, of |-> 1] /\ \A k \in 1 .. Len(s) : f[k] = T!Deeper(f[k - 1], s[k])
  BY <1>3, <1>6
<1> QED
  BY <1>7 DEF f

\* Wilder's average, day by day.
LEMMA SmoothedStep ==
  ASSUME NEW c, Len(c) \in Nat, NEW moves, Period \in Nat, Period + 1 <= Len(c)
  PROVE  LET f == T!Smoothed(c, moves)
         IN f[Period + 1] = T!Sum([j \in 1 .. Period |-> moves[j + 1]]) /\ \A k \in Period + 1 + 1 .. Len(c) : f[k] = f[k - 1] * (Period - 1) + moves[k] * Period ^ (k - Period - 1)
<1> DEFINE Eq(g, m) == g = [k \in Period + 1 .. m |-> IF k = Period + 1 THEN T!Sum([j \in 1 .. Period |-> moves[j + 1]]) ELSE g[k - 1] * (Period - 1) + moves[k] * Period ^ (k - Period - 1)]
           Ks == {m \in Nat : \E g : Eq(g, Period + 1 + m)}
           f == T!Smoothed(c, moves)
<1>1. 0 \in Ks
  <2>1. Eq([k \in Period + 1 .. Period + 1 + 0 |-> T!Sum([j \in 1 .. Period |-> moves[j + 1]])], Period + 1 + 0)
    OBVIOUS
  <2> QED
    BY <2>1
<1>2. ASSUME NEW m \in Ks
      PROVE  m + 1 \in Ks
  <2>1. PICK g : Eq(g, Period + 1 + m)
    OBVIOUS
  <2> DEFINE e == [k \in Period + 1 .. Period + 1 + m + 1 |-> IF k = Period + 1 THEN T!Sum([j \in 1 .. Period |-> moves[j + 1]]) ELSE g[k - 1] * (Period - 1) + moves[k] * Period ^ (k - Period - 1)]
  <2>2. \A k \in Period + 1 .. Period + 1 + m : k \in Period + 1 .. Period + 1 + m + 1
    OBVIOUS
  <2>3. \A k \in Period + 1 .. Period + 1 + m : e[k] = g[k]
    BY <2>1, <2>2
  <2>4. \A k \in Period + 1 .. Period + 1 + m + 1 : k # Period + 1 => k - 1 \in Period + 1 .. Period + 1 + m
    OBVIOUS
  <2>5. Eq(e, Period + 1 + m + 1)
    BY <2>3, <2>4
  <2> HIDE DEF e, Eq
  <2>6. m + 1 \in Nat /\ \E h : Eq(h, Period + 1 + (m + 1))
    <3>1. m \in Nat /\ m + 1 \in Nat /\ Period + 1 + (m + 1) = Period + 1 + m + 1
      OBVIOUS
    <3> QED
      BY <2>5, <3>1
  <2> QED
    BY <2>6
<1>3. PICK m \in Nat : Len(c) = Period + 1 + m
  <2>1. Len(c) - (Period + 1) \in Nat /\ Len(c) = Period + 1 + (Len(c) - (Period + 1))
    OBVIOUS
  <2> QED
    BY <2>1
<1>4. m \in Ks
  <2> HIDE DEF Ks
  <2>1. Ks = Nat
    <3>1. Ks \in SUBSET Nat
      BY DEF Ks
    <3> QED
      BY <1>1, <1>2, <3>1, AllNumbers
  <2> QED
    BY <2>1
<1>5. f = CHOOSE g : Eq(g, Len(c))
  BY DEF T!Smoothed
<1>6. Eq(f, Len(c))
  BY <1>3, <1>4, <1>5
<1> HIDE DEF f
<1>7. f[Period + 1] = T!Sum([j \in 1 .. Period |-> moves[j + 1]]) /\ \A k \in Period + 1 + 1 .. Len(c) : f[k] = f[k - 1] * (Period - 1) + moves[k] * Period ^ (k - Period - 1)
  BY <1>3, <1>6
<1> QED
  BY <1>7 DEF f

\* An exponential average, day by day.
LEMMA EmaStep ==
  ASSUME NEW v, Len(v) \in Nat, NEW p \in Nat, p <= Len(v)
  PROVE  LET f == T!Ema(v, p)
         IN f[p] = (T!Unit(p) \div p) * T!Sum(SubSeq(v, 1, p)) /\ \A k \in p + 1 .. Len(v) : f[k] = (2 * T!Unit(p) * v[k] + (p - 1) * f[k - 1]) \div (p + 1)
<1> DEFINE Eq(g, m) == g = [k \in p .. m |-> IF k = p THEN (T!Unit(p) \div p) * T!Sum(SubSeq(v, 1, p)) ELSE (2 * T!Unit(p) * v[k] + (p - 1) * g[k - 1]) \div (p + 1)]
           Ks == {m \in Nat : \E g : Eq(g, p + m)}
           f == T!Ema(v, p)
<1>1. 0 \in Ks
  <2>1. Eq([k \in p .. p + 0 |-> (T!Unit(p) \div p) * T!Sum(SubSeq(v, 1, p))], p + 0)
    OBVIOUS
  <2> QED
    BY <2>1
<1>2. ASSUME NEW m \in Ks
      PROVE  m + 1 \in Ks
  <2>1. PICK g : Eq(g, p + m)
    OBVIOUS
  <2> DEFINE e == [k \in p .. p + m + 1 |-> IF k = p THEN (T!Unit(p) \div p) * T!Sum(SubSeq(v, 1, p)) ELSE (2 * T!Unit(p) * v[k] + (p - 1) * g[k - 1]) \div (p + 1)]
  <2>2. \A k \in p .. p + m : k \in p .. p + m + 1
    OBVIOUS
  <2>3. \A k \in p .. p + m : e[k] = g[k]
    BY <2>1, <2>2
  <2>4. \A k \in p .. p + m + 1 : k # p => k - 1 \in p .. p + m
    OBVIOUS
  <2>5. Eq(e, p + m + 1)
    BY <2>3, <2>4
  <2> HIDE DEF e, Eq
  <2>6. m + 1 \in Nat /\ \E h : Eq(h, p + (m + 1))
    <3>1. m \in Nat /\ m + 1 \in Nat /\ p + (m + 1) = p + m + 1
      OBVIOUS
    <3> QED
      BY <2>5, <3>1
  <2> QED
    BY <2>6
<1>3. PICK m \in Nat : Len(v) = p + m
  <2>1. Len(v) - (p) \in Nat /\ Len(v) = p + (Len(v) - (p))
    OBVIOUS
  <2> QED
    BY <2>1
<1>4. m \in Ks
  <2> HIDE DEF Ks
  <2>1. Ks = Nat
    <3>1. Ks \in SUBSET Nat
      BY DEF Ks
    <3> QED
      BY <1>1, <1>2, <3>1, AllNumbers
  <2> QED
    BY <2>1
<1>5. f = CHOOSE g : Eq(g, Len(v))
  BY DEF T!Ema
<1>6. Eq(f, Len(v))
  BY <1>3, <1>4, <1>5
<1> HIDE DEF f
<1>7. f[p] = (T!Unit(p) \div p) * T!Sum(SubSeq(v, 1, p)) /\ \A k \in p + 1 .. Len(v) : f[k] = (2 * T!Unit(p) * v[k] + (p - 1) * f[k - 1]) \div (p + 1)
  BY <1>3, <1>6
<1> QED
  BY <1>7 DEF f


-----------------------------------------------------------------------------
(* A day more: d is c and the closes after it.                             *)

Extends(d, c) ==
  /\ Len(c) \in Nat /\ Len(d) \in Nat /\ Len(c) <= Len(d)
  /\ \A i \in 1 .. Len(c) : d[i] = c[i]

LEMMA SameWindow ==
  ASSUME NEW S, NEW c \in Seq(S), NEW d \in Seq(S), Extends(d, c),
         NEW a \in Nat \ {0}, NEW b \in Nat, b <= Len(c)
  PROVE  SubSeq(d, a, b) = SubSeq(c, a, b)
<1>1. \A i \in 1 .. 1 + b - a : d[i + a - 1] = c[i + a - 1]
  BY DEF Extends
<1>2. SubSeq(d, a, b) = [i \in 1 .. 1 + b - a |-> d[i + a - 1]]
  OBVIOUS
<1>3. SubSeq(c, a, b) = [i \in 1 .. 1 + b - a |-> c[i + a - 1]]
  OBVIOUS
<1> QED
  BY <1>1, <1>2, <1>3

LEMMA SameEma ==
  ASSUME NEW S, NEW v \in Seq(S), NEW w \in Seq(S), Extends(w, v),
         NEW p \in Nat \ {0}
  PROVE  \A i \in p .. Len(v) : T!Ema(w, p)[i] = T!Ema(v, p)[i]
<1> SUFFICES ASSUME p <= Len(v)
             PROVE  \A i \in p .. Len(v) : T!Ema(w, p)[i] = T!Ema(v, p)[i]
  BY DEF Extends
<1>1. Len(v) \in Nat /\ Len(w) \in Nat /\ p <= Len(w) /\ Len(v) <= Len(w)
  BY DEF Extends
<1>2. PICK f : f = T!Ema(v, p)
  OBVIOUS
<1>3. PICK g : g = T!Ema(w, p)
  OBVIOUS
<1>4. SubSeq(w, 1, p) = SubSeq(v, 1, p)
  BY SameWindow
<1>5. f[p] = g[p]
  <2>1. f[p] = (T!Unit(p) \div p) * T!Sum(SubSeq(v, 1, p))
    BY <1>1, <1>2, EmaStep
  <2>2. g[p] = (T!Unit(p) \div p) * T!Sum(SubSeq(w, 1, p))
    BY <1>1, <1>3, EmaStep
  <2> QED
    BY <1>4, <2>1, <2>2
<1>6. ASSUME NEW k \in p + 1 .. Len(v), f[k - 1] = g[k - 1]
      PROVE  f[k] = g[k]
  <2>1. f[k] = (2 * T!Unit(p) * v[k] + (p - 1) * f[k - 1]) \div (p + 1)
    BY <1>1, <1>2, EmaStep
  <2>2. k \in p + 1 .. Len(w)
    BY <1>1
  <2>3. g[k] = (2 * T!Unit(p) * w[k] + (p - 1) * g[k - 1]) \div (p + 1)
    BY <1>1, <1>3, <2>2, EmaStep
  <2>4. v[k] = w[k]
    BY DEF Extends
  <2> QED
    BY <1>6, <2>1, <2>3, <2>4
<1> DEFINE Good == {m \in 0 .. Len(v) - p : f[p + m] = g[p + m]}
<1>7. 0 \in Good
  <2>1. p + 0 = p
    OBVIOUS
  <2> QED
    BY <1>1, <1>5, <2>1
<1>8. ASSUME NEW m \in 1 .. Len(v) - p, m - 1 \in Good
      PROVE  m \in Good
  <2>1. p + m \in p + 1 .. Len(v) /\ p + (m - 1) = (p + m) - 1
    BY <1>1
  <2>2. f[p + m] = g[p + m]
    BY <1>6, <1>8, <2>1
  <2>3. m \in 0 .. Len(v) - p
    BY <1>1
  <2> QED
    BY <2>2, <2>3
<1>9. \A m \in 0 .. Len(v) - p : m \in Good
  <2> HIDE DEF Good
  <2>1. Len(v) - p \in Nat
    BY <1>1
  <2> QED
    BY <1>7, <1>8, <2>1, LoopKeeps
<1>10. ASSUME NEW i \in p .. Len(v)
       PROVE  f[i] = g[i]
  <2>1. i - p \in 0 .. Len(v) - p /\ p + (i - p) = i
    BY <1>1
  <2> QED
    BY <1>9, <2>1
<1> QED
  BY <1>2, <1>3, <1>10

LEMMA SameSmoothed ==
  ASSUME NEW c, NEW d, Extends(d, c), NEW mc, NEW md,
         \A i \in 2 .. Len(c) : md[i] = mc[i], Period \in Nat \ {0}
  PROVE  \A i \in Period + 1 .. Len(c) : T!Smoothed(d, md)[i] = T!Smoothed(c, mc)[i]
<1> SUFFICES ASSUME Period + 1 <= Len(c)
             PROVE  \A i \in Period + 1 .. Len(c) : T!Smoothed(d, md)[i] = T!Smoothed(c, mc)[i]
  BY DEF Extends
<1>1. Len(c) \in Nat /\ Len(d) \in Nat /\ Period + 1 <= Len(d) /\ Len(c) <= Len(d)
  BY DEF Extends
<1>2. PICK f : f = T!Smoothed(c, mc)
  OBVIOUS
<1>3. PICK g : g = T!Smoothed(d, md)
  OBVIOUS
<1>4. [j \in 1 .. Period |-> md[j + 1]] = [j \in 1 .. Period |-> mc[j + 1]]
  <2>1. \A j \in 1 .. Period : j + 1 \in 2 .. Len(c)
    BY <1>1
  <2> QED
    BY <2>1
<1> DEFINE p == Period + 1
<1>5. f[p] = g[p]
  <2>1. f[p] = T!Sum([j \in 1 .. Period |-> mc[j + 1]])
    BY <1>1, <1>2, SmoothedStep
  <2>2. g[p] = T!Sum([j \in 1 .. Period |-> md[j + 1]])
    BY <1>1, <1>3, SmoothedStep
  <2> QED
    BY <1>4, <2>1, <2>2
<1>6. ASSUME NEW k \in p + 1 .. Len(c), f[k - 1] = g[k - 1]
      PROVE  f[k] = g[k]
  <2>1. f[k] = f[k - 1] * (Period - 1) + mc[k] * Period ^ (k - Period - 1)
    BY <1>1, <1>2, SmoothedStep
  <2>2. k \in Period + 1 + 1 .. Len(d) /\ k \in 2 .. Len(c)
    BY <1>1
  <2>3. g[k] = g[k - 1] * (Period - 1) + md[k] * Period ^ (k - Period - 1)
    BY <1>1, <1>3, <2>2, SmoothedStep
  <2> QED
    BY <1>6, <2>1, <2>2, <2>3
<1>7. p \in Nat /\ p <= Len(c)
  OBVIOUS
<1> HIDE DEF p
<1> DEFINE Good == {m \in 0 .. Len(c) - p : f[p + m] = g[p + m]}
<1>8. 0 \in Good
  <2>1. p + 0 = p
    BY <1>7
  <2> QED
    BY <1>1, <1>5, <1>7, <2>1
<1>9. ASSUME NEW m \in 1 .. Len(c) - p, m - 1 \in Good
      PROVE  m \in Good
  <2>1. p + m \in p + 1 .. Len(c) /\ p + (m - 1) = (p + m) - 1
    BY <1>1, <1>7
  <2>2. f[p + m] = g[p + m]
    BY <1>6, <1>9, <2>1
  <2>3. m \in 0 .. Len(c) - p
    BY <1>1, <1>7
  <2> QED
    BY <2>2, <2>3
<1>10. \A m \in 0 .. Len(c) - p : m \in Good
  <2> HIDE DEF Good
  <2>1. Len(c) - p \in Nat
    BY <1>1, <1>7
  <2> QED
    BY <1>8, <1>9, <2>1, LoopKeeps
<1>11. ASSUME NEW i \in p .. Len(c)
       PROVE  f[i] = g[i]
  <2>1. i - p \in 0 .. Len(c) - p /\ p + (i - p) = i
    BY <1>1, <1>7
  <2> QED
    BY <1>10, <2>1
<1> QED
  BY <1>2, <1>3, <1>11 DEF p

\* The signals of d up to the last day of c are those of c.
Causal(sd, sc, n) ==
  /\ sc.enters = sd.enters \cap (1 .. n)
  /\ sc.exits = sd.exits \cap (1 .. n)

LEMMA Parameters ==
  ASSUME T!BacktestAssumption
  PROVE  /\ Fast \in Nat \ {0} /\ Slow \in Nat \ {0} /\ Signal \in Nat \ {0}
         /\ Period \in Nat \ {0} /\ Enough \in Nat \ {0} /\ MaxBars \in Nat \ {0}
         /\ Closes \subseteq Nat \ {0}
BY DEF T!BacktestAssumption

LEMMA SameSma ==
  ASSUME NEW S, NEW c \in Seq(S), NEW d \in Seq(S), Extends(d, c), NEW p \in Nat \ {0},
         NEW i \in 1 .. Len(c)
  PROVE  T!Sma(d, p, i) = T!Sma(c, p, i)
<1>1. CASE i < p
  BY <1>1 DEF T!Sma
<1>2. CASE ~(i < p)
  <2>1. Len(c) \in Nat
    OBVIOUS
  <2>2. PICK a \in Nat \ {0} : a = i - p + 1
    BY <1>2, <2>1
  <2>3. i \in Nat /\ i <= Len(c)
    BY <2>1
  <2>4. SubSeq(d, a, i) = SubSeq(c, a, i)
    <3>1. PICK j \in Nat : j = i
      BY <2>3
    <3>2. j <= Len(c)
      BY <2>3, <3>1
    <3>3. SubSeq(d, a, j) = SubSeq(c, a, j)
      BY <3>2, SameWindow
    <3> QED
      BY <3>1, <3>3
  <2> QED
    BY <2>2, <2>4 DEF T!Sma, T!Window
<1> QED
  BY <1>1, <1>2

LEMMA GoldenCausal ==
  ASSUME T!BacktestAssumption, NEW S, NEW c \in Seq(S), NEW d \in Seq(S), Extends(d, c)
  PROVE  Causal(T!GoldenCross(d), T!GoldenCross(c), Len(c))
<1>1. /\ Len(c) \in Nat /\ Len(d) \in Nat /\ Len(c) <= Len(d)
      /\ Fast \in Nat \ {0} /\ Slow \in Nat \ {0}
  BY Parameters DEF Extends
<1>2. ASSUME NEW i \in 1 .. Len(c)
      PROVE  /\ T!FastAbove(d, i) <=> T!FastAbove(c, i)
             /\ T!FastBelow(d, i) <=> T!FastBelow(c, i)
  <2>1. T!Sma(d, Fast, i) = T!Sma(c, Fast, i) /\ T!Sma(d, Slow, i) = T!Sma(c, Slow, i)
    BY <1>1, SameSma
  <2> QED
    BY <2>1 DEF T!FastAbove, T!FastBelow
<1>3. \A i \in Slow + 1 .. Len(d) : i \in 1 .. Len(c) => i - 1 \in 1 .. Len(c)
  BY <1>1
<1>4. \A i : i \in Slow + 1 .. Len(c) <=> i \in Slow + 1 .. Len(d) /\ i \in 1 .. Len(c)
  BY <1>1
<1> DEFINE A(e, i) == ~T!FastAbove(e, i - 1) /\ T!FastAbove(e, i)
           Z(e, i) == ~T!FastBelow(e, i - 1) /\ T!FastBelow(e, i)
<1>5. \A i \in Slow + 1 .. Len(d) : i \in 1 .. Len(c) => (A(d, i) <=> A(c, i)) /\ (Z(d, i) <=> Z(c, i))
  BY <1>2, <1>3
<1> DEFINE Of(e) == [enters |-> {i \in {j \in Slow + 1 .. Len(e) : j >= Fast} : A(e, i)},
                     exits |-> {i \in {j \in Slow + 1 .. Len(e) : j >= Fast} : Z(e, i)}]
<1>6. T!GoldenCross(c) = Of(c) /\ T!GoldenCross(d) = Of(d)
  BY DEF T!GoldenCross
<1> HIDE DEF A, Z
<1>7. Causal(Of(d), Of(c), Len(c))
  BY <1>4, <1>5 DEF Causal
<1> QED
  BY <1>6, <1>7

LEMMA RsiCausal ==
  ASSUME T!BacktestAssumption, NEW S, NEW c \in Seq(S), NEW d \in Seq(S), Extends(d, c)
  PROVE  Causal(T!RsiReversal(d), T!RsiReversal(c), Len(c))
<1>1. Len(c) \in Nat /\ Len(d) \in Nat /\ Len(c) <= Len(d) /\ Period \in Nat \ {0}
  BY Parameters DEF Extends
<1> DEFINE gc == T!Smoothed(c, [i \in 2 .. Len(c) |-> T!Gain(c, i)])
           gd == T!Smoothed(d, [i \in 2 .. Len(d) |-> T!Gain(d, i)])
           lc == T!Smoothed(c, [i \in 2 .. Len(c) |-> T!Loss(c, i)])
           ld == T!Smoothed(d, [i \in 2 .. Len(d) |-> T!Loss(d, i)])
<1>2. ASSUME NEW i \in 2 .. Len(c)
      PROVE  i \in 2 .. Len(d) /\ T!Gain(d, i) = T!Gain(c, i) /\ T!Loss(d, i) = T!Loss(c, i)
  <2>1. i \in 1 .. Len(c) /\ i - 1 \in 1 .. Len(c) /\ i \in 2 .. Len(d)
    BY <1>1
  <2>2. d[i] = c[i] /\ d[i - 1] = c[i - 1]
    BY <2>1 DEF Extends
  <2> QED
    BY <2>1, <2>2 DEF T!Gain, T!Loss
<1>5. \A i \in Period + 1 .. Len(c) : gd[i] = gc[i]
  <2>1. PICK mc : mc = [i \in 2 .. Len(c) |-> T!Gain(c, i)]
    OBVIOUS
  <2>2. PICK md : md = [i \in 2 .. Len(d) |-> T!Gain(d, i)]
    OBVIOUS
  <2>3. \A i \in 2 .. Len(c) : md[i] = mc[i]
    BY <1>2, <2>1, <2>2
  <2>4. \A i \in Period + 1 .. Len(c) : T!Smoothed(d, md)[i] = T!Smoothed(c, mc)[i]
    BY <1>1, <2>3, SameSmoothed
  <2> QED
    BY <2>1, <2>2, <2>4
<1>6. \A i \in Period + 1 .. Len(c) : ld[i] = lc[i]
  <2>1. PICK mc : mc = [i \in 2 .. Len(c) |-> T!Loss(c, i)]
    OBVIOUS
  <2>2. PICK md : md = [i \in 2 .. Len(d) |-> T!Loss(d, i)]
    OBVIOUS
  <2>3. \A i \in 2 .. Len(c) : md[i] = mc[i]
    BY <1>2, <2>1, <2>2
  <2>4. \A i \in Period + 1 .. Len(c) : T!Smoothed(d, md)[i] = T!Smoothed(c, mc)[i]
    BY <1>1, <2>3, SameSmoothed
  <2> QED
    BY <2>1, <2>2, <2>4
<1> DEFINE A(g, l, i) == /\ T!RsiAtMost(g[i - 1], l[i - 1], Oversold)
                         /\ ~T!RsiAtMost(g[i], l[i], Oversold)
           Z(g, l, i) == T!RsiAtLeast(g[i], l[i], Overbought)
           Of(n, g, l) == [enters |-> {i \in Period + 2 .. n : A(g, l, i)},
                           exits |-> {i \in Period + 2 .. n : Z(g, l, i)}]
<1>7. T!RsiReversal(c) = Of(Len(c), gc, lc)
  BY DEF T!RsiReversal
<1>8. T!RsiReversal(d) = Of(Len(d), gd, ld)
  BY DEF T!RsiReversal
<1> HIDE DEF gc, gd, lc, ld
<1>9. \A i \in Period + 2 .. Len(d) : i \in 1 .. Len(c) =>
        i - 1 \in Period + 1 .. Len(c) /\ i \in Period + 1 .. Len(c)
  BY <1>1
<1>10. \A i \in Period + 2 .. Len(d) : i \in 1 .. Len(c) =>
         (A(gd, ld, i) <=> A(gc, lc, i)) /\ (Z(gd, ld, i) <=> Z(gc, lc, i))
  BY <1>5, <1>6, <1>9
<1>11. \A i : i \in Period + 2 .. Len(c) <=> i \in Period + 2 .. Len(d) /\ i \in 1 .. Len(c)
  BY <1>1
<1> HIDE DEF A, Z
<1>12. Causal(Of(Len(d), gd, ld), Of(Len(c), gc, lc), Len(c))
  BY <1>10, <1>11 DEF Causal
<1> QED
  BY <1>7, <1>8, <1>12

LEMMA BounceCausal ==
  ASSUME T!BacktestAssumption, NEW S, NEW c \in Seq(S), NEW d \in Seq(S), Extends(d, c)
  PROVE  Causal(T!BbBounce(d), T!BbBounce(c), Len(c))
<1>1. Len(c) \in Nat /\ Len(d) \in Nat /\ Len(c) <= Len(d) /\ Period \in Nat \ {0}
  BY Parameters DEF Extends
<1>2. ASSUME NEW i \in Period + 1 .. Len(c)
      PROVE  T!Bands(d, i) = T!Bands(c, i) /\ d[i] = c[i]
  <2>1. PICK a \in Nat \ {0} : a = i - Period + 1
    BY <1>1
  <2>2. i \in Nat /\ i <= Len(c) /\ i \in 1 .. Len(c)
    BY <1>1
  <2>3. SubSeq(d, a, i) = SubSeq(c, a, i)
    <3>1. PICK j \in Nat : j = i
      BY <2>2
    <3>2. j <= Len(c)
      BY <2>2, <3>1
    <3>3. SubSeq(d, a, j) = SubSeq(c, a, j)
      BY <3>2, SameWindow
    <3> QED
      BY <3>1, <3>3
  <2> QED
    BY <2>1, <2>2, <2>3 DEF T!Bands, T!Window, Extends
<1> DEFINE A(e, i) == T!AtLower(T!Bands(e, i), e[i])
           Z(e, i) == T!AtUpper(T!Bands(e, i), e[i])
           Of(e) == [enters |-> {i \in Period + 1 .. Len(e) : A(e, i)},
                     exits |-> {i \in Period + 1 .. Len(e) : Z(e, i)}]
<1>3. T!BbBounce(c) = Of(c) /\ T!BbBounce(d) = Of(d)
  BY DEF T!BbBounce
<1>4. \A i : i \in Period + 1 .. Len(c) <=> i \in Period + 1 .. Len(d) /\ i \in 1 .. Len(c)
  BY <1>1
<1>5. \A i \in Period + 1 .. Len(c) : (A(d, i) <=> A(c, i)) /\ (Z(d, i) <=> Z(c, i))
  BY <1>2
<1> HIDE DEF A, Z
<1>6. Causal(Of(d), Of(c), Len(c))
  BY <1>4, <1>5 DEF Causal
<1> QED
  BY <1>3, <1>6

LEMMA MacdCausal ==
  ASSUME T!BacktestAssumption, NEW S, NEW c \in Seq(S), NEW d \in Seq(S), Extends(d, c)
  PROVE  Causal(T!MacdCrossover(d), T!MacdCrossover(c), Len(c))
<1>1. /\ Len(c) \in Nat /\ Len(d) \in Nat /\ Len(c) <= Len(d)
      /\ Fast \in Nat \ {0} /\ Slow \in Nat \ {0} /\ Signal \in Nat \ {0}
  BY Parameters DEF Extends
<1>2. PICK mc : mc = T!Macd(c)
  OBVIOUS
<1>3. PICK md : md = T!Macd(d)
  OBVIOUS
<1>4. ASSUME NEW i \in 1 .. Len(c)
      PROVE  md[i] = mc[i]
  <2>1. i \in DOMAIN c /\ i \in DOMAIN d
    BY <1>1
  <2>2. CASE i < Fast \/ i < Slow
    BY <1>2, <1>3, <2>1, <2>2 DEF T!Macd
  <2>3. CASE ~(i < Fast \/ i < Slow)
    <3>1. i \in Fast .. Len(c) /\ i \in Slow .. Len(c)
      BY <1>1, <2>3
    <3>2. T!Ema(d, Fast)[i] = T!Ema(c, Fast)[i]
      BY <1>1, <3>1, SameEma
    <3>3. T!Ema(d, Slow)[i] = T!Ema(c, Slow)[i]
      BY <1>1, <3>1, SameEma
    <3>4. mc[i] = T!Unit(Slow) * T!Ema(c, Fast)[i] - T!Unit(Fast) * T!Ema(c, Slow)[i]
      BY <1>2, <2>1, <2>3 DEF T!Macd
    <3>5. md[i] = T!Unit(Slow) * T!Ema(d, Fast)[i] - T!Unit(Fast) * T!Ema(d, Slow)[i]
      BY <1>3, <2>1, <2>3 DEF T!Macd
    <3> QED
      BY <3>2, <3>3, <3>4, <3>5
  <2> QED
    BY <2>2, <2>3
<1> DEFINE V == {mc[i] : i \in 1 .. Len(c)} \cup {md[i] : i \in 1 .. Len(d)}
<1>5. /\ mc = [i \in 1 .. Len(c) |-> mc[i]] /\ md = [i \in 1 .. Len(d) |-> md[i]]
  BY <1>1, <1>2, <1>3 DEF T!Macd
<1>6. /\ mc \in Seq(V) /\ md \in Seq(V)
      /\ Len(mc) = Len(c) /\ Len(md) = Len(d)
  <2>1. \A i \in 1 .. Len(c) : mc[i] \in V
    OBVIOUS
  <2>2. \A i \in 1 .. Len(d) : md[i] \in V
    OBVIOUS
  <2> HIDE DEF V
  <2>3. mc \in [1 .. Len(c) -> V] /\ md \in [1 .. Len(d) -> V]
    BY <1>5, <2>1, <2>2
  <2>4. PICK n \in Nat : n = Len(c)
    BY <1>1
  <2>5. PICK m \in Nat : m = Len(d)
    BY <1>1
  <2>6. mc \in [1 .. n -> V] /\ md \in [1 .. m -> V]
    BY <2>3, <2>4, <2>5
  <2>7. mc \in Seq(V) /\ Len(mc) = n
    BY <2>6, SeqDef, LenProperties
  <2>8. md \in Seq(V) /\ Len(md) = m
    BY <2>6, SeqDef, LenProperties
  <2> QED
    BY <2>4, <2>5, <2>7, <2>8
<1> HIDE DEF V
<1>7. Extends(md, mc)
  BY <1>1, <1>4, <1>6 DEF Extends
<1>8. PICK sc : sc = T!Ema(mc, Signal)
  OBVIOUS
<1>9. PICK sd : sd = T!Ema(md, Signal)
  OBVIOUS
<1>10. \A i \in Signal .. Len(c) : sd[i] = sc[i]
  BY <1>1, <1>6, <1>7, <1>8, <1>9, SameEma
<1> DEFINE ahead(m, s, i) == T!Unit(Signal) * m[i] - s[i]
           A(m, s, i) == ahead(m, s, i - 1) <= 0 /\ ahead(m, s, i) > 0
           Z(m, s, i) == ahead(m, s, i - 1) >= 0 /\ ahead(m, s, i) < 0
           Days(n) == {i \in Slow + Signal + 1 .. n : i > Fast}
           Of(n, m, s) == [enters |-> {i \in Days(n) : A(m, s, i)},
                           exits |-> {i \in Days(n) : Z(m, s, i)}]
<1>11. T!MacdCrossover(c) = Of(Len(c), mc, sc)
  BY <1>2, <1>8 DEF T!MacdCrossover
<1>12. T!MacdCrossover(d) = Of(Len(d), md, sd)
  BY <1>3, <1>9 DEF T!MacdCrossover
<1>13. \A i \in Slow + Signal + 1 .. Len(c) :
         /\ i \in 1 .. Len(c) /\ i - 1 \in 1 .. Len(c)
         /\ i \in Signal .. Len(c) /\ i - 1 \in Signal .. Len(c)
  BY <1>1
<1>14. ASSUME NEW i \in Slow + Signal + 1 .. Len(c)
       PROVE  (A(md, sd, i) <=> A(mc, sc, i)) /\ (Z(md, sd, i) <=> Z(mc, sc, i))
  <2>1. md[i] = mc[i] /\ md[i - 1] = mc[i - 1] /\ sd[i] = sc[i] /\ sd[i - 1] = sc[i - 1]
    BY <1>4, <1>10, <1>13
  <2>2. ahead(md, sd, i) = ahead(mc, sc, i) /\ ahead(md, sd, i - 1) = ahead(mc, sc, i - 1)
    BY <2>1
  <2> HIDE DEF ahead
  <2> QED
    BY <2>2
<1>15. \A i : i \in Slow + Signal + 1 .. Len(c) <=> i \in Slow + Signal + 1 .. Len(d) /\ i \in 1 .. Len(c)
  BY <1>1
<1> HIDE DEF A, Z
<1>16. Causal(Of(Len(d), md, sd), Of(Len(c), mc, sc), Len(c))
  BY <1>14, <1>15 DEF Causal
<1> QED
  BY <1>11, <1>12, <1>16

\* No signal depends on a later day.
LEMMA SignalsCausal ==
  ASSUME T!BacktestAssumption, NEW S, NEW c \in Seq(S), NEW d \in Seq(S), Extends(d, c),
         NEW st \in T!Strategy
  PROVE  Causal(T!Signals(st, d), T!Signals(st, c), Len(c))
<1>1. CASE st = "golden_cross"
  BY <1>1, GoldenCausal DEF T!Signals
<1>2. CASE st = "rsi_reversal"
  BY <1>2, RsiCausal DEF T!Signals
<1>3. CASE st = "macd_crossover"
  BY <1>3, MacdCausal DEF T!Signals
<1>4. CASE st = "bb_bounce"
  BY <1>4, BounceCausal DEF T!Signals
<1> QED
  BY <1>1, <1>2, <1>3, <1>4 DEF T!Strategy

-----------------------------------------------------------------------------
(* Trades.                                                                 *)

\* Trades of the first k days, and what a walk through them leaves.
TradeOf(k) == {t \in [entry : 1 .. k, exit : 1 .. k] : t.entry <= t.exit}
WalkOf(k) == [settled : Seq(TradeOf(k)), entry : 0 .. k]

LEMMA OneDayTyped ==
  ASSUME NEW k \in Nat \ {0}, NEW w \in WalkOf(k - 1), NEW E, NEW X
  PROVE  T!OneDay(w, k, E, X) \in WalkOf(k)
<1>1. /\ k \in 1 .. k /\ 0 .. k - 1 \subseteq 0 .. k /\ 1 .. k - 1 \subseteq 1 .. k
  OBVIOUS
<1>2. TradeOf(k - 1) \subseteq TradeOf(k)
  BY <1>1 DEF TradeOf
<1>3. w.settled \in Seq(TradeOf(k)) /\ w.entry \in 0 .. k /\ w.entry \in 0 .. k - 1
  <2>1. w.settled \in Seq(TradeOf(k - 1)) /\ w.entry \in 0 .. k - 1
    BY DEF WalkOf
  <2> QED
    BY <1>1, <1>2, <2>1, SeqMonotonic
<1>4. w = [settled |-> w.settled, entry |-> w.entry]
  BY DEF WalkOf
<1>5. CASE w.entry = 0 /\ k \in E
  <2>1. T!OneDay(w, k, E, X) = [settled |-> w.settled, entry |-> k]
    BY <1>4, <1>5 DEF T!OneDay
  <2> QED
    BY <1>1, <1>3, <2>1 DEF WalkOf
<1>6. CASE ~(w.entry = 0 /\ k \in E) /\ w.entry # 0 /\ k \in X
  <2>1. T!OneDay(w, k, E, X) = [settled |-> Append(w.settled, [entry |-> w.entry, exit |-> k]),
                               entry |-> 0]
    BY <1>6 DEF T!OneDay
  <2>2. [entry |-> w.entry, exit |-> k] \in TradeOf(k)
    BY <1>1, <1>3, <1>6 DEF TradeOf
  <2>3. Append(w.settled, [entry |-> w.entry, exit |-> k]) \in Seq(TradeOf(k))
    BY <1>3, <2>2
  <2> QED
    BY <2>1, <2>3 DEF WalkOf
<1>7. CASE ~(w.entry = 0 /\ k \in E) /\ ~(w.entry # 0 /\ k \in X)
  <2>1. T!OneDay(w, k, E, X) = w
    BY <1>7 DEF T!OneDay
  <2> QED
    BY <1>3, <1>4, <2>1 DEF WalkOf
<1> QED
  BY <1>5, <1>6, <1>7

LEMMA WalkTyped ==
  ASSUME NEW c, Len(c) \in Nat, NEW E, NEW X
  PROVE  T!Walk(c, E, X) \in WalkOf(Len(c))
<1>1. PICK n \in Nat : n = Len(c)
  OBVIOUS
<1>2. PICK f : f = T!Walks(c, E, X)
  OBVIOUS
<1>3. f[0] = T!Idle /\ \A k \in 1 .. n : f[k] = T!OneDay(f[k - 1], k, E, X)
  BY <1>1, <1>2, WalksStep
<1> DEFINE Good == {k \in 0 .. n : f[k] \in WalkOf(k)}
<1>4. 0 \in Good
  <2>1. <<>> \in Seq(TradeOf(0)) /\ 0 \in 0 .. 0
    OBVIOUS
  <2>2. f[0] = [settled |-> <<>>, entry |-> 0]
    BY <1>3 DEF T!Idle
  <2>3. [settled |-> <<>>, entry |-> 0] \in WalkOf(0)
    BY <2>1 DEF WalkOf
  <2>4. 0 \in 0 .. n
    OBVIOUS
  <2> QED
    BY <2>2, <2>3, <2>4
<1>5. ASSUME NEW k \in 1 .. n, k - 1 \in Good
      PROVE  k \in Good
  <2>1. k \in Nat \ {0} /\ k \in 0 .. n /\ f[k - 1] \in WalkOf(k - 1)
    BY <1>5
  <2>2. T!OneDay(f[k - 1], k, E, X) \in WalkOf(k)
    BY <2>1, OneDayTyped
  <2> QED
    BY <1>3, <2>1, <2>2
<1>6. n \in Good
  <2> HIDE DEF Good
  <2>1. \A k \in 0 .. n : k \in Good
    BY <1>4, <1>5, LoopKeeps
  <2> QED
    BY <2>1
<1> QED
  BY <1>1, <1>2, <1>6 DEF T!Walk

\* Another day is one more round of the loop.
LEMMA LongerWalk ==
  ASSUME NEW c, NEW d, Extends(d, c), Len(d) = Len(c) + 1,
         NEW sc, NEW sd, Causal(sd, sc, Len(c))
  PROVE  T!Walk(d, sd.enters, sd.exits)
           = T!OneDay(T!Walk(c, sc.enters, sc.exits), Len(d), sd.enters, sd.exits)
<1>1. PICK n \in Nat : n = Len(c)
  BY DEF Extends
<1>2. PICK f : f = T!Walks(c, sc.enters, sc.exits)
  OBVIOUS
<1>3. PICK g : g = T!Walks(d, sd.enters, sd.exits)
  OBVIOUS
<1>4. f[0] = T!Idle /\ \A k \in 1 .. n : f[k] = T!OneDay(f[k - 1], k, sc.enters, sc.exits)
  BY <1>1, <1>2, WalksStep
<1>5. g[0] = T!Idle /\ \A k \in 1 .. n + 1 : g[k] = T!OneDay(g[k - 1], k, sd.enters, sd.exits)
  BY <1>1, <1>3, WalksStep
<1>6. ASSUME NEW k \in 1 .. n, NEW w
      PROVE  T!OneDay(w, k, sd.enters, sd.exits) = T!OneDay(w, k, sc.enters, sc.exits)
  <2>1. (k \in sd.enters <=> k \in sc.enters) /\ (k \in sd.exits <=> k \in sc.exits)
    BY <1>1 DEF Causal
  <2> QED
    BY <2>1 DEF T!OneDay
<1> DEFINE Good == {k \in 0 .. n : g[k] = f[k]}
<1>7. 0 \in Good
  BY <1>4, <1>5
<1>8. ASSUME NEW k \in 1 .. n, k - 1 \in Good
      PROVE  k \in Good
  <2>1. k \in 1 .. n + 1 /\ k \in 0 .. n /\ g[k - 1] = f[k - 1]
    BY <1>8
  <2> QED
    BY <1>4, <1>5, <1>6, <2>1
<1>9. n \in Good
  <2> HIDE DEF Good
  <2>1. \A k \in 0 .. n : k \in Good
    BY <1>7, <1>8, LoopKeeps
  <2> QED
    BY <2>1
<1>10. n + 1 \in 1 .. n + 1 /\ (n + 1) - 1 = n
  OBVIOUS
<1>11. g[n + 1] = T!OneDay(f[n], n + 1, sd.enters, sd.exits)
  BY <1>5, <1>9, <1>10
<1> QED
  BY <1>1, <1>2, <1>3, <1>11 DEF T!Walk

\* A series of closes.
SeriesOK == series \in Seq(Closes) /\ Len(series) <= MaxBars

LEMMA SeriesTyped == ASSUME T!BacktestAssumption PROVE T!Spec => []SeriesOK
<1>1. T!Init => SeriesOK
  <2>1. Len(<<>>) = 0 /\ MaxBars \in Nat
    BY Parameters
  <2> QED
    BY <2>1 DEF T!Init, SeriesOK
<1>2. SeriesOK /\ [T!Next]_series => SeriesOK'
  <2> SUFFICES ASSUME SeriesOK, [T!Next]_series
               PROVE  SeriesOK'
    OBVIOUS
  <2>1. CASE T!Next
    <3>1. PICK x \in Closes : series' = Append(series, x) /\ Len(series) < MaxBars
      BY <2>1 DEF T!Next, T!NextDay
    <3>2. series' \in Seq(Closes) /\ Len(series') = Len(series) + 1 /\ Len(series) \in Nat
      BY <3>1 DEF SeriesOK
    <3> QED
      BY <3>1, <3>2, Parameters DEF SeriesOK
  <2>2. CASE UNCHANGED series
    BY <2>2 DEF SeriesOK
  <2> QED
    BY <2>1, <2>2
<1> QED
  BY <1>1, <1>2, PTL DEF T!Spec

\* What a strategy has decided is not changed by the days after: for every
\* strategy, all parameters and any series.
THEOREM TradesNeverChange == ASSUME T!BacktestAssumption PROVE T!Spec => T!NoHindsight
<1> DEFINE Kept(before, after, n) ==
             \/ /\ after.settled = before.settled
                /\ before.entry # 0 => after.entry = before.entry
             \/ /\ before.entry # 0
                /\ after = [settled |-> Append(before.settled, [entry |-> before.entry, exit |-> n]),
                            entry |-> 0]
           Step == \A st \in T!Strategy : Len(series) >= Enough =>
                     Kept(T!Simulated(st, series), T!Simulated(st, series'), Len(series'))
<1>1. SeriesOK /\ [T!Next]_series => [Step]_series
  <2> SUFFICES ASSUME SeriesOK, T!Next, NEW st \in T!Strategy, Len(series) >= Enough
               PROVE  Kept(T!Simulated(st, series), T!Simulated(st, series'), Len(series'))
    OBVIOUS
  <2>1. PICK x \in Closes : series' = Append(series, x)
    BY DEF T!Next, T!NextDay
  <2>2. PICK c \in Seq(Closes) : c = series
    BY DEF SeriesOK
  <2>3. PICK d \in Seq(Closes) : d = Append(c, x) /\ d = series'
    BY <2>1, <2>2
  <2>4. Len(c) \in Nat /\ Len(d) = Len(c) + 1 /\ \A i \in 1 .. Len(c) : d[i] = c[i]
    <3>1. Len(c) \in Nat
      BY LenProperties
    <3>2. Len(Append(c, x)) = Len(c) + 1
      BY AppendProperties
    <3>3. \A i \in 1 .. Len(c) : Append(c, x)[i] = c[i]
      BY AppendProperties
    <3> QED
      BY <2>3, <3>1, <3>2, <3>3, Zenon
  <2>5. Extends(d, c)
    BY <2>4 DEF Extends
  <2>6. ~(Len(c) < Enough) /\ ~(Len(d) < Enough)
    BY <2>2, <2>4, Parameters
  <2>7. PICK sc : sc = T!Signals(st, c)
    OBVIOUS
  <2>8. PICK sd : sd = T!Signals(st, d)
    OBVIOUS
  <2>9. Causal(sd, sc, Len(c))
    BY <2>5, <2>7, <2>8, SignalsCausal
  <2>10. PICK w : w = T!Walk(c, sc.enters, sc.exits)
    OBVIOUS
  <2>11. T!Simulated(st, c) = w
    BY <2>6, <2>7, <2>10 DEF T!Simulated
  <2>12. T!Simulated(st, d) = T!OneDay(w, Len(d), sd.enters, sd.exits)
    BY <2>4, <2>5, <2>6, <2>8, <2>9, <2>10, LongerWalk DEF T!Simulated
  <2>13. w = [settled |-> w.settled, entry |-> w.entry]
    BY <2>4, <2>10, WalkTyped DEF WalkOf
  <2>14. Kept(w, T!OneDay(w, Len(d), sd.enters, sd.exits), Len(d))
    BY <2>13 DEF T!OneDay
  <2> HIDE DEF Kept
  <2> QED
    BY <2>2, <2>3, <2>11, <2>12, <2>14
<1>2. T!NoHindsight <=> [][Step]_series
  BY DEF T!NoHindsight
<1> QED
  BY <1>1, <1>2, SeriesTyped, PTL DEF T!Spec

LEMMA SimulatedTyped ==
  ASSUME NEW c, Len(c) \in Nat, NEW st \in T!Strategy
  PROVE  T!Simulated(st, c) \in WalkOf(Len(c))
<1>1. CASE Len(c) < Enough
  <2>1. <<>> \in Seq(TradeOf(Len(c))) /\ 0 \in 0 .. Len(c)
    OBVIOUS
  <2>2. [settled |-> <<>>, entry |-> 0] \in WalkOf(Len(c))
    BY <2>1 DEF WalkOf
  <2> QED
    BY <1>1, <2>2 DEF T!Simulated, T!Idle
<1>2. CASE ~(Len(c) < Enough)
  <2>1. PICK s : s = T!Signals(st, c)
    OBVIOUS
  <2>2. T!Simulated(st, c) = T!Walk(c, s.enters, s.exits)
    BY <1>2, <2>1 DEF T!Simulated
  <2> QED
    BY <2>2, WalkTyped
<1> QED
  BY <1>1, <1>2

LEMMA TradesTyped ==
  ASSUME NEW c, Len(c) \in Nat, NEW w \in WalkOf(Len(c))
  PROVE  T!Trades(c, w) \in Seq(TradeOf(Len(c)))
<1>1. w.settled \in Seq(TradeOf(Len(c))) /\ w.entry \in 0 .. Len(c)
  BY DEF WalkOf
<1>2. CASE w.entry = 0
  BY <1>1, <1>2 DEF T!Trades
<1>3. CASE w.entry # 0
  <2>1. w.entry \in 1 .. Len(c) /\ Len(c) \in 1 .. Len(c) /\ w.entry <= Len(c)
    BY <1>1, <1>3
  <2>2. [entry |-> w.entry, exit |-> Len(c)] \in TradeOf(Len(c))
    BY <2>1 DEF TradeOf
  <2>3. Append(w.settled, [entry |-> w.entry, exit |-> Len(c)]) \in Seq(TradeOf(Len(c)))
    BY <1>1, <2>2
  <2> QED
    BY <1>3, <2>3 DEF T!Trades
<1> QED
  BY <1>2, <1>3

-----------------------------------------------------------------------------
(* The numbers of a report.                                                *)

Pos == Nat \ {0}
PairOf == [entry : Pos, exit : Pos]

LEMMA Scales ==
  ASSUME NEW a \in Nat, NEW b \in Nat, NEW k \in Nat \ {0}
  PROVE  a < b <=> a * k < b * k
<1>1. CASE a < b
  <2>1. PICK c \in Nat \ {0} : b = a + c
    <3>1. b - a \in Nat \ {0} /\ b = a + (b - a)
      BY <1>1
    <3> QED
      BY <3>1
  <2>2. b * k = a * k + c * k
    BY <2>1
  <2>3. c * k > 0 /\ a * k \in Nat /\ c * k \in Nat
    OBVIOUS
  <2> QED
    BY <1>1, <2>2, <2>3
<1>2. CASE ~(a < b)
  <2>1. PICK c \in Nat : a = b + c
    <3>1. a - b \in Nat /\ a = b + (a - b)
      BY <1>2
    <3> QED
      BY <3>1
  <2>2. a * k = b * k + c * k
    BY <2>1
  <2>3. c * k \in Nat /\ b * k \in Nat
    OBVIOUS
  <2> QED
    BY <1>2, <2>2, <2>3
<1> QED
  BY <1>1, <1>2

\* A sum of losses is a loss when and only when one of them is.
LEMMA LossesAdd ==
  ASSUME NEW s, Len(s) \in Nat, \A i \in 1 .. Len(s) : s[i] \in Int /\ s[i] <= 0
  PROVE  T!Sum(s) \in Int /\ (T!Sum(s) < 0 <=> \E i \in 1 .. Len(s) : s[i] < 0)
<1>1. PICK n \in Nat : n = Len(s)
  OBVIOUS
<1>2. PICK f : f = T!Sums(s)
  OBVIOUS
<1>3. f[0] = 0 /\ \A k \in 1 .. n : f[k] = f[k - 1] + s[k]
  BY <1>1, <1>2, SumsStep
<1> DEFINE Good == {k \in 0 .. n : /\ f[k] \in Int /\ f[k] <= 0
                                   /\ f[k] < 0 <=> \E i \in 1 .. k : s[i] < 0}
<1>4. 0 \in Good
  <2>1. 1 .. 0 = {} /\ 0 \in 0 .. n
    OBVIOUS
  <2> QED
    BY <1>3, <2>1
<1>5. ASSUME NEW k \in 1 .. n, k - 1 \in Good
      PROVE  k \in Good
  <2>1. PICK m \in 0 .. n : m = k - 1 /\ m \in Good
    BY <1>5
  <2>2. PICK a \in Int : a = f[m] /\ a <= 0 /\ (a < 0 <=> \E i \in 1 .. m : s[i] < 0)
    BY <2>1
  <2>3. PICK b \in Int : b = s[k] /\ b <= 0
    BY <1>1
  <2>4. f[k] = a + b
    BY <1>3, <2>1, <2>2, <2>3
  <2>5. \A i : i \in 1 .. k <=> i \in 1 .. m \/ i = k
    BY <2>1
  <2>6. (\E i \in 1 .. k : s[i] < 0) <=> a < 0 \/ b < 0
    BY <2>2, <2>3, <2>5
  <2>7. f[k] \in Int /\ f[k] <= 0 /\ (f[k] < 0 <=> a < 0 \/ b < 0)
    BY <2>2, <2>3, <2>4
  <2>8. k \in 0 .. n
    OBVIOUS
  <2> QED
    BY <2>6, <2>7, <2>8
<1>6. n \in Good
  <2> HIDE DEF Good
  <2>1. \A k \in 0 .. n : k \in Good
    BY <1>4, <1>5, LoopKeeps
  <2> QED
    BY <2>1
<1> QED
  BY <1>1, <1>2, <1>6 DEF T!Sum

LEMMA ProductPositive ==
  ASSUME NEW s, Len(s) \in Nat, \A i \in 1 .. Len(s) : s[i] \in Pos
  PROVE  \A k \in 0 .. Len(s) : T!Products(s)[k] \in Pos
<1>1. PICK n \in Nat : n = Len(s)
  OBVIOUS
<1>2. PICK f : f = T!Products(s)
  OBVIOUS
<1>3. f[0] = 1 /\ \A k \in 1 .. n : f[k] = f[k - 1] * s[k]
  BY <1>1, <1>2, ProductsStep
<1> DEFINE Good == {k \in 0 .. n : f[k] \in Pos}
<1>4. 0 \in Good
  BY <1>3 DEF Pos
<1>5. ASSUME NEW k \in 1 .. n, k - 1 \in Good
      PROVE  k \in Good
  <2>1. PICK a \in Nat : a = f[k - 1] /\ a # 0
    BY <1>5 DEF Pos
  <2>2. PICK b \in Nat : b = s[k] /\ b # 0
    BY <1>1 DEF Pos
  <2>3. a * b \in Nat /\ a * b # 0
    BY <2>1, <2>2
  <2>4. f[k] = a * b /\ k \in 0 .. n
    BY <1>3, <2>1, <2>2
  <2> QED
    BY <2>3, <2>4 DEF Pos
<1>6. \A k \in 0 .. n : k \in Good
  <2> HIDE DEF Good
  <2> QED
    BY <1>4, <1>5, LoopKeeps
<1> QED
  BY <1>1, <1>2, <1>6

LEMMA Swap ==
  ASSUME NEW a \in Nat, NEW b \in Nat, NEW c \in Nat
  PROVE  (a * b) * c = (a * c) * b
OBVIOUS

\* Of two products that differ in one factor.
LEMMA OneFactor ==
  ASSUME NEW s, NEW r, Len(s) \in Nat, Len(r) = Len(s),
         \A i \in 1 .. Len(s) : s[i] \in Pos /\ r[i] \in Pos,
         NEW j \in 1 .. Len(s), \A i \in 1 .. Len(s) : i # j => r[i] = s[i]
  PROVE  T!Product(s) * r[j] = T!Product(r) * s[j]
<1>1. PICK n \in Nat : n = Len(s)
  OBVIOUS
<1>2. PICK f : f = T!Products(s)
  OBVIOUS
<1>3. PICK g : g = T!Products(r)
  OBVIOUS
<1>4. f[0] = 1 /\ \A k \in 1 .. n : f[k] = f[k - 1] * s[k]
  BY <1>1, <1>2, ProductsStep
<1>5. g[0] = 1 /\ \A k \in 1 .. n : g[k] = g[k - 1] * r[k]
  BY <1>1, <1>3, ProductsStep
<1>6. \A k \in 0 .. n : f[k] \in Nat
  BY <1>1, <1>2, ProductPositive DEF Pos
<1>7. \A k \in 0 .. n : g[k] \in Nat
  BY <1>1, <1>3, ProductPositive DEF Pos
<1>8. PICK x \in Nat : x = s[j]
  BY DEF Pos
<1>9. PICK y \in Nat : y = r[j]
  BY DEF Pos
<1> DEFINE Good == {k \in 0 .. n : IF k < j THEN f[k] = g[k] ELSE f[k] * y = g[k] * x}
<1>10. 0 \in Good
  BY <1>1, <1>4, <1>5
<1>11. ASSUME NEW k \in 1 .. n, k - 1 \in Good
       PROVE  k \in Good
  <2>1. PICK a \in Nat : a = f[k - 1]
    BY <1>6
  <2>2. PICK b \in Nat : b = g[k - 1]
    BY <1>7
  <2>3. IF k - 1 < j THEN a = b ELSE a * y = b * x
    BY <1>11, <2>1, <2>2
  <2>4. k \in 0 .. n /\ j \in Nat
    BY <1>1
  <2>5. CASE k < j
    <3>1. a = b /\ k # j
      BY <2>3, <2>4, <2>5
    <3>2. f[k] = a * s[k] /\ g[k] = b * r[k] /\ r[k] = s[k]
      BY <1>1, <1>4, <1>5, <2>1, <2>2, <3>1
    <3> QED
      BY <2>4, <2>5, <3>1, <3>2
  <2>6. CASE k = j
    <3>1. a = b
      BY <2>3, <2>4, <2>6
    <3>2. f[k] = a * x /\ g[k] = a * y
      BY <1>4, <1>5, <1>8, <1>9, <2>1, <2>2, <2>6, <3>1
    <3>3. (a * x) * y = (a * y) * x
      BY Swap
    <3> QED
      BY <2>4, <2>6, <3>2, <3>3
  <2>7. CASE k > j
    <3>1. a * y = b * x
      BY <2>3, <2>4, <2>7
    <3>2. PICK v \in Nat : v = s[k] /\ v = r[k]
      BY <1>1, <2>4, <2>7 DEF Pos
    <3>3. f[k] = a * v /\ g[k] = b * v
      BY <1>4, <1>5, <2>1, <2>2, <3>2
    <3>4. (a * v) * y = (a * y) * v /\ (b * v) * x = (b * x) * v
      BY Swap
    <3>5. f[k] * y = g[k] * x /\ ~(k < j)
      BY <2>4, <2>7, <3>1, <3>3, <3>4
    <3> QED
      BY <2>4, <3>5
  <2> QED
    BY <2>4, <2>5, <2>6, <2>7
<1>12. n \in Good
  <2> HIDE DEF Good
  <2>1. \A k \in 0 .. n : k \in Good
    BY <1>10, <1>11, LoopKeeps
  <2> QED
    BY <2>1
<1>13. f[n] * y = g[n] * x
  BY <1>1, <1>12
<1> QED
  BY <1>1, <1>2, <1>3, <1>8, <1>9, <1>13 DEF T!Product

\* A trade multiplies the capital by what it earns.
LEMMA TradeEarns ==
  ASSUME NEW n \in Nat, NEW t \in [1 .. n -> PairOf]
  PROVE  /\ \A k \in 0 .. n : T!Capital(t, k) \in Pos
         /\ \A k \in 1 .. n : /\ T!Capital(t, k) < T!Capital(t, k - 1) <=> t[k].exit < t[k].entry
                              /\ T!Capital(t, k - 1) < T!Capital(t, k) <=> t[k].entry < t[k].exit
<1> DEFINE Row(k) == [i \in 1 .. n |-> IF i <= k THEN t[i].exit ELSE t[i].entry]
<1>1. \A i \in 1 .. n : t[i].entry \in Pos /\ t[i].exit \in Pos
  BY DEF PairOf
<1>2. ASSUME NEW k \in Int
      PROVE  Len(Row(k)) = n /\ \A i \in 1 .. n : Row(k)[i] \in Pos
  BY <1>1
<1>3. \A k \in Int : T!Capital(t, k) = T!Product(Row(k))
  BY DEF T!Capital
<1>4. ASSUME NEW k \in Int
      PROVE  T!Capital(t, k) \in Pos
  <2>1. PICK s : s = Row(k)
    OBVIOUS
  <2>2. Len(s) \in Nat /\ Len(s) = n /\ \A i \in 1 .. Len(s) : s[i] \in Pos
    BY <1>2, <2>1
  <2> HIDE DEF Row
  <2>3. T!Products(s)[n] \in Pos
    BY <2>2, ProductPositive
  <2> QED
    BY <1>3, <2>1, <2>2, <2>3 DEF T!Product
<1>5. ASSUME NEW k \in 1 .. n
      PROVE  T!Capital(t, k) * t[k].entry = T!Capital(t, k - 1) * t[k].exit
  <2>1. PICK s : s = Row(k)
    OBVIOUS
  <2>2. PICK r : r = Row(k - 1)
    OBVIOUS
  <2>3. k \in Int /\ k - 1 \in Int
    OBVIOUS
  <2>4. s[k] = t[k].exit /\ r[k] = t[k].entry
    BY <2>1, <2>2
  <2>5. \A i \in 1 .. n : i # k => r[i] = s[i]
    BY <2>1, <2>2
  <2>6. Len(s) = n /\ Len(r) = n /\ \A i \in 1 .. n : s[i] \in Pos /\ r[i] \in Pos
    BY <1>2, <2>1, <2>2, <2>3
  <2> HIDE DEF Row
  <2>7. T!Product(s) * r[k] = T!Product(r) * s[k]
    BY <2>5, <2>6, OneFactor
  <2> QED
    BY <1>3, <2>1, <2>2, <2>3, <2>4, <2>7
<1>6. ASSUME NEW k \in 1 .. n
      PROVE  /\ T!Capital(t, k) < T!Capital(t, k - 1) <=> t[k].exit < t[k].entry
             /\ T!Capital(t, k - 1) < T!Capital(t, k) <=> t[k].entry < t[k].exit
  <2>1. PICK a \in Nat \ {0} : a = T!Capital(t, k)
    BY <1>4 DEF Pos
  <2>2. PICK b \in Nat \ {0} : b = T!Capital(t, k - 1)
    BY <1>4 DEF Pos
  <2>3. PICK e \in Nat \ {0} : e = t[k].entry
    BY <1>1 DEF Pos
  <2>4. PICK x \in Nat \ {0} : x = t[k].exit
    BY <1>1 DEF Pos
  <2>5. a * e = b * x
    BY <1>5, <2>1, <2>2, <2>3, <2>4
  <2>6. (a < b <=> a * e < b * e) /\ (b < a <=> b * e < a * e)
    BY Scales
  <2>7. (x < e <=> x * b < e * b) /\ (e < x <=> e * b < x * b)
    BY Scales
  <2>8. x * b = b * x /\ e * b = b * e
    OBVIOUS
  <2>9. (a < b <=> x < e) /\ (b < a <=> e < x)
    BY <2>5, <2>6, <2>7, <2>8
  <2> QED
    BY <2>1, <2>2, <2>3, <2>4, <2>9
<1> QED
  BY <1>4, <1>6

\* What the loop over the curve keeps: the peak, the greatest share of one that
\* was lost, and the equity it came to.
Drawn(d, first, eq) ==
  /\ d \in [peak : Pos, drop : Nat, of : Pos]
  /\ d.drop <= d.of /\ first <= d.peak /\ eq <= d.peak
  /\ (d.peak - eq) * d.of <= d.drop * d.peak
  /\ d.drop = 0 => d.peak = eq

LEMMA Deepens ==
  ASSUME NEW d, NEW first \in Pos, NEW was \in Pos, Drawn(d, first, was), NEW eq \in Pos
  PROVE  /\ Drawn(T!Deeper(d, eq), first, eq)
         /\ T!Deeper(d, eq).drop = 0 <=> d.drop = 0 /\ was <= eq
<1>1. PICK p \in Nat \ {0} : p = d.peak
  BY DEF Drawn, Pos
<1>2. PICK b \in Nat : b = d.drop
  BY DEF Drawn
<1>3. PICK o \in Nat \ {0} : o = d.of
  BY DEF Drawn, Pos
<1>4. d = [peak |-> p, drop |-> b, of |-> o]
  BY <1>1, <1>2, <1>3 DEF Drawn
<1>5. PICK q \in Nat \ {0} : q = IF eq > p THEN eq ELSE p
  BY DEF Pos
<1>6. b <= o /\ first <= p /\ was <= p /\ (b = 0 => p = was)
  BY <1>1, <1>2, <1>3 DEF Drawn
<1>7. PICK l \in Nat : l = q - eq
  BY <1>5 DEF Pos
<1>8. p <= q /\ eq <= q /\ first <= q /\ l <= q /\ (l = 0 <=> p <= eq)
  BY <1>5, <1>6, <1>7 DEF Pos
<1>9. q \in Pos /\ o \in Pos /\ l * o \in Nat /\ b * q \in Nat
  BY DEF Pos
<1>10. CASE l * o > b * q
  <2>1. T!Deeper(d, eq) = [peak |-> q, drop |-> l, of |-> q]
    BY <1>4, <1>5, <1>7, <1>10 DEF T!Deeper
  <2>2. l # 0
    <3>1. l = 0 => l * o = 0
      OBVIOUS
    <3> QED
      BY <1>9, <1>10, <3>1
  <2>3. (q - eq) * q <= l * q
    BY <1>7
  <2>4. Drawn([peak |-> q, drop |-> l, of |-> q], first, eq)
    BY <1>8, <1>9, <2>2, <2>3 DEF Drawn
  <2>5. ~(b = 0 /\ was <= eq)
    BY <1>6, <1>8, <2>2
  <2> QED
    BY <1>2, <2>1, <2>2, <2>4, <2>5
<1>11. CASE ~(l * o > b * q)
  <2>1. T!Deeper(d, eq) = [peak |-> q, drop |-> b, of |-> o]
    BY <1>4, <1>5, <1>7, <1>11 DEF T!Deeper
  <2>2. (q - eq) * o <= b * q
    BY <1>7, <1>9, <1>11
  <2>3. b = 0 => l = 0
    <3>1. b = 0 => b * q = 0
      OBVIOUS
    <3>2. l # 0 => l * o > 0
      OBVIOUS
    <3> QED
      BY <1>9, <1>11, <3>1, <3>2
  <2>4. b = 0 => q = eq
    BY <1>7, <2>3 DEF Pos
  <2>5. Drawn([peak |-> q, drop |-> b, of |-> o], first, eq)
    BY <1>6, <1>8, <1>9, <2>2, <2>4 DEF Drawn
  <2>6. b = 0 => was <= eq
    BY <1>6, <1>8, <2>3
  <2> QED
    BY <1>2, <2>1, <2>5, <2>6
<1> QED
  BY <1>10, <1>11, <1>9

\* The drawdown of a curve, and that there is none of one that never falls.
LEMMA CurveDrawn ==
  ASSUME NEW s, Len(s) \in Nat \ {0}, \A i \in 1 .. Len(s) : s[i] \in Pos
  PROVE  /\ Drawn(T!MaxDrawdown(s), s[1], s[Len(s)])
         /\ T!MaxDrawdown(s).drop = 0 <=> \A j \in 2 .. Len(s) : s[j - 1] <= s[j]
<1>1. PICK n \in Nat \ {0} : n = Len(s)
  OBVIOUS
<1>2. PICK f : f = T!Drawdowns(s)
  OBVIOUS
<1>3. /\ f[0] = [peak |-> s[1], drop |-> 0, of |-> 1]
      /\ \A k \in 1 .. n : f[k] = T!Deeper(f[k - 1], s[k])
  BY <1>1, <1>2, DrawdownsStep
<1> DEFINE At1(k) == IF k = 0 THEN 1 ELSE k
           Good == {k \in 0 .. n : /\ Drawn(f[k], s[1], s[At1(k)])
                                   /\ f[k].drop = 0 <=> \A j \in 2 .. k : s[j - 1] <= s[j]}
<1>4. 0 \in Good
  <2>1. PICK p \in Nat \ {0} : p = s[1]
    BY <1>1 DEF Pos
  <2>2. (p - p) * 1 <= 0 * p /\ 0 \in Nat /\ 1 \in Pos /\ p \in Pos
    BY DEF Pos
  <2>3. Drawn([peak |-> p, drop |-> 0, of |-> 1], p, p)
    BY <2>2 DEF Drawn
  <2>4. 2 .. 0 = {} /\ 0 \in 0 .. n
    OBVIOUS
  <2> QED
    BY <1>3, <2>1, <2>3, <2>4
<1>5. ASSUME NEW k \in 1 .. n, k - 1 \in Good
      PROVE  k \in Good
  <2>1. PICK m \in 0 .. n : m = k - 1 /\ m \in Good
    BY <1>5
  <2>2. At1(m) \in 1 .. n /\ 1 \in 1 .. n /\ k \in 0 .. n /\ At1(k) = k
    BY <2>1
  <2>3. s[1] \in Pos /\ s[At1(m)] \in Pos /\ s[k] \in Pos
    BY <1>1, <2>2
  <2>4. /\ Drawn(f[m], s[1], s[At1(m)])
        /\ f[m].drop = 0 <=> \A j \in 2 .. m : s[j - 1] <= s[j]
    BY <2>1
  <2>5. f[k] = T!Deeper(f[m], s[k])
    BY <1>3, <2>1
  <2>6. /\ Drawn(f[k], s[1], s[k])
        /\ f[k].drop = 0 <=> f[m].drop = 0 /\ s[At1(m)] <= s[k]
    BY <2>3, <2>4, <2>5, Deepens
  <2>7. CASE k = 1
    <3>1. m = 0 /\ At1(m) = k /\ 2 .. m = {} /\ 2 .. k = {}
      BY <2>1, <2>7
    <3>2. s[k] <= s[k]
      BY <2>3 DEF Pos
    <3>3. f[k].drop = 0 <=> \A j \in 2 .. k : s[j - 1] <= s[j]
      BY <2>4, <2>6, <3>1, <3>2
    <3> QED
      BY <2>2, <2>6, <3>3
  <2>8. CASE k # 1
    <3>1. /\ m # 0 /\ At1(m) = k - 1 /\ k \in 2 .. k
          /\ \A j : j \in 2 .. k <=> j \in 2 .. m \/ j = k
      BY <2>1, <2>8
    <3>2. f[k].drop = 0 <=> \A j \in 2 .. k : s[j - 1] <= s[j]
      BY <2>4, <2>6, <3>1
    <3> QED
      BY <2>2, <2>6, <3>2
  <2> QED
    BY <2>7, <2>8
<1>6. n \in Good
  <2> HIDE DEF Good
  <2>1. \A k \in 0 .. n : k \in Good
    BY <1>4, <1>5, LoopKeeps
  <2> QED
    BY <2>1
<1>7. At1(n) = n
  OBVIOUS
<1> QED
  BY <1>1, <1>2, <1>6, <1>7 DEF T!MaxDrawdown

\* No more is lost than the drawdown says.
LEMMA DrawdownBounds ==
  ASSUME NEW d, NEW first \in Pos, NEW final \in Pos, Drawn(d, first, final)
  PROVE  final * d.of >= first * (d.of - d.drop)
<1>1. PICK p \in Nat : p = d.peak
  BY DEF Drawn, Pos
<1>2. PICK b \in Nat : b = d.drop
  BY DEF Drawn
<1>3. PICK o \in Nat : o = d.of
  BY DEF Drawn, Pos
<1>4. PICK x \in Nat : x = first
  BY DEF Pos
<1>5. PICK y \in Nat : y = final
  BY DEF Pos
<1>6. (p - y) * o <= b * p /\ b <= o /\ x <= p
  BY <1>1, <1>2, <1>3, <1>4, <1>5 DEF Drawn
<1>7. PICK r \in Nat : r = o - b /\ o = r + b
  <2>1. o - b \in Nat /\ o = (o - b) + b
    BY <1>6
  <2> QED
    BY <2>1
<1>8. PICK z \in Nat : z = p - x /\ p = x + z
  <2>1. p - x \in Nat /\ p = x + (p - x)
    BY <1>6
  <2> QED
    BY <2>1
<1>9. (p - y) * o = p * o - y * o /\ p * o = p * r + p * b /\ b * p = p * b
  BY <1>7
<1>10. p * r = x * r + z * r /\ z * r \in Nat
  BY <1>8
<1>11. x * r \in Nat /\ p * r \in Nat /\ p * o \in Nat /\ y * o \in Nat /\ p * b \in Nat
  OBVIOUS
<1>12. y * o >= x * r
  BY <1>6, <1>9, <1>10, <1>11
<1> QED
  BY <1>2, <1>3, <1>4, <1>5, <1>7, <1>12

AddsUp(r) ==
  /\ r.final * r.of >= r.initial * (r.of - r.drop)
  /\ r.drop > 0 <=> r.gross_loss > 0
  /\ r.trades > 0 /\ r.losing = 0 => r.final > r.initial

LEMMA ReportsAddUp ==
  ASSUME NEW n \in Nat, NEW t \in [1 .. n -> PairOf]
  PROVE  AddsUp(T!Report(t))
<1>1. CASE t = <<>>
  <2>1. T!Report(t) = T!EmptyReport
    BY <1>1 DEF T!Report
  <2>2. AddsUp(T!EmptyReport)
    BY DEF AddsUp, T!EmptyReport
  <2> QED
    BY <2>1, <2>2
<1>2. CASE t # <<>>
  <2>1. Len(t) = n /\ DOMAIN t = 1 .. n
    OBVIOUS
  <2>2. n # 0
    <3>1. n = 0 => t = <<>>
      OBVIOUS
    <3> QED
      BY <1>2, <3>1
  <2>3. PICK curve : curve = T!EquityCurve(t)
    OBVIOUS
  <2>4. PICK m \in Nat \ {0} : m = n + 1
    OBVIOUS
  <2>5. curve = [k \in 1 .. m |-> T!Capital(t, k - 1)]
    BY <2>1, <2>3, <2>4 DEF T!EquityCurve
  <2>6. \A k \in 0 .. n : T!Capital(t, k) \in Pos
    BY TradeEarns
  <2>7. Len(curve) = m /\ \A k \in 1 .. m : curve[k] = T!Capital(t, k - 1) /\ k - 1 \in 0 .. n
    BY <2>4, <2>5
  <2>8. \A k \in 1 .. m : curve[k] \in Pos
    BY <2>6, <2>7
  <2>9. PICK d : d = T!MaxDrawdown(curve)
    OBVIOUS
  <2>10. /\ Drawn(d, curve[1], curve[m])
         /\ d.drop = 0 <=> \A j \in 2 .. m : curve[j - 1] <= curve[j]
    BY <2>7, <2>8, <2>9, CurveDrawn
  <2>11. PICK first \in Pos : first = T!Capital(t, 0) /\ first = curve[1]
    BY <2>4, <2>6, <2>7
  <2>12. PICK final \in Pos : final = T!Capital(t, n) /\ final = curve[m]
    BY <2>4, <2>6, <2>7
  <2>13. PICK losing : losing = T!Losing(t)
    OBVIOUS
  <2>14. PICK gross : gross = T!Pnl(t, losing)
    OBVIOUS
  <2>15. T!Report(t) = [trades |-> n, winning |-> Cardinality(T!Winning(t)),
                        losing |-> Cardinality(losing), gross_loss |-> -gross,
                        initial |-> first, final |-> final, drop |-> d.drop, of |-> d.of]
    <3>1. T!Report(t) = [trades |-> Len(t), winning |-> Cardinality(T!Winning(t)),
                         losing |-> Cardinality(T!Losing(t)),
                         gross_loss |-> -T!Pnl(t, T!Losing(t)),
                         initial |-> T!Capital(t, 0), final |-> T!Capital(t, Len(t)),
                         drop |-> T!MaxDrawdown(T!EquityCurve(t)).drop,
                         of |-> T!MaxDrawdown(T!EquityCurve(t)).of]
      BY <1>2 DEF T!Report, T!Cardinality, Cardinality
    <3> QED
      BY <2>1, <2>3, <2>9, <2>11, <2>12, <2>13, <2>14, <3>1, Zenon
  <2>16. final * d.of >= first * (d.of - d.drop)
    BY <2>10, <2>11, <2>12, DrawdownBounds
  <2>17. \A k \in 1 .. n : t[k].entry \in Nat /\ t[k].exit \in Nat
    BY DEF PairOf, Pos
  <2>18. losing = {k \in 1 .. n : t[k].exit <= t[k].entry}
    BY <2>1, <2>13 DEF T!Losing
  <2>19. gross \in Int /\ (gross < 0 <=> \E k \in 1 .. n : t[k].exit < t[k].entry)
    <3>1. PICK s : s = [k \in 1 .. n |-> IF k \in losing THEN t[k].exit - t[k].entry ELSE 0]
      OBVIOUS
    <3>2. /\ Len(s) = n
          /\ \A k \in 1 .. n : /\ s[k] \in Int /\ s[k] <= 0
                               /\ s[k] < 0 <=> t[k].exit < t[k].entry
      BY <2>17, <2>18, <3>1
    <3>3. T!Sum(s) \in Int /\ (T!Sum(s) < 0 <=> \E k \in 1 .. n : s[k] < 0)
      BY <3>2, LossesAdd
    <3>4. gross = T!Sum(s)
      BY <2>1, <2>14, <3>1 DEF T!Pnl
    <3> QED
      BY <3>2, <3>3, <3>4
  <2>20. ASSUME NEW k \in 1 .. n
         PROVE  /\ k + 1 \in 2 .. m
                /\ curve[k + 1] = T!Capital(t, k) /\ curve[(k + 1) - 1] = T!Capital(t, k - 1)
    <3>1. k + 1 \in 2 .. m /\ k + 1 \in 1 .. m /\ (k + 1) - 1 = k /\ k \in 1 .. m
      BY <2>4
    <3> QED
      BY <2>7, <3>1
  <2>21. (\E j \in 2 .. m : ~(curve[j - 1] <= curve[j])) <=> \E k \in 1 .. n : t[k].exit < t[k].entry
    <3>1. ASSUME NEW k \in 1 .. n
          PROVE  ~(curve[(k + 1) - 1] <= curve[k + 1]) <=> t[k].exit < t[k].entry
      <4>1. k \in 0 .. n /\ k - 1 \in 0 .. n
        OBVIOUS
      <4>2. T!Capital(t, k) \in Nat /\ T!Capital(t, k - 1) \in Nat
        BY <2>6, <4>1 DEF Pos
      <4>3. T!Capital(t, k) < T!Capital(t, k - 1) <=> t[k].exit < t[k].entry
        BY TradeEarns
      <4> QED
        BY <2>20, <4>2, <4>3
    <3>2. \A j \in 2 .. m : j - 1 \in 1 .. n /\ (j - 1) + 1 = j
      BY <2>4
    <3> QED
      BY <2>20, <3>1, <3>2
  <2>22. d.drop \in Nat
    BY <2>10 DEF Drawn
  <2>23. d.drop > 0 <=> -gross > 0
    BY <2>10, <2>19, <2>21, <2>22
  <2>24. ASSUME Cardinality(losing) = 0
         PROVE  final > first
    <3>1. IsFiniteSet(1 .. n) /\ losing \subseteq 1 .. n
      BY <2>18, FS_Interval
    <3>2. losing = {}
      BY <2>24, <3>1, FS_Subset, FS_EmptySet
    <3>3. \A k \in 1 .. n : t[k].entry < t[k].exit
      BY <2>17, <2>18, <3>2
    <3>4. \A k \in 1 .. n : T!Capital(t, k - 1) < T!Capital(t, k)
      BY <3>3, TradeEarns
    <3> DEFINE Good == {k \in 0 .. n : k = 0 \/ first < T!Capital(t, k)}
    <3>5. 0 \in Good
      OBVIOUS
    <3>6. ASSUME NEW k \in 1 .. n, k - 1 \in Good
          PROVE  k \in Good
      <4>1. k \in 0 .. n /\ k - 1 \in 0 .. n
        OBVIOUS
      <4>2. T!Capital(t, k) \in Nat /\ T!Capital(t, k - 1) \in Nat /\ first \in Nat
        BY <2>6, <4>1 DEF Pos
      <4>3. first <= T!Capital(t, k - 1)
        BY <2>11, <3>6, <4>2
      <4>4. first < T!Capital(t, k)
        BY <3>4, <4>2, <4>3
      <4> QED
        BY <4>1, <4>4
    <3>7. n \in Good
      <4> HIDE DEF Good
      <4>1. \A k \in 0 .. n : k \in Good
        BY <3>5, <3>6, LoopKeeps
      <4> QED
        BY <4>1
    <3> QED
      BY <2>2, <2>11, <2>12, <3>7 DEF Pos
  <2> QED
    BY <2>15, <2>16, <2>23, <2>24 DEF AddsUp
<1> QED
  BY <1>1, <1>2

\* The trades a strategy reports, at the prices they were made.
LEMMA PricedTyped ==
  ASSUME T!BacktestAssumption, NEW c \in Seq(Closes), NEW w \in WalkOf(Len(c))
  PROVE  \E n \in Nat : T!Priced(c, T!Trades(c, w)) \in [1 .. n -> PairOf]
<1>1. Len(c) \in Nat /\ \A i \in 1 .. Len(c) : c[i] \in Pos
  BY Parameters DEF Pos
<1>2. PICK t \in Seq(TradeOf(Len(c))) : t = T!Trades(c, w)
  BY <1>1, TradesTyped
<1>3. PICK n \in Nat : n = Len(t) /\ DOMAIN t = 1 .. n /\ \A k \in 1 .. n : t[k] \in TradeOf(Len(c))
  BY LenProperties, ElementOfSeq
<1>4. T!Priced(c, t) = [k \in 1 .. n |-> [entry |-> c[t[k].entry], exit |-> c[t[k].exit]]]
  BY <1>3 DEF T!Priced
<1>5. \A k \in 1 .. n : t[k].entry \in 1 .. Len(c) /\ t[k].exit \in 1 .. Len(c)
  BY <1>3 DEF TradeOf
<1>6. \A k \in 1 .. n : [entry |-> c[t[k].entry], exit |-> c[t[k].exit]] \in PairOf
  BY <1>1, <1>5 DEF PairOf
<1>7. T!Priced(c, t) \in [1 .. n -> PairOf]
  BY <1>4, <1>6
<1> QED
  BY <1>2, <1>7

\* The numbers of every report agree: for every strategy, all parameters and any
\* series.
THEOREM EveryReportAddsUp == ASSUME T!BacktestAssumption PROVE T!Spec => T!ReportAddsUp
<1> DEFINE Step == \A c \in {series'} : \A st \in T!Strategy : \A w \in {T!Simulated(st, c)} :
                     \A r \in {T!Report(T!Priced(c, T!Trades(c, w)))} : AddsUp(r)
<1>1. SeriesOK' => Step
  <2> SUFFICES ASSUME SeriesOK', NEW st \in T!Strategy
               PROVE  AddsUp(T!Report(T!Priced(series', T!Trades(series', T!Simulated(st, series')))))
    OBVIOUS
  <2>1. PICK c \in Seq(Closes) : c = series'
    BY DEF SeriesOK
  <2>2. PICK w : w = T!Simulated(st, c)
    OBVIOUS
  <2>3. w \in WalkOf(Len(c))
    BY <2>2, SimulatedTyped
  <2>4. PICK n \in Nat : T!Priced(c, T!Trades(c, w)) \in [1 .. n -> PairOf]
    BY <2>3, PricedTyped
  <2>5. AddsUp(T!Report(T!Priced(c, T!Trades(c, w))))
    BY <2>4, ReportsAddUp
  <2> QED
    BY <2>1, <2>2, <2>5
<1>2. T!ReportAddsUp <=> [][Step]_series
  BY DEF T!ReportAddsUp, AddsUp
<1> QED
  BY <1>1, <1>2, SeriesTyped, PTL DEF T!Spec

\* Trades lie within the series and end no earlier than they begin.
THEOREM BacktestTyped == ASSUME T!BacktestAssumption PROVE T!Spec => []T!TypeOK
<1>1. SeriesOK => T!TypeOK
  <2> SUFFICES ASSUME SeriesOK, NEW st \in T!Strategy,
                      NEW k \in DOMAIN T!Trades(series, T!Simulated(st, series))
               PROVE  T!Trades(series, T!Simulated(st, series))[k].exit
                        \in T!Trades(series, T!Simulated(st, series))[k].entry .. Len(series)
    BY DEF T!TypeOK, SeriesOK
  <2>1. Len(series) \in Nat
    BY DEF SeriesOK
  <2>2. T!Simulated(st, series) \in WalkOf(Len(series))
    BY <2>1, SimulatedTyped
  <2>3. PICK t \in Seq(TradeOf(Len(series))) : t = T!Trades(series, T!Simulated(st, series))
    BY <2>1, <2>2, TradesTyped
  <2>4. t[k] \in TradeOf(Len(series))
    BY <2>3
  <2> QED
    BY <2>1, <2>3, <2>4 DEF TradeOf
<1> QED
  BY <1>1, SeriesTyped, PTL

-----------------------------------------------------------------------------
(* The levels a run computes: sorting by a relation, clusters, rows.       *)

\* What removing an element does to a finite set.
LEMMA OneLess ==
  ASSUME NEW S, IsFiniteSet(S), NEW X \in SUBSET S, NEW x \in X
  PROVE  /\ IsFiniteSet(X) /\ Cardinality(X) \in Nat \ {0}
         /\ X \ {x} \in SUBSET S
         /\ IsFiniteSet(X \ {x}) /\ Cardinality(X \ {x}) = Cardinality(X) - 1
<1>1. IsFiniteSet(X)
  BY FS_Subset
<1>2. /\ Cardinality(X) \in Nat
      /\ IsFiniteSet(X \ {x}) /\ Cardinality(X \ {x}) = Cardinality(X) - 1
  BY <1>1, FS_CardinalityType, FS_RemoveElement
<1>3. Cardinality(X \ {x}) \in Nat
  BY <1>2, FS_CardinalityType
<1> QED
  BY <1>1, <1>2, <1>3

\* Induction over a finite set, for a family of its subsets.
LEMMA AllSubsets ==
  ASSUME NEW S, IsFiniteSet(S), NEW F, {} \in F,
         \A X \in SUBSET S : X # {} /\ (\A x \in X : X \ {x} \in F) => X \in F
  PROVE  \A X \in SUBSET S : X \in F
<1> DEFINE Ks == {n \in Nat : \A X \in SUBSET S : Cardinality(X) = n => X \in F}
<1>1. 0 \in Ks
  <2>1. ASSUME NEW X \in SUBSET S, Cardinality(X) = 0, X # {}
        PROVE  FALSE
    BY <2>1, OneLess
  <2> QED
    BY <2>1
<1>2. ASSUME NEW n \in Ks
      PROVE  n + 1 \in Ks
  <2>1. ASSUME NEW X \in SUBSET S, Cardinality(X) = n + 1
        PROVE  X \in F
    <3>1. CASE X = {}
      BY <3>1
    <3>2. ASSUME NEW x \in X
          PROVE  X \ {x} \in F
      <4>1. X \ {x} \in SUBSET S /\ Cardinality(X \ {x}) = n
        <5>1. /\ X \ {x} \in SUBSET S
              /\ Cardinality(X \ {x}) = Cardinality(X) - 1
          BY OneLess
        <5> QED
          BY <5>1, <2>1
      <4> QED
        BY <4>1, <1>2
    <3> QED
      BY <3>1, <3>2
  <2> QED
    BY <2>1
<1>3. Ks = Nat
  BY <1>1, <1>2, AllNumbers
<1>4. \A X \in SUBSET S : Cardinality(X) \in Nat
  BY FS_Subset, FS_CardinalityType
<1> QED
  BY <1>3, <1>4

\* r tells of any two members of S which may come before the other.
Sorts(r, S) ==
  /\ \A x, y \in S : <<x, y>> \in r \/ <<y, x>> \in r
  /\ \A x, y, z \in S : <<x, y>> \in r /\ <<y, z>> \in r => <<x, z>> \in r

\* Of finitely many members one may come last.
LEMMA LastExists ==
  ASSUME NEW S, IsFiniteSet(S), NEW r, Sorts(r, S)
  PROVE  \A X \in SUBSET S : X # {} => \E x \in X : \A y \in X : <<y, x>> \in r
<1> DEFINE F == {X \in SUBSET S : X # {} => \E x \in X : \A y \in X : <<y, x>> \in r}
<1>1. {} \in F
  OBVIOUS
<1>2. ASSUME NEW X \in SUBSET S, X # {}, \A x \in X : X \ {x} \in F
      PROVE  X \in F
  <2>1. PICK z \in X : X \ {z} \in F
    BY <1>2
  <2>2. CASE X \ {z} = {}
    BY <2>2 DEF Sorts
  <2>3. CASE X \ {z} # {}
    <3>1. PICK x \in X \ {z} : \A y \in X \ {z} : <<y, x>> \in r
      BY <2>1, <2>3
    <3>2. CASE <<z, x>> \in r
      BY <3>1, <3>2
    <3>3. CASE ~(<<z, x>> \in r)
      <4>1. <<x, z>> \in r /\ <<z, z>> \in r
        BY <3>3 DEF Sorts
      <4>2. \A y \in X \ {z} : <<y, z>> \in r
        BY <3>1, <4>1 DEF Sorts
      <4> QED
        BY <4>1, <4>2
    <3> QED
      BY <3>2, <3>3
  <2> QED
    BY <2>2, <2>3
<1>3. \A X \in SUBSET S : X \in F
  <2> HIDE DEF F
  <2> QED
    BY <1>1, <1>2, AllSubsets
<1> QED
  BY <1>3

LEMMA SequencesOf ==
  ASSUME NEW X
  PROVE  L!SetToSeqs(X) = {q \in [1 .. Cardinality(X) -> X] :
                             \A i, j \in 1 .. Cardinality(X) : i # j => q[i] # q[j]}
<1>1. L!Cardinality(X) = Cardinality(X)
  BY DEF L!Cardinality, Cardinality
<1> QED
  BY <1>1 DEF L!SetToSeqs

\* The members of X in an order that r allows.
Orders(X, r) == {q \in L!SetToSeqs(X) : \A i, j \in DOMAIN q : i < j => <<q[i], q[j]>> \in r}

LEMMA OrderExists ==
  ASSUME NEW S, IsFiniteSet(S), NEW r, Sorts(r, S)
  PROVE  Orders(S, r) # {}
<1> DEFINE F == {X \in SUBSET S : Orders(X, r) # {}}
<1>1. {} \in F
  <2>1. Cardinality({}) = 0
    BY FS_EmptySet
  <2> DEFINE q == [i \in 1 .. 0 |-> 0]
  <2>2. 1 .. Cardinality({}) = 1 .. 0 /\ 1 .. 0 = {} /\ q \in [1 .. 0 -> {}]
    BY <2>1
  <2>3. q \in L!SetToSeqs({})
    BY <2>2, SequencesOf
  <2>4. q \in Orders({}, r)
    BY <2>3 DEF Orders
  <2> QED
    BY <2>4
<1>2. ASSUME NEW X \in SUBSET S, X # {}, \A x \in X : X \ {x} \in F
      PROVE  X \in F
  <2>1. PICK x \in X : \A y \in X : <<y, x>> \in r
    BY <1>2, LastExists
  <2>2. PICK n \in Nat : n + 1 = Cardinality(X) /\ n = Cardinality(X \ {x})
    <3>1. PICK m \in Nat \ {0} : m = Cardinality(X) /\ m - 1 = Cardinality(X \ {x})
      BY OneLess
    <3>2. m - 1 \in Nat /\ (m - 1) + 1 = m
      OBVIOUS
    <3> QED
      BY <3>1, <3>2
  <2>3. PICK q \in Orders(X \ {x}, r) : TRUE
    BY <1>2
  <2>4. /\ q \in [1 .. n -> X \ {x}]
        /\ \A i, j \in 1 .. n : i # j => q[i] # q[j]
        /\ \A i, j \in 1 .. n : i < j => <<q[i], q[j]>> \in r
    BY <2>2, <2>3, SequencesOf DEF Orders
  <2> DEFINE s == [i \in 1 .. n + 1 |-> IF i = n + 1 THEN x ELSE q[i]]
  <2>5. \A i \in 1 .. n + 1 : i = n + 1 \/ i \in 1 .. n
    OBVIOUS
  <2>6. s \in [1 .. n + 1 -> X]
    BY <2>4, <2>5
  <2>7. \A i, j \in 1 .. n + 1 : i # j => s[i] # s[j]
    BY <2>4, <2>5
  <2>8. \A i, j \in 1 .. n + 1 : i < j => <<s[i], s[j]>> \in r
    BY <2>1, <2>4, <2>5
  <2>9. s \in Orders(X, r)
    BY <2>2, <2>6, <2>7, <2>8, SequencesOf DEF Orders
  <2> QED
    BY <2>9
<1>3. \A X \in SUBSET S : X \in F
  <2> HIDE DEF F
  <2> QED
    BY <1>1, <1>2, AllSubsets
<1> QED
  BY <1>3

\* sorted() is a list of the members.
LEMMA OrderedList ==
  ASSUME NEW S, IsFiniteSet(S), NEW r, Sorts(r, S)
  PROVE  \E n \in Nat : n = Cardinality(S) /\ L!Ordered(S, r) \in [1 .. n -> S]
<1>1. PICK q \in Orders(S, r) : TRUE
  BY OrderExists
<1>2. L!Ordered(S, r) \in L!SetToSeqs(S)
  BY <1>1 DEF Orders, L!Ordered
<1>3. Cardinality(S) \in Nat
  BY FS_CardinalityType
<1>4. L!Ordered(S, r) \in [1 .. Cardinality(S) -> S]
  BY <1>2, SequencesOf
<1> QED
  BY <1>3, <1>4

\* The pass of cluster_pivots, one price after another.
LEMMA ClustersStep ==
  ASSUME NEW v, NEW q, Len(q) \in Nat
  PROVE  LET f == L!ClustersAfter(v, q)
         IN f[0] = <<>> /\ \A k \in 1 .. Len(q) : f[k] = L!Join(f[k - 1], v[q[k]])
<1> DEFINE Eq(g, m) == g = [k \in 0 .. m |-> IF k = 0 THEN <<>> ELSE L!Join(g[k - 1], v[q[k]])]
           Ks == {m \in Nat : \E g : Eq(g, m)}
           f == L!ClustersAfter(v, q)
<1>1. 0 \in Ks
  <2>1. Eq([k \in 0 .. 0 |-> <<>>], 0)
    OBVIOUS
  <2> QED
    BY <2>1
<1>2. ASSUME NEW m \in Ks
      PROVE  m + 1 \in Ks
  <2>1. PICK g : Eq(g, m)
    OBVIOUS
  <2> DEFINE e == [k \in 0 .. m + 1 |-> IF k = 0 THEN <<>> ELSE L!Join(g[k - 1], v[q[k]])]
  <2>2. \A k \in 0 .. m : k \in 0 .. m + 1
    OBVIOUS
  <2>3. \A k \in 0 .. m : e[k] = g[k]
    BY <2>1, <2>2
  <2>4. \A k \in 0 .. m + 1 : k # 0 => k - 1 \in 0 .. m
    OBVIOUS
  <2>5. Eq(e, m + 1)
    BY <2>3, <2>4
  <2> HIDE DEF e, Eq
  <2>6. m + 1 \in Nat /\ \E h : Eq(h, (m + 1))
    <3>1. m \in Nat /\ m + 1 \in Nat /\ (m + 1) = m + 1
      OBVIOUS
    <3> QED
      BY <2>5, <3>1
  <2> QED
    BY <2>6
<1>3. PICK m \in Nat : Len(q) = m
  OBVIOUS
<1>4. m \in Ks
  <2> HIDE DEF Ks
  <2>1. Ks = Nat
    <3>1. Ks \in SUBSET Nat
      BY DEF Ks
    <3> QED
      BY <1>1, <1>2, <3>1, AllNumbers
  <2> QED
    BY <2>1
<1>5. f = CHOOSE g : Eq(g, Len(q))
  BY DEF L!ClustersAfter
<1>6. Eq(f, Len(q))
  BY <1>3, <1>4, <1>5
<1> HIDE DEF f
<1>7. f[0] = <<>> /\ \A k \in 1 .. Len(q) : f[k] = L!Join(f[k - 1], v[q[k]])
  BY <1>3, <1>6
<1> QED
  BY <1>7 DEF f

\* A cluster: the sum of its prices and how many they are.
Cluster == Nat \X (Nat \ {0})

LEMMA JoinTyped ==
  ASSUME NEW cs \in Seq(Cluster), NEW p \in Nat
  PROVE  L!Join(cs, p) \in Seq(Cluster)
<1>1. Append(cs, <<p, 1>>) \in Seq(Cluster)
  <2>1. <<p, 1>> \in Cluster
    BY DEF Cluster
  <2> QED
    BY <2>1
<1>2. CASE cs # <<>>
  <2>1. PICK n \in Nat : n = Len(cs) /\ n \in 1 .. n
    BY <1>2
  <2>2. PICK c \in Cluster : c = cs[n]
    BY <2>1
  <2>3. <<c[1] + p, c[2] + 1>> \in Cluster
    BY DEF Cluster
  <2>4. [cs EXCEPT ![n] = <<c[1] + p, c[2] + 1>>] \in Seq(Cluster)
    BY <2>1, <2>3
  <2>5. [cs EXCEPT ![Len(cs)] = <<@[1] + p, @[2] + 1>>] = [cs EXCEPT ![n] = <<c[1] + p, c[2] + 1>>]
    BY <2>1, <2>2
  <2> QED
    BY <1>1, <2>4, <2>5 DEF L!Join
<1>3. CASE cs = <<>>
  BY <1>1, <1>3 DEF L!Join
<1> QED
  BY <1>2, <1>3

LEMMA ClustersTyped ==
  ASSUME NEW v, NEW at, IsFiniteSet(at), \A i \in at : v[i] \in Nat
  PROVE  L!Clusters(v, at) \in Seq(Cluster)
<1> DEFINE r == {ij \in at \X at : v[ij[1]] <= v[ij[2]]}
<1>1. Sorts(r, at)
  <2>1. \A x, y \in at : <<x, y>> \in r <=> v[x] <= v[y]
    OBVIOUS
  <2> HIDE DEF r
  <2> QED
    BY <2>1 DEF Sorts
<1>2. PICK q : q = L!Ordered(at, r)
  OBVIOUS
<1>3. L!Clusters(v, at) = L!ClustersAfter(v, q)[Len(q)]
  BY <1>2 DEF L!Clusters
<1> HIDE DEF r
<1>4. PICK n \in Nat : n = Cardinality(at) /\ q \in [1 .. n -> at]
  BY <1>1, <1>2, OrderedList
<1>5. Len(q) = n
  BY <1>4, SeqDef, LenProperties
<1>6. PICK f : f = L!ClustersAfter(v, q)
  OBVIOUS
<1>7. f[0] = <<>> /\ \A k \in 1 .. n : f[k] = L!Join(f[k - 1], v[q[k]])
  BY <1>5, <1>6, ClustersStep
<1> DEFINE Good == {k \in 0 .. n : f[k] \in Seq(Cluster)}
<1>8. 0 \in Good
  <2>1. <<>> \in Seq(Cluster) /\ 0 \in 0 .. n
    OBVIOUS
  <2> QED
    BY <1>7, <2>1
<1>9. ASSUME NEW k \in 1 .. n, k - 1 \in Good
      PROVE  k \in Good
  <2>1. v[q[k]] \in Nat
    BY <1>4
  <2>2. L!Join(f[k - 1], v[q[k]]) \in Seq(Cluster)
    BY <1>9, <2>1, JoinTyped
  <2> QED
    BY <1>7, <2>2
<1> HIDE DEF Good
<1>10. n \in Good
  BY <1>8, <1>9, LoopKeeps
<1> QED
  BY <1>3, <1>5, <1>6, <1>10 DEF Good

\* The days of the fractals lie within the history.
LEMMA FractalDays ==
  ASSUME L!LevelsAssumption, NEW v, Len(v) \in Nat, NEW sign
  PROVE  IsFiniteSet(L!Fractals(v, sign)) /\ L!Fractals(v, sign) \subseteq 1 .. Len(v)
<1>1. IsFiniteSet(1 .. Len(v))
  BY FS_Interval
<1>2. L!Fractals(v, sign) \subseteq 1 .. Len(v)
  BY DEF L!Fractals, L!LevelsAssumption
<1> QED
  BY <1>1, <1>2, FS_Subset

-----------------------------------------------------------------------------
(* The order of clusters.                                                  *)

AtMost(c, d) == c[1] * d[2] <= d[1] * c[2]

LEMMA BelowAtMost ==
  ASSUME NEW c \in Cluster, NEW d \in Cluster
  PROVE  L!Below(c, d) <=> ~AtMost(d, c)
<1>1. c[1] * d[2] \in Nat /\ d[1] * c[2] \in Nat
  BY DEF Cluster
<1> QED
  BY <1>1 DEF L!Below, AtMost

LEMMA AtMostTotal ==
  ASSUME NEW c \in Cluster, NEW d \in Cluster
  PROVE  AtMost(c, d) \/ AtMost(d, c)
<1>1. c[1] * d[2] \in Nat /\ d[1] * c[2] \in Nat
  BY DEF Cluster
<1> QED
  BY <1>1 DEF AtMost

LEMMA AtMostTransitive ==
  ASSUME NEW c \in Cluster, NEW d \in Cluster, NEW e \in Cluster, AtMost(c, d), AtMost(d, e)
  PROVE  AtMost(c, e)
<1>1. PICK c1 \in Nat, c2 \in Nat \ {0} : c[1] = c1 /\ c[2] = c2
  BY DEF Cluster
<1>2. PICK d1 \in Nat, d2 \in Nat \ {0} : d[1] = d1 /\ d[2] = d2
  BY DEF Cluster
<1>3. PICK e1 \in Nat, e2 \in Nat \ {0} : e[1] = e1 /\ e[2] = e2
  BY DEF Cluster
<1>4. PICK x \in Nat, y \in Nat, z \in Nat, u \in Nat, s \in Nat, t \in Nat :
        x = c1 * d2 /\ y = d1 * c2 /\ z = d1 * e2 /\ u = e1 * d2 /\ s = c1 * e2 /\ t = e1 * c2
  OBVIOUS
<1>5. ~(y < x) /\ ~(u < z)
  BY <1>1, <1>2, <1>3, <1>4 DEF AtMost
<1>6. ~(y * e2 < x * e2) /\ ~(u * c2 < z * c2)
  BY <1>5, Scales
<1>7. x * e2 = s * d2
  <2>1. (c1 * d2) * e2 = (c1 * e2) * d2
    OBVIOUS
  <2> QED
    BY <1>4, <2>1
<1>8. y * e2 = z * c2
  <2>1. (d1 * c2) * e2 = (d1 * e2) * c2
    OBVIOUS
  <2> QED
    BY <1>4, <2>1
<1>9. u * c2 = t * d2
  <2>1. (e1 * d2) * c2 = (e1 * c2) * d2
    OBVIOUS
  <2> QED
    BY <1>4, <2>1
<1>10. ~(t * d2 < s * d2)
  <2>1. /\ x * e2 \in Nat /\ y * e2 \in Nat /\ u * c2 \in Nat /\ z * c2 \in Nat
    OBVIOUS
  <2> QED
    BY <1>6, <1>7, <1>8, <1>9, <2>1
<1>11. ~(t < s)
  BY <1>10, Scales
<1> QED
  BY <1>1, <1>3, <1>4, <1>11 DEF AtMost

\* Whichever side it is about, of two clusters one is no farther from the close,
\* and no farther than one that is no farther than a third.
LEMMA NearerOrder ==
  ASSUME NEW side, NEW c \in Cluster, NEW d \in Cluster, NEW e \in Cluster
  PROVE  /\ ~L!Nearer(side, c, d) \/ ~L!Nearer(side, d, c)
         /\ ~L!Nearer(side, d, c) /\ ~L!Nearer(side, e, d) => ~L!Nearer(side, e, c)
<1>1. /\ L!Below(c, d) <=> ~AtMost(d, c)
      /\ L!Below(d, c) <=> ~AtMost(c, d)
      /\ L!Below(d, e) <=> ~AtMost(e, d)
      /\ L!Below(e, d) <=> ~AtMost(d, e)
      /\ L!Below(c, e) <=> ~AtMost(e, c)
      /\ L!Below(e, c) <=> ~AtMost(c, e)
  BY BelowAtMost
<1>2. AtMost(c, d) \/ AtMost(d, c)
  BY AtMostTotal
<1>3. AtMost(c, d) /\ AtMost(d, e) => AtMost(c, e)
  BY AtMostTransitive
<1>4. AtMost(e, d) /\ AtMost(d, c) => AtMost(e, c)
  BY AtMostTransitive
<1> QED
  BY <1>1, <1>2, <1>3, <1>4 DEF L!Nearer

\* The two sorts of classify_and_select.
LEMMA StrongerOrder ==
  ASSUME NEW side, NEW c \in Cluster, NEW d \in Cluster, NEW e \in Cluster
  PROVE  /\ ~L!Stronger(side, c, d) \/ ~L!Stronger(side, d, c)
         /\ ~L!Stronger(side, d, c) /\ ~L!Stronger(side, e, d) => ~L!Stronger(side, e, c)
<1>1. c[2] \in Nat /\ d[2] \in Nat /\ e[2] \in Nat
  BY DEF Cluster
<1>2. /\ ~L!Nearer(side, c, d) \/ ~L!Nearer(side, d, c)
      /\ ~L!Nearer(side, d, c) /\ ~L!Nearer(side, e, d) => ~L!Nearer(side, e, c)
  BY NearerOrder
<1> QED
  BY <1>1, <1>2 DEF L!Stronger

LEMMA CloserOrder ==
  ASSUME NEW side, NEW c \in Cluster, NEW d \in Cluster, NEW e \in Cluster
  PROVE  /\ ~L!Closer(side, c, d) \/ ~L!Closer(side, d, c)
         /\ ~L!Closer(side, d, c) /\ ~L!Closer(side, e, d) => ~L!Closer(side, e, c)
<1>1. c[2] \in Nat /\ d[2] \in Nat /\ e[2] \in Nat
  BY DEF Cluster
<1>2. /\ ~L!Nearer(side, c, d) \/ ~L!Nearer(side, d, c)
      /\ ~L!Nearer(side, d, c) /\ ~L!Nearer(side, e, d) => ~L!Nearer(side, e, c)
  BY NearerOrder
<1>3. ~L!Nearer(side, c, e) /\ ~L!Nearer(side, d, c) => ~L!Nearer(side, d, e)
  BY NearerOrder
<1>4. ~L!Nearer(side, e, d) /\ ~L!Nearer(side, c, e) => ~L!Nearer(side, c, d)
  BY NearerOrder
<1> QED
  BY <1>1, <1>2, <1>3, <1>4 DEF L!Closer

LEMMA SelectedTyped ==
  ASSUME TopN \in Nat, NEW side \in L!Side, NEW cs \in Seq(Cluster), NEW close
  PROVE  L!Selected(side, cs, close) \subseteq [side : L!Side, tag : 1 .. TopN, price : Cluster]
<1> DEFINE mine == {n \in DOMAIN cs : L!SideOf(cs[n], close) = side}
           first == {mn \in mine \X mine : ~L!Stronger(side, cs[mn[2]], cs[mn[1]])}
           ranked == L!Ordered(mine, first)
           top == {ranked[k] : k \in {k \in DOMAIN ranked : k <= TopN}}
           second == {mn \in top \X top : ~L!Closer(side, cs[mn[2]], cs[mn[1]])}
           near == L!Ordered(top, second)
<1>1. L!Selected(side, cs, close)
        = {[side |-> side, tag |-> n, price |-> cs[near[n]]] : n \in DOMAIN near}
  BY DEF L!Selected
<1>2. mine \subseteq 1 .. Len(cs) /\ \A n \in mine : cs[n] \in Cluster
  OBVIOUS
<1> HIDE DEF mine
<1>3. IsFiniteSet(mine)
  <2>1. IsFiniteSet(1 .. Len(cs))
    BY FS_Interval
  <2> QED
    BY <1>2, <2>1, FS_Subset
<1>4. Sorts(first, mine)
  <2>1. \A x, y \in mine : <<x, y>> \in first <=> ~L!Stronger(side, cs[y], cs[x])
    OBVIOUS
  <2> HIDE DEF first
  <2>2. \A x, y \in mine : ~L!Stronger(side, cs[y], cs[x]) \/ ~L!Stronger(side, cs[x], cs[y])
    BY <1>2, StrongerOrder
  <2>3. \A x, y, z \in mine : /\ ~L!Stronger(side, cs[y], cs[x]) /\ ~L!Stronger(side, cs[z], cs[y])
                              => ~L!Stronger(side, cs[z], cs[x])
    BY <1>2, StrongerOrder
  <2> QED
    BY <2>1, <2>2, <2>3 DEF Sorts
<1> HIDE DEF first
<1>5. PICK n \in Nat : n = Cardinality(mine) /\ ranked \in [1 .. n -> mine]
  BY <1>3, <1>4, OrderedList
<1> HIDE DEF ranked
<1>6. top \subseteq mine /\ IsFiniteSet(top) /\ Cardinality(top) \in 0 .. TopN
  <2>1. PICK m \in Nat : m <= TopN /\ {k \in DOMAIN ranked : k <= TopN} = 1 .. m
    <3>1. CASE n <= TopN
      BY <1>5, <3>1
    <3>2. CASE TopN <= n
      BY <1>5, <3>2
    <3> QED
      BY <3>1, <3>2
  <2>2. 1 .. m \subseteq 1 .. n
    BY <1>5, <2>1
  <2>3. top = {ranked[k] : k \in 1 .. m} /\ top \subseteq mine
    BY <1>5, <2>1, <2>2
  <2> DEFINE g == [k \in 1 .. m |-> ranked[k]]
  <2> HIDE DEF top
  <2>4. g \in Surjection(1 .. m, top)
    BY <2>3 DEF Surjection
  <2>5. IsFiniteSet(1 .. m) /\ Cardinality(1 .. m) = m
    BY FS_Interval
  <2>6. IsFiniteSet(top) /\ Cardinality(top) <= m
    BY <2>4, <2>5, FS_Surjection
  <2>7. Cardinality(top) \in Nat
    BY <2>6, FS_CardinalityType
  <2> QED
    BY <2>1, <2>3, <2>6, <2>7
<1> HIDE DEF top
<1>7. Sorts(second, top)
  <2>1. \A x, y \in top : <<x, y>> \in second <=> ~L!Closer(side, cs[y], cs[x])
    OBVIOUS
  <2> HIDE DEF second
  <2>2. \A x \in top : cs[x] \in Cluster
    BY <1>2, <1>6
  <2>3. \A x, y \in top : ~L!Closer(side, cs[y], cs[x]) \/ ~L!Closer(side, cs[x], cs[y])
    BY <2>2, CloserOrder
  <2>4. \A x, y, z \in top : /\ ~L!Closer(side, cs[y], cs[x]) /\ ~L!Closer(side, cs[z], cs[y])
                             => ~L!Closer(side, cs[z], cs[x])
    BY <2>2, CloserOrder
  <2> QED
    BY <2>1, <2>3, <2>4 DEF Sorts
<1> HIDE DEF second
<1>8. PICK m \in Nat : m <= TopN /\ near \in [1 .. m -> top]
  BY <1>6, <1>7, OrderedList
<1> HIDE DEF near
<1>9. ASSUME NEW k \in DOMAIN near
      PROVE  k \in 1 .. TopN /\ cs[near[k]] \in Cluster
  <2>1. k \in 1 .. m /\ near[k] \in top
    BY <1>8
  <2>2. near[k] \in mine
    BY <1>6, <2>1
  <2>3. k \in 1 .. TopN
    BY <1>8, <2>1
  <2>4. cs[near[k]] \in Cluster
    BY <1>2, <2>2
  <2> QED
    BY <2>3, <2>4
<1> QED
  BY <1>1, <1>9

LEMMA PivotRowsTyped ==
  ASSUME L!LevelsAssumption, NEW h \in Histories
  PROVE  L!PivotRows(h) \subseteq [side : L!Side, tag : 1 .. TopN, price : Cluster]
<1> DEFINE Day == [high : Nat, low : Nat, close : Nat]
           highs == [i \in DOMAIN h |-> h[i].high]
           lows == [i \in DOMAIN h |-> h[i].low]
           hi == L!Clusters(highs, L!Fractals(highs, 1))
           lo == L!Clusters(lows, L!Fractals(lows, -1))
<1>1. TopN \in Nat /\ h \in Seq(Day)
  BY DEF L!LevelsAssumption
<1>2. PICK n \in Nat : n = Len(h) /\ h \in [1 .. n -> Day]
  BY <1>1, LenProperties, SeqDef
<1>3. /\ \A i \in 1 .. n : highs[i] \in Nat /\ lows[i] \in Nat
      /\ highs \in [1 .. n -> Nat] /\ lows \in [1 .. n -> Nat]
  BY <1>2
<1> HIDE DEF highs, lows
<1>4. Len(highs) = n /\ Len(lows) = n
  BY <1>3, SeqDef, LenProperties
<1>5. hi \in Seq(Cluster)
  BY <1>3, <1>4, FractalDays, ClustersTyped
<1>6. lo \in Seq(Cluster)
  BY <1>3, <1>4, FractalDays, ClustersTyped
<1> HIDE DEF hi, lo
<1>7. hi \o lo \in Seq(Cluster)
  BY <1>5, <1>6
<1>8. L!PivotRows(h) = UNION {L!Selected(side, hi \o lo, L!Last(h).close) : side \in L!Side}
  BY DEF L!PivotRows, hi, lo, highs, lows
<1>9. \A side \in L!Side : L!Selected(side, hi \o lo, L!Last(h).close)
                              \subseteq [side : L!Side, tag : 1 .. TopN, price : Cluster]
  BY <1>1, <1>7, SelectedTyped
<1> QED
  BY <1>8, <1>9

LEMMA ComputedTyped ==
  ASSUME L!LevelsAssumption
  PROVE  L!Computed \subseteq [side : L!Side, tag : 1 .. TopN, price : Nat \X (Nat \ {0})]
BY PivotRowsTyped DEF L!Computed, Cluster

-----------------------------------------------------------------------------
(* Types.                                                                  *)

LevelsInv ==
  /\ bars \in Histories
  /\ manual \subseteq L!Side
  /\ marks \in [User -> 0 .. MaxMarks]
  /\ PivotInv
  /\ StopInv

LEMMA LevelsKeepTypes ==
  ASSUME L!LevelsAssumption, L!LevelsNullAssumption, LevelsInv, [L!Next]_(L!levelVars)
  PROVE  LevelsInv'
<1>1. PivotInv' /\ StopInv'
  BY LevelsNext, StopsNext DEF LevelsInv
<1>2. bars' \in Histories
  BY DEF LevelsInv, L!Next, L!PivotNext, L!UserNext, L!BarsChange, L!Read, L!Ask, L!Delete, L!Write,
     L!PivotFails, L!Import, L!StopWrite, L!StopRead, L!Mark, L!DeleteMark, L!DeleteStop,
     L!levelVars, L!pivotVars
<1>3. manual' \subseteq L!Side
  <2>1. ASSUME NEW S \in Imports, L!Import(S)
        PROVE  manual' \subseteq L!Side
    BY <2>1 DEF LevelsInv, L!Import, L!LevelsAssumption
  <2> QED
    BY <2>1 DEF LevelsInv, L!Next, L!PivotNext, L!UserNext, L!BarsChange, L!Read, L!Ask, L!Delete,
       L!Write, L!PivotFails, L!StopWrite, L!StopRead, L!Mark, L!DeleteMark, L!DeleteStop,
       L!levelVars, L!pivotVars
<1>4. marks' \in [User -> 0 .. MaxMarks]
  <2>1. ASSUME NEW u \in User, L!Mark(u) \/ L!DeleteMark(u)
        PROVE  marks' \in [User -> 0 .. MaxMarks]
    <3>1. PICK n \in 0 .. MaxMarks : n = marks[u]
      BY DEF LevelsInv
    <3>2. PICK k \in 0 .. MaxMarks : marks' = [marks EXCEPT ![u] = k]
      <4>1. CASE L!Mark(u)
        <5>1. n + 1 \in 0 .. MaxMarks /\ marks' = [marks EXCEPT ![u] = n + 1]
          BY <3>1, <4>1 DEF L!Mark, L!LevelsAssumption
        <5> QED
          BY <5>1
      <4>2. CASE L!DeleteMark(u)
        <5>1. n - 1 \in 0 .. MaxMarks /\ marks' = [marks EXCEPT ![u] = n - 1]
          BY <3>1, <4>2 DEF L!DeleteMark, L!LevelsAssumption
        <5> QED
          BY <5>1
      <4> QED
        BY <2>1, <4>1, <4>2
    <3> QED
      BY <3>2 DEF LevelsInv
  <2> QED
    BY <2>1 DEF LevelsInv, L!Next, L!PivotNext, L!UserNext, L!BarsChange, L!Read, L!Ask, L!Delete,
       L!Write, L!PivotFails, L!Import, L!StopWrite, L!StopRead, L!DeleteStop,
       L!levelVars, L!pivotVars, L!userVars
<1> QED
  BY <1>1, <1>2, <1>3, <1>4 DEF LevelsInv

\* What a run computes is on one of the sides, among the TopN, and has a price;
\* what it stores was computed.
THEOREM LevelsTyped ==
  ASSUME L!LevelsAssumption, L!LevelsNullAssumption
  PROVE  L!Spec => []L!TypeOK
<1>1. L!Init => LevelsInv
  BY LevelsInit DEF LevelsInv, L!Init, StopInv, L!LevelsAssumption
<1>2. LevelsInv /\ [L!Next]_(L!levelVars) => LevelsInv'
  BY LevelsKeepTypes
<1>3. LevelsInv => L!TypeOK
  BY ComputedTyped DEF LevelsInv, PivotInv, PivotTyped, StopInv, L!TypeOK
<1> QED
  BY <1>1, <1>2, <1>3, PTL DEF L!Spec

LEMMA SeriesKept ==
  ASSUME B!BarsAssumption, B!TypeOK
  PROVE  /\ \A s \in B!Answers : s \in B!Series /\ B!Finite(s) \in B!Series
         /\ now \in 0 .. now
         /\ \A w \in B!Writer : \A s \in B!Series :
              B!Fetched(w, s) \in [B!Writer -> {Null} \cup [bars : B!Series, stage : {"fetched", "stored"},
                                                            at : 0 .. now]]
         /\ \A w \in B!Writer :
              B!Done(w) \in [B!Writer -> {Null} \cup [bars : B!Series, stage : {"fetched", "stored"},
                                                      at : 0 .. now]]
         /\ \A w \in B!Writer : job[w] # Null =>
              B!Stored(w) \in [B!Writer -> {Null} \cup [bars : B!Series, stage : {"fetched", "stored"},
                                                        at : 0 .. now]]
<1>1. now \in 0 .. now
  BY DEF B!TypeOK
<1>2. \A s \in B!Answers : s \in B!Series /\ B!Finite(s) \in B!Series
  BY DEF B!Answers, B!Series, B!Finite, B!Kind
<1> DEFINE Held == [bars : B!Series, stage : {"fetched", "stored"}, at : 0 .. now]
<1>3. job \in [B!Writer -> {Null} \cup Held]
  BY DEF B!TypeOK
<1>4. ASSUME NEW w \in B!Writer, NEW s \in B!Series
      PROVE  B!Fetched(w, s) \in [B!Writer -> {Null} \cup Held]
  <2>1. [bars |-> s, stage |-> "fetched", at |-> now] \in Held
    BY <1>1
  <2> HIDE DEF Held
  <2> QED
    BY <1>3, <2>1 DEF B!Fetched
<1>5. ASSUME NEW w \in B!Writer
      PROVE  B!Done(w) \in [B!Writer -> {Null} \cup Held]
  BY <1>3 DEF B!Done
<1>6. ASSUME NEW w \in B!Writer, job[w] # Null
      PROVE  B!Stored(w) \in [B!Writer -> {Null} \cup Held]
  <2>1. job[w] \in Held
    BY <1>3, <1>6
  <2>2. [job[w] EXCEPT !.stage = "stored"] \in Held
    BY <2>1
  <2>3. B!Stored(w) = [job EXCEPT ![w] = [job[w] EXCEPT !.stage = "stored"]]
    BY DEF B!Stored
  <2> HIDE DEF Held
  <2> QED
    BY <1>3, <2>2, <2>3
<1> QED
  BY <1>1, <1>2, <1>4, <1>5, <1>6

LEMMA BarsKeepTypes ==
  ASSUME B!BarsAssumption, B!TypeOK, [B!Next]_B!barVars
  PROVE  B!TypeOK'
<1> DEFINE Held == [bars : B!Series, stage : {"fetched", "stored"}, at : 0 .. now]
           Jobs == [B!Writer -> {Null} \cup Held]
           Caches == {Null} \cup [bars : B!Series, at : 0 .. now]
           Rows == [B!Key -> B!Kind \cup {Null}]
<1>1. job \in Jobs /\ cache \in Caches /\ db \in Rows /\ now \in 0 .. 2 * LastSession + 1
  BY DEF B!TypeOK
<1>2. /\ \A s \in B!Answers : s \in B!Series /\ B!Finite(s) \in B!Series
      /\ now \in 0 .. now
      /\ \A w \in B!Writer : \A s \in B!Series : B!Fetched(w, s) \in Jobs
      /\ \A w \in B!Writer : B!Done(w) \in Jobs
      /\ \A w \in B!Writer : job[w] # Null => B!Stored(w) \in Jobs
  BY SeriesKept
<1>3. ASSUME job' \in Jobs, cache' \in Caches, db' \in Rows, now' = now
      PROVE  B!TypeOK'
  BY <1>1, <1>3 DEF B!TypeOK
<1>4. \A w \in B!Writer : job[w] # Null => job[w].bars \in B!Series
  BY <1>1
<1>5. "prefetch" \in B!Writer /\ "demand" \in B!Writer /\ "fallback" \in B!Writer /\ "seed" \in B!Writer
  BY DEF B!Writer
<1>6. \A s \in B!Series : /\ B!Finite(s) \in B!Series
                          /\ \A zone : B!Inserted(s, zone) \in Rows /\ B!Upserted(s, zone) \in Rows
  BY <1>1 DEF B!Series, B!Finite, B!Inserted, B!Upserted, B!Key
<1>7. CASE B!PrefetchFetch \/ B!DemandFetch
  <2> HIDE DEF Held, Jobs, Caches, Rows
  <2>1. job' \in Jobs /\ UNCHANGED <<now, db, cache>>
    BY <1>2, <1>5, <1>7 DEF B!PrefetchFetch, B!DemandFetch
  <2> QED
    BY <1>1, <1>3, <2>1
<1>8. ASSUME NEW w \in B!Writer, B!DirectFetch(w)
      PROVE  B!TypeOK'
  <2>1. PICK s \in B!Answers, first \in B!Day :
          job' = B!Fetched(w, [d \in B!Day |-> IF d < first THEN Null ELSE B!Finite(s)[d]])
    BY <1>8 DEF B!DirectFetch
  <2>2. [d \in B!Day |-> IF d < first THEN Null ELSE B!Finite(s)[d]] \in B!Series
    <3>1. B!Finite(s) \in [B!Day -> B!Kind \cup {Null}]
      BY <1>2 DEF B!Series
    <3> QED
      BY <3>1 DEF B!Series
  <2> HIDE DEF Held, Jobs, Caches, Rows
  <2>3. UNCHANGED <<now, db, cache>>
    BY <1>8 DEF B!DirectFetch
  <2> QED
    BY <1>1, <1>2, <1>3, <2>1, <2>2, <2>3
<1>9. CASE B!PrefetchStore \/ B!DemandStore \/ B!SeedStore
  <2> HIDE DEF Held, Jobs, Caches, Rows
  <2>1. db' \in Rows /\ job' \in Jobs /\ UNCHANGED <<now, cache>>
    <3>1. CASE B!PrefetchStore
      BY <1>2, <1>4, <1>5, <1>6, <3>1 DEF B!PrefetchStore, B!At, B!Prefetched
    <3>2. CASE B!DemandStore
      BY <1>1, <1>2, <1>4, <1>5, <1>6, <3>2 DEF B!DemandStore, B!At
    <3>3. CASE B!SeedStore
      BY <1>2, <1>4, <1>5, <1>6, <3>3 DEF B!SeedStore, B!At
    <3> QED
      BY <1>9, <3>1, <3>2, <3>3
  <2> QED
    BY <1>1, <1>3, <2>1
<1>10. ASSUME NEW w \in B!Writer, B!Cache(w) \/ B!Fails(w)
       PROVE  B!TypeOK'
  <2>1. B!Cache(w) => [bars |-> job[w].bars, at |-> now] \in Caches
    <3> SUFFICES ASSUME B!Cache(w)
                 PROVE  [bars |-> job[w].bars, at |-> now] \in Caches
      OBVIOUS
    <3>1. job[w].bars \in B!Series
      BY <1>4 DEF B!Cache, B!At
    <3> QED
      BY <1>2, <3>1
  <2> HIDE DEF Held, Jobs, Caches, Rows
  <2>2. cache' \in Caches /\ job' \in Jobs /\ UNCHANGED <<now, db>>
    BY <1>1, <1>2, <1>10, <2>1 DEF B!Cache, B!Fails
  <2> QED
    BY <1>1, <1>3, <2>2
<1>11. CASE B!Tick
  <2>0. now' = now + 1 /\ now < 2 * LastSession + 1 /\ UNCHANGED <<db, cache, job>>
    BY <1>11 DEF B!Tick
  <2>1. now' \in 0 .. 2 * LastSession + 1
    BY <1>1, <2>0, LastSession \in Nat DEF B!BarsAssumption
  <2>2. 0 .. now \subseteq 0 .. now'
    BY <1>1, <2>0
  <2>3. Held \subseteq [bars : B!Series, stage : {"fetched", "stored"}, at : 0 .. now']
    BY <2>2
  <2>4. Caches \subseteq {Null} \cup [bars : B!Series, at : 0 .. now']
    BY <2>2
  <2>5. job' \in [B!Writer -> {Null} \cup [bars : B!Series, stage : {"fetched", "stored"}, at : 0 .. now']]
    <3>1. job' = job /\ job \in Jobs
      BY <1>1, <2>0
    <3> HIDE DEF Held
    <3> QED
      BY <2>3, <3>1
  <2>6. cache' \in {Null} \cup [bars : B!Series, at : 0 .. now']
    BY <1>1, <2>0, <2>4
  <2>7. db' \in Rows
    BY <1>1, <2>0
  <2> QED
    BY <2>1, <2>5, <2>6, <2>7 DEF B!TypeOK
<1>12. CASE B!Expire \/ B!Housekeep \/ UNCHANGED B!barVars
  <2>1. CASE B!Housekeep
    BY <1>1, <1>3, <2>1 DEF B!Housekeep
  <2>2. CASE B!Expire
    BY <1>1, <1>3, <2>2 DEF B!Expire
  <2>3. CASE UNCHANGED B!barVars
    BY <1>1, <1>3, <2>3 DEF B!barVars
  <2> QED
    BY <1>12, <2>1, <2>2, <2>3
<1> QED
  BY <1>5, <1>7, <1>8, <1>9, <1>10, <1>11, <1>12 DEF B!Next, B!SeedFetch

\* The clock, the table, the key and the fetches of daily bars are well typed.
LEMMA BarsTyped ==
  ASSUME B!BarsAssumption
  PROVE  B!Spec => []B!TypeOK
<1>1. B!Init => B!TypeOK
  BY DEF B!Init, B!TypeOK, B!BarsAssumption
<1>2. B!TypeOK /\ [B!Next]_B!barVars => B!TypeOK'
  BY BarsKeepTypes
<1> QED
  BY <1>1, <1>2, PTL DEF B!Spec

LEMMA ResolvesListed ==
  ASSUME N!FundNavAssumption, NEW m \in SUBSET Project, N!Matching(m) # {}
  PROVE  N!Resolve(m) \in m
<1>1. N!Matching(m) \in SUBSET Nat
  BY DEF N!Matching, N!FundNavAssumption
<1>2. PICK n \in N!Matching(m) : \A i \in N!Matching(m) : n <= i
  BY <1>1, LeastNat
<1>3. PICK k \in N!Matching(m) : k = N!Min(N!Matching(m))
  BY <1>2 DEF N!Min
<1>4. Cardinality(Tries[k] \cap m) = 1
  BY <1>3 DEF N!Matching, N!Cardinality, Cardinality
<1>5. \E p \in Tries[k] : p \in m
  BY <1>4, FS_EmptySet
<1> QED
  BY <1>3, <1>5 DEF N!Resolve

NavKept ==
  /\ NavInv
  /\ listed \in {Null} \cup SUBSET Project
  /\ kept # Null => /\ kept.project \in Project /\ kept.class \in Class \cup {"other"}
                    /\ kept.map \subseteq Project

LEMMA NavKeepsTypes ==
  ASSUME N!FundNavAssumption, N!NamedAssumption, NavKept, [N!Next]_(N!navVars)
  PROVE  NavKept'
<1>1. NavInv'
  BY NavNext DEF NavKept
<1>2. ASSUME NEW m \in SUBSET Project, NEW failing \in SUBSET N!Asking, NEW cached \in {m, Null},
             N!fetch_thai_fund_navs(m, cached, failing)
      PROVE  NavKept'
  <2>1. listed' \in {Null} \cup SUBSET Project
    BY <1>2 DEF N!fetch_thai_fund_navs
  <2>2. CASE N!Readable(N!Resolve(m), failing) # {}
    <3>1. PICK d : d = N!FirstFound(N!Readable(N!Resolve(m), failing))
      OBVIOUS
    <3>2. PICK p : p = N!Resolve(m)
      OBVIOUS
    <3>3. PICK c \in N!Choice(N!Answer(p, d)) : kept' = N!Nav(p, c, d, "sec", m, failing)
      BY <1>2, <2>2, <3>1, <3>2 DEF N!fetch_thai_fund_navs, N!FromSec
    <3>4. kept'.project = p /\ kept'.class = c /\ kept'.map = m
      BY <3>3 DEF N!Nav
    <3>5. p # Null
      BY <2>2, <3>2 DEF N!Readable
    <3>6. p \in Project
      BY <3>2, <3>5, ResolvesListed DEF N!Resolve
    <3>7. d \in N!Day
      <4>1. N!Readable(p, failing) \in SUBSET N!Day
        BY DEF N!Readable, N!Asking
      <4> QED
        BY <2>2, <3>1, <3>2, <4>1, NewestRead
    <3>8. N!Choice(N!Answer(p, d)) \subseteq Class \cup {"other"}
      BY <3>7 DEF N!Choice, N!Answer, NavKept, NavInv, N!FundNavAssumption
    <3> QED
      BY <1>1, <2>1, <3>3, <3>4, <3>6, <3>8 DEF NavKept
  <2>3. CASE kept' \in N!FromFinnomena(m)
    <3>1. PICK d : kept' = N!Nav(Own, Asked, d, "finnomena", m, {})
      BY <2>3 DEF N!FromFinnomena
    <3>2. kept'.project = Own /\ kept'.class = Asked /\ kept'.map = m
      BY <3>1 DEF N!Nav
    <3> QED
      BY <1>1, <2>1, <3>2 DEF NavKept, N!FundNavAssumption
  <2>4. CASE kept' = kept
    BY <1>1, <2>1, <2>4 DEF NavKept
  <2> QED
    BY <1>2, <2>2, <2>3, <2>4 DEF N!fetch_thai_fund_navs
<1>3. ASSUME NEW d \in N!Day, NEW S \in SUBSET Class, N!Publish(d, S)
      PROVE  NavKept'
  BY <1>1, <1>3 DEF N!Publish, NavKept
<1>4. CASE N!NextDay \/ N!MapExpires \/ N!NavExpires \/ UNCHANGED N!navVars
  BY <1>1, <1>4 DEF N!NextDay, N!MapExpires, N!NavExpires, N!navVars, NavKept
<1> QED
  BY <1>2, <1>3, <1>4 DEF N!Next

\* The map holds registered projects, and the NAV that is kept has one of them
\* and a class of it.
LEMMA NavTyped ==
  ASSUME N!FundNavAssumption, N!NamedAssumption
  PROVE  N!Spec => []N!TypeOK
<1>1. N!Init => NavKept
  BY NavInit DEF NavKept, N!Init
<1>2. NavKept /\ [N!Next]_(N!navVars) => NavKept'
  BY NavKeepsTypes
<1>3. NavKept => N!TypeOK
  BY DEF NavKept, NavInv, N!TypeOK
<1> QED
  BY <1>1, <1>2, <1>3, PTL DEF N!Spec

LEMMA FetchKeepsTypes ==
  ASSUME Fetches!DataFetchAssumption, Fetches!TypeOK, [Fetches!Next]_(Fetches!fetchVars)
  PROVE  Fetches!TypeOK'
<1> DEFINE Stages == {Null, "asking", "looking", "priced", "again"}
           Flags == {quoted, nav, notFound, dedupe} \subseteq BOOLEAN
<1>1. symbol' \in Symbols
  BY DEF Fetches!TypeOK, Fetches!Next, Fetches!Open, Fetches!Close, Fetches!ListChanges,
     Fetches!Hit, Fetches!Miss,
     Fetches!BlindMiss, Fetches!TakeTask, Fetches!Warm, Fetches!Look, Fetches!Priced,
     Fetches!Ends, Fetches!Unknown, Fetches!Store, Fetches!FetchFails, Fetches!Die,
     Fetches!Feed, Fetches!FeedNav, Fetches!QuoteExpires, Fetches!MarkExpires,
     Fetches!NavExpires, Fetches!DedupeExpires, Fetches!Restart, Fetches!fetchVars
<1>2. Flags'
  BY DEF Fetches!TypeOK, Fetches!Next, Fetches!Open, Fetches!Close, Fetches!ListChanges,
     Fetches!Hit, Fetches!Miss,
     Fetches!BlindMiss, Fetches!TakeTask, Fetches!Warm, Fetches!Look, Fetches!Priced,
     Fetches!Ends, Fetches!Unknown, Fetches!Store, Fetches!FetchFails, Fetches!Die,
     Fetches!Feed, Fetches!FeedNav, Fetches!QuoteExpires, Fetches!MarkExpires,
     Fetches!NavExpires, Fetches!DedupeExpires, Fetches!Restart, Fetches!fetchVars
<1>3. page' \in {"away", "asked", "cut", "shown"}
  BY DEF Fetches!TypeOK, Fetches!Next, Fetches!Open, Fetches!Close, Fetches!ListChanges,
     Fetches!Hit, Fetches!Miss,
     Fetches!BlindMiss, Fetches!TakeTask, Fetches!Warm, Fetches!Look, Fetches!Priced,
     Fetches!Ends, Fetches!Unknown, Fetches!Store, Fetches!FetchFails, Fetches!Die,
     Fetches!Feed, Fetches!FeedNav, Fetches!QuoteExpires, Fetches!MarkExpires,
     Fetches!NavExpires, Fetches!DedupeExpires, Fetches!Restart, Fetches!fetchVars
<1>4. waiting' \in 0 .. MaxQueued
  <2>1. Fetches!Dispatch => waiting' \in 0 .. MaxQueued
    BY DEF Fetches!Dispatch, Fetches!TypeOK, Fetches!DataFetchAssumption
  <2>2. Fetches!TakeTask => waiting' \in 0 .. MaxQueued
    BY DEF Fetches!TakeTask, Fetches!TypeOK, Fetches!DataFetchAssumption
  <2>3. \A f : Fetches!Die(f) => waiting' \in 0 .. MaxQueued
    BY DEF Fetches!Die, Fetches!TypeOK, Fetches!DataFetchAssumption
  <2>4. Fetches!Restart => waiting' \in 0 .. MaxQueued
    BY DEF Fetches!Restart, Fetches!DataFetchAssumption
  <2>5. waiting' = waiting => waiting' \in 0 .. MaxQueued
    BY DEF Fetches!TypeOK
  <2> QED
    BY <2>1, <2>2, <2>3, <2>4, <2>5 DEF Fetches!Next, Fetches!Open, Fetches!Close, Fetches!ListChanges,
     Fetches!Hit,
       Fetches!Miss, Fetches!BlindMiss, Fetches!Warm, Fetches!Look, Fetches!Priced,
       Fetches!Ends, Fetches!Unknown, Fetches!Store, Fetches!FetchFails,
       Fetches!Feed, Fetches!FeedNav, Fetches!QuoteExpires, Fetches!MarkExpires,
       Fetches!NavExpires, Fetches!DedupeExpires, Fetches!fetchVars
<1>5. fetch' \in [Fetches!Fetcher -> Stages]
  <2>1. fetch \in [Fetches!Fetcher -> Stages]
    BY DEF Fetches!TypeOK
  <2>2. Fetches!Dispatch => fetch' \in [Fetches!Fetcher -> Stages]
    BY <2>1 DEF Fetches!Dispatch, Fetches!Fallback
  <2>3. Fetches!TakeTask \/ Fetches!Warm \/ Fetches!Look => fetch' \in [Fetches!Fetcher -> Stages]
    BY <2>1 DEF Fetches!TakeTask, Fetches!Warm, Fetches!Look
  <2>4. \A f : Fetches!Priced(f) \/ Fetches!Ends(f) \/ Fetches!Die(f)
                 => fetch' \in [Fetches!Fetcher -> Stages]
    BY <2>1 DEF Fetches!Priced, Fetches!Ends, Fetches!Unknown, Fetches!Store, Fetches!FetchFails,
       Fetches!Die, Fetches!AfterStore
  <2> HIDE DEF Stages
  <2> QED
    BY <2>1, <2>2, <2>3, <2>4 DEF Fetches!Next, Fetches!Open, Fetches!Close, Fetches!ListChanges,
     Fetches!Hit,
       Fetches!Miss, Fetches!BlindMiss,
       Fetches!Feed, Fetches!FeedNav, Fetches!QuoteExpires, Fetches!MarkExpires,
       Fetches!NavExpires, Fetches!DedupeExpires, Fetches!Restart, Fetches!fetchVars
<1> QED
  BY <1>1, <1>2, <1>3, <1>4, <1>5 DEF Fetches!TypeOK

\* The broker holds no more tasks than it has room for and every fetch is at one
\* of its stages.
LEMMA FetchTyped ==
  ASSUME Fetches!DataFetchAssumption
  PROVE  Fetches!Spec => []Fetches!TypeOK
<1>1. Fetches!Init => Fetches!TypeOK
  <2> SUFFICES ASSUME Fetches!Init
               PROVE  Fetches!TypeOK
    OBVIOUS
  <2>1. fetch \in [Fetches!Fetcher -> {Null, "asking", "looking", "priced", "again"}]
    BY DEF Fetches!Init
  <2>2. waiting \in 0 .. MaxQueued
    BY DEF Fetches!Init, Fetches!DataFetchAssumption
  <2>3. {quoted, nav, notFound, dedupe} \subseteq BOOLEAN
    BY DEF Fetches!Init
  <2> QED
    BY <2>1, <2>2, <2>3 DEF Fetches!Init, Fetches!TypeOK
<1>2. Fetches!TypeOK /\ [Fetches!Next]_(Fetches!fetchVars) => Fetches!TypeOK'
  BY FetchKeepsTypes
<1> QED
  BY <1>1, <1>2, PTL DEF Fetches!Spec

Adding(l, s) == {r \in Request : adding[r] # Null /\ adding[r].list = l /\ adding[r].symbol = s}

\* The rows of a symbol in a list and the POSTs that may add another are together
\* no more than there are POSTs.
RowsInv ==
  /\ items \in [List -> [Symbol -> Nat]]
  /\ \A l \in List, s \in Symbol : items[l][s] + Cardinality(Adding(l, s)) <= Cardinality(Request)

RegistryInv ==
  /\ lists \subseteq List
  /\ adding \in [Request -> {Null} \cup [list : List, symbol : Symbol]]
  /\ queue \in [Symbol -> [{0, 1} -> 0 .. MaxTasks]]
  /\ task \in [Registrar -> {Null} \cup [symbol : Symbol, market : Registry!Markets, attempt : {0, 1}]]
  /\ stocks \in [Symbol -> Registry!Markets \cup {Null}]
  /\ RowsInv

LEMMA SomePosts ==
  ASSUME Registry!RegistryAssumption
  PROVE  /\ Cardinality(Request) \in Nat
         /\ \A X \in SUBSET Request :
              /\ IsFiniteSet(X) /\ Cardinality(X) \in Nat
              /\ Cardinality(X) <= Cardinality(Request)
<1>1. IsFiniteSet(Request)
  BY DEF Registry!RegistryAssumption, Registry!IsFiniteSet, IsFiniteSet
<1> QED
  BY <1>1, FS_Subset, FS_CardinalityType

LEMMA ClassesAreMarkets ==
  ASSUME Registry!RegistryAssumption, NEW s \in Symbol, NEW info \in Told[s] \cup {Null}
  PROVE  Registry!Classify(s, info) \in Registry!Markets \cup {"AMBIGUOUS"}
<1>1. info = Null \/ info.exchange \in {"thai", "us", "other"}
  BY DEF Registry!RegistryAssumption, Registry!Infos
<1> QED
  BY <1>1 DEF Registry!Classify, Registry!Markets

LEMMA RegistryKeepsRows ==
  ASSUME Registry!RegistryAssumption, RegistryInv, [Registry!Next]_(Registry!registryVars)
  PROVE  RowsInv'
<1>1. /\ Cardinality(Request) \in Nat
      /\ \A l, s : IsFiniteSet(Adding(l, s)) /\ Cardinality(Adding(l, s)) \in Nat
                     /\ Cardinality(Adding(l, s)) <= Cardinality(Request)
  <2>1. \A l, s : Adding(l, s) \in SUBSET Request
    BY DEF Adding
  <2> QED
    BY <2>1, SomePosts
<1>2. \A l, s : IsFiniteSet(Adding(l, s)') /\ Cardinality(Adding(l, s)') \in Nat
                  /\ Cardinality(Adding(l, s)') <= Cardinality(Request)
  <2>1. \A l, s : Adding(l, s)' \in SUBSET Request
    BY DEF Adding
  <2> QED
    BY <2>1, SomePosts
<1>3. /\ items \in [List -> [Symbol -> Nat]]
      /\ \A l \in List, s \in Symbol : items[l][s] + Cardinality(Adding(l, s)) <= Cardinality(Request)
  BY DEF RegistryInv, RowsInv
<1>4. ASSUME items' = items, adding' = adding
      PROVE  RowsInv'
  BY <1>3, <1>4 DEF RowsInv, Adding
<1>5. ASSUME NEW r \in Request, NEW l \in List, NEW s \in Symbol, Registry!AddStock(r, l, s)
      PROVE  RowsInv'
  <2>1. items' = items /\ items[l][s] = 0
        /\ adding' = [adding EXCEPT ![r] = [list |-> l, symbol |-> s]]
    BY <1>5 DEF Registry!AddStock
  <2>2. ASSUME NEW k \in List, NEW t \in Symbol
        PROVE  items[k][t] + Cardinality(Adding(k, t)') <= Cardinality(Request)
    <3>1. CASE k = l /\ t = s
      BY <1>2, <2>1, <3>1
    <3>2. CASE ~(k = l /\ t = s)
      <4>1. \A q \in Request : q # r => adding'[q] = adding[q]
        BY <2>1 DEF RegistryInv
      <4>2. adding'[r].list = l /\ adding'[r].symbol = s
        BY <2>1 DEF RegistryInv
      <4>3. Adding(k, t)' \subseteq Adding(k, t)
        BY <3>2, <4>1, <4>2 DEF Adding
      <4>4. Cardinality(Adding(k, t)') <= Cardinality(Adding(k, t))
        BY <1>1, <4>3, FS_Subset
      <4>5. items[k][t] \in Nat
        BY <1>3
      <4> QED
        BY <1>1, <1>2, <1>3, <4>4, <4>5
    <3> QED
      BY <3>1, <3>2
  <2> QED
    BY <1>3, <2>1, <2>2 DEF RowsInv
<1>6. ASSUME NEW r \in Request, Registry!Commit(r)
      PROVE  RowsInv'
  <2>1. PICK l \in List, s \in Symbol : adding[r].list = l /\ adding[r].symbol = s
    BY <1>6 DEF Registry!Commit, RegistryInv
  <2>2. /\ items' = items \/ items' = [items EXCEPT ![l][s] = @ + 1]
        /\ adding[r] # Null /\ adding' = [adding EXCEPT ![r] = Null]
    BY <1>6, <2>1 DEF Registry!Commit
  <2>3. \A q \in Request : adding'[q] = IF q = r THEN Null ELSE adding[q]
    BY <2>2 DEF RegistryInv
  <2>4. ASSUME NEW k \in List, NEW t \in Symbol
        PROVE  /\ Adding(k, t)' \subseteq Adding(k, t)
               /\ r \notin Adding(k, t)'
               /\ k = l /\ t = s => r \in Adding(k, t)
    BY <2>1, <2>2, <2>3 DEF Adding
  <2>5. ASSUME NEW k \in List, NEW t \in Symbol
        PROVE  /\ Cardinality(Adding(k, t)') <= Cardinality(Adding(k, t))
               /\ k = l /\ t = s => Cardinality(Adding(k, t)') + 1 <= Cardinality(Adding(k, t))
    <3>1. Cardinality(Adding(k, t)') <= Cardinality(Adding(k, t))
      BY <1>1, <2>4, FS_Subset
    <3>2. CASE k = l /\ t = s
      <4>1. r \in Adding(k, t) /\ Adding(k, t)' \subseteq Adding(k, t) \ {r}
        BY <2>4, <3>2
      <4>2. /\ IsFiniteSet(Adding(k, t) \ {r})
            /\ Cardinality(Adding(k, t) \ {r}) = Cardinality(Adding(k, t)) - 1
        BY <1>1, <4>1, FS_RemoveElement
      <4>3. Cardinality(Adding(k, t)') <= Cardinality(Adding(k, t) \ {r})
        BY <4>1, <4>2, FS_Subset
      <4> QED
        BY <1>1, <1>2, <4>2, <4>3
    <3> QED
      BY <3>1, <3>2
  <2>6. items' \in [List -> [Symbol -> Nat]]
        /\ \A k \in List, t \in Symbol :
             \/ items'[k][t] = items[k][t]
             \/ k = l /\ t = s /\ items'[k][t] = items[k][t] + 1
    <3>1. CASE items' = items
      BY <1>3, <3>1
    <3>2. CASE items' = [items EXCEPT ![l][s] = @ + 1]
      <4>1. PICK n \in Nat : n = items[l][s]
        BY <1>3
      <4>2. items' = [items EXCEPT ![l][s] = n + 1] /\ n + 1 \in Nat
        BY <3>2, <4>1
      <4> QED
        BY <1>3, <4>1, <4>2
    <3> QED
      BY <2>2, <3>1, <3>2
  <2>7. ASSUME NEW k \in List, NEW t \in Symbol
        PROVE  items'[k][t] + Cardinality(Adding(k, t)') <= Cardinality(Request)
    <3>1. items[k][t] \in Nat
      BY <1>3
    <3> QED
      BY <1>1, <1>2, <1>3, <2>5, <2>6, <3>1
  <2> QED
    BY <2>6, <2>7 DEF RowsInv
<1>7. ASSUME NEW l \in List, adding' = adding, items' \in [List -> [Symbol -> Nat]],
             \A k \in List, t \in Symbol : items'[k][t] = items[k][t] \/ items'[k][t] = 0
      PROVE  RowsInv'
  <2>1. ASSUME NEW k \in List, NEW t \in Symbol
        PROVE  items'[k][t] + Cardinality(Adding(k, t)') <= Cardinality(Request)
    <3>1. Adding(k, t)' = Adding(k, t)
      BY <1>7 DEF Adding
    <3>2. items[k][t] \in Nat
      BY <1>3
    <3> QED
      BY <1>1, <1>3, <1>7, <3>1, <3>2
  <2> QED
    BY <1>7, <2>1 DEF RowsInv
<1>8. ASSUME NEW l \in List, Registry!DeleteList(l)
      PROVE  RowsInv'
  <2>1. adding' = adding /\ items' = [items EXCEPT ![l] = [s \in Symbol |-> 0]]
    BY <1>8 DEF Registry!DeleteList
  <2> QED
    BY <1>3, <1>7, <2>1
<1>9. ASSUME NEW l \in List, NEW s \in Symbol, Registry!RemoveStock(l, s)
      PROVE  RowsInv'
  <2>1. adding' = adding /\ items' = [items EXCEPT ![l][s] = 0]
    BY <1>9 DEF Registry!RemoveStock
  <2> QED
    BY <1>3, <1>7, <2>1
<1> QED
  BY <1>4, <1>5, <1>6, <1>8, <1>9 DEF Registry!Next, Registry!CreateList, Registry!Register,
     Registry!Insert, Registry!Fail, Registry!Scan, Registry!Populate, Registry!registryVars

LEMMA RegistryKeepsTypes ==
  ASSUME Registry!RegistryAssumption, RegistryInv, [Registry!Next]_(Registry!registryVars)
  PROVE  RegistryInv'
<1> DEFINE Posts == {Null} \cup [list : List, symbol : Symbol]
           Tasks == {Null} \cup [symbol : Symbol, market : Registry!Markets, attempt : {0, 1}]
           Queues == [Symbol -> [{0, 1} -> 0 .. MaxTasks]]
           Rows == [Symbol -> Registry!Markets \cup {Null}]
<1>1. /\ adding \in [Request -> Posts] /\ queue \in Queues /\ task \in [Registrar -> Tasks]
      /\ stocks \in Rows /\ lists \subseteq List
  BY DEF RegistryInv
<1>2. lists' \subseteq List
  BY <1>1 DEF Registry!Next, Registry!CreateList, Registry!DeleteList, Registry!AddStock,
     Registry!Commit, Registry!RemoveStock, Registry!Register, Registry!Insert, Registry!Fail,
     Registry!Scan, Registry!Populate, Registry!registryVars
<1>3. adding' \in [Request -> Posts]
  <2>1. ASSUME NEW r \in Request, NEW l \in List, NEW s \in Symbol, Registry!AddStock(r, l, s)
        PROVE  adding' \in [Request -> Posts]
    <3>1. [list |-> l, symbol |-> s] \in Posts
      OBVIOUS
    <3> HIDE DEF Posts
    <3> QED
      BY <1>1, <2>1, <3>1 DEF Registry!AddStock
  <2>2. ASSUME NEW r \in Request, Registry!Commit(r)
        PROVE  adding' \in [Request -> Posts]
    BY <1>1, <2>2 DEF Registry!Commit
  <2>3. CASE UNCHANGED adding
    BY <1>1, <2>3
  <2> HIDE DEF Posts
  <2> QED
    BY <2>1, <2>2, <2>3 DEF Registry!Next, Registry!CreateList, Registry!DeleteList,
       Registry!RemoveStock, Registry!Register,
       Registry!Insert, Registry!Fail, Registry!Scan, Registry!Populate, Registry!registryVars
<1>4. \A S : Registry!Send(queue, S) \in Queues
  <2> SUFFICES ASSUME NEW S, NEW s \in Symbol
               PROVE  Registry!Send(queue, S)[s] \in [{0, 1} -> 0 .. MaxTasks]
    BY DEF Registry!Send
  <2>1. PICK n \in 0 .. MaxTasks : n = queue[s][0]
    BY <1>1
  <2>2. n < MaxTasks => n + 1 \in 0 .. MaxTasks
    BY DEF Registry!RegistryAssumption
  <2>3. queue[s] \in [{0, 1} -> 0 .. MaxTasks]
    BY <1>1
  <2> QED
    BY <2>1, <2>2, <2>3 DEF Registry!Send
<1>5. queue' \in Queues
  <2>1. ASSUME NEW w \in Registrar, NEW s \in Symbol, NEW n \in {0, 1}, Registry!Register(w, s, n)
        PROVE  queue' \in Queues
    <3>1. PICK k \in 0 .. MaxTasks : k = queue[s][n]
      BY <1>1
    <3>2. k - 1 \in 0 .. MaxTasks
      BY <2>1, <3>1 DEF Registry!Register, Registry!RegistryAssumption
    <3>3. queue' = [queue EXCEPT ![s][n] = k - 1]
      BY <2>1, <3>1 DEF Registry!Register
    <3> QED
      BY <1>1, <3>2, <3>3
  <2>2. ASSUME NEW w \in Registrar, Registry!Fail(w)
        PROVE  queue' \in Queues
    <3>1. PICK s \in Symbol : s = task[w].symbol
      BY <1>1, <2>2 DEF Registry!Fail
    <3>2. PICK k \in 0 .. MaxTasks : k = queue[s][1]
      BY <1>1
    <3>3. k < MaxTasks => k + 1 \in 0 .. MaxTasks
      BY DEF Registry!RegistryAssumption
    <3>4. queue' = queue \/ (k < MaxTasks /\ queue' = [queue EXCEPT ![s][1] = k + 1])
      BY <2>2, <3>1, <3>2 DEF Registry!Fail
    <3> QED
      BY <1>1, <3>3, <3>4
  <2>3. ASSUME NEW r \in Request, NEW l \in List, NEW s \in Symbol, Registry!AddStock(r, l, s)
        PROVE  queue' \in Queues
    BY <1>1, <1>4, <2>3 DEF Registry!AddStock
  <2>4. CASE Registry!Scan
    BY <1>4, <2>4 DEF Registry!Scan
  <2>5. CASE UNCHANGED queue
    BY <1>1, <2>5
  <2> HIDE DEF Queues
  <2> QED
    BY <2>1, <2>2, <2>3, <2>4, <2>5 DEF Registry!Next, Registry!CreateList, Registry!DeleteList,
       Registry!Commit, Registry!RemoveStock,
       Registry!Insert, Registry!Populate, Registry!registryVars
<1>6. task' \in [Registrar -> Tasks]
  <2>1. ASSUME NEW w \in Registrar, NEW s \in Symbol, NEW n \in {0, 1}, Registry!Register(w, s, n)
        PROVE  task' \in [Registrar -> Tasks]
    <3>1. CASE task' = task
      BY <1>1, <3>1
    <3>2. PICK sym \in Symbol : sym = Stripped[s]
      BY DEF Registry!RegistryAssumption
    <3>3. CASE stocks[sym] = Null
      <4>1. PICK info \in Told[sym] \cup {Null} :
              task' = [task EXCEPT ![w] =
                         IF Registry!Classify(sym, info) = "AMBIGUOUS" THEN Null
                         ELSE [symbol |-> s, market |-> Registry!Classify(sym, info), attempt |-> n]]
        BY <2>1, <3>2, <3>3 DEF Registry!Register
      <4>2. PICK m : m = Registry!Classify(sym, info)
        OBVIOUS
      <4>3. m \in Registry!Markets \cup {"AMBIGUOUS"}
        BY <4>2, ClassesAreMarkets
      <4>4. m # "AMBIGUOUS" => [symbol |-> s, market |-> m, attempt |-> n] \in Tasks
        BY <4>3
      <4>5. Null \in Tasks
        OBVIOUS
      <4>6. task' = [task EXCEPT ![w] = IF m = "AMBIGUOUS" THEN Null
                                        ELSE [symbol |-> s, market |-> m, attempt |-> n]]
        BY <4>1, <4>2
      <4> HIDE DEF Tasks
      <4> QED
        BY <1>1, <4>4, <4>5, <4>6
    <3> QED
      BY <2>1, <3>1, <3>2, <3>3 DEF Registry!Register
  <2>2. ASSUME NEW w \in Registrar, Registry!Insert(w) \/ Registry!Fail(w)
        PROVE  task' \in [Registrar -> Tasks]
    BY <1>1, <2>2 DEF Registry!Insert, Registry!Fail
  <2>3. CASE UNCHANGED task
    BY <1>1, <2>3
  <2> HIDE DEF Tasks
  <2> QED
    BY <2>1, <2>2, <2>3 DEF Registry!Next, Registry!CreateList, Registry!DeleteList,
       Registry!AddStock, Registry!Commit, Registry!RemoveStock,
       Registry!Scan, Registry!Populate, Registry!registryVars
<1>7. stocks' \in Rows
  <2>1. \A s \in Symbol, m \in Registry!Markets : Registry!Stored(s, m) \in Rows
    BY <1>1 DEF Registry!Stored
  <2>2. \A w \in Registrar :
          task[w] # Null => /\ Stripped[task[w].symbol] \in Symbol
                            /\ task[w].market \in Registry!Markets
    BY <1>1 DEF Registry!RegistryAssumption
  <2>3. \A s \in DOMAIN Listed : s \in Symbol /\ Listed[s] \in Registry!Markets
    BY DEF Registry!RegistryAssumption
  <2>4. ASSUME NEW w \in Registrar, Registry!Insert(w)
        PROVE  stocks' \in Rows
    BY <2>1, <2>2, <2>4 DEF Registry!Insert
  <2>5. ASSUME NEW s \in Symbol, Registry!Populate(s)
        PROVE  stocks' \in Rows
    BY <2>1, <2>3, <2>5 DEF Registry!Populate
  <2>6. CASE UNCHANGED stocks
    BY <1>1, <2>6
  <2> HIDE DEF Rows
  <2> QED
    BY <2>4, <2>5, <2>6 DEF Registry!Next, Registry!CreateList, Registry!DeleteList,
       Registry!AddStock, Registry!Commit, Registry!RemoveStock, Registry!Register,
       Registry!Fail, Registry!Scan, Registry!registryVars
<1>8. RowsInv'
  BY RegistryKeepsRows
<1> QED
  BY <1>2, <1>3, <1>5, <1>6, <1>7, <1>8 DEF RegistryInv

\* A list never has more rows of a symbol than there are POSTs under way at once;
\* a symbol's market is one of those the classification knows.
THEOREM RegistryTyped ==
  ASSUME Registry!RegistryAssumption
  PROVE  Registry!Spec => []Registry!TypeOK
<1>1. Registry!Init => RegistryInv
  <2> SUFFICES ASSUME Registry!Init
               PROVE  RegistryInv
    OBVIOUS
  <2>1. \A l \in List, s \in Symbol : items[l][s] = 0
    BY DEF Registry!Init
  <2>2. RowsInv
    <3>1. \A l, s : Adding(l, s) \in SUBSET Request
      BY DEF Adding
    <3> QED
      BY <2>1, <3>1, SomePosts DEF RowsInv, Registry!Init
  <2> QED
    BY <2>2 DEF RegistryInv, Registry!Init, Registry!RegistryAssumption
<1>2. RegistryInv /\ [Registry!Next]_(Registry!registryVars) => RegistryInv'
  BY RegistryKeepsTypes
<1>3. RegistryInv => Registry!TypeOK
  <2> SUFFICES ASSUME RegistryInv
               PROVE  Registry!TypeOK
    OBVIOUS
  <2>1. PICK k \in Nat : k = Cardinality(Request)
    BY SomePosts
  <2>2. ASSUME NEW l \in List, NEW s \in Symbol
        PROVE  items[l][s] \in 0 .. k
    <3>1. items[l][s] \in Nat /\ items[l][s] + Cardinality(Adding(l, s)) <= k
      BY <2>1 DEF RegistryInv, RowsInv
    <3>2. Cardinality(Adding(l, s)) \in Nat
      <4>1. Adding(l, s) \in SUBSET Request
        BY DEF Adding
      <4> QED
        BY <4>1, SomePosts
    <3> QED
      BY <3>1, <3>2
  <2>3. items \in [List -> [Symbol -> 0 .. k]]
    BY <2>2 DEF RegistryInv, RowsInv
  <2>4. Registry!Cardinality(Request) = k
    BY <2>1 DEF Registry!Cardinality, Cardinality
  <2> QED
    BY <2>3, <2>4 DEF RegistryInv, Registry!TypeOK
<1> QED
  BY <1>1, <1>2, <1>3, PTL DEF Registry!Spec

-----------------------------------------------------------------------------
(* Side by side.  A step of Feeds is a step of one component and leaves the *)
(* variables of every other as they are.                                   *)

LEMMA RotationRuns == FeedsSpec => R!Spec
<1>1. FeedsInit => R!Init
  BY DEF FeedsInit
<1>2. [FeedsNext]_feedsVars => [R!Next]_R!rotationVars
  BY DEF FeedsNext, At, Elsewhere, feedsVars, rotationVars, R!rotationVars
<1> QED
  BY <1>1, <1>2, PTL DEF FeedsSpec, R!Spec

LEMMA LevelsRun == FeedsSpec => L!Spec
<1>1. FeedsInit => L!Init
  BY DEF FeedsInit
<1>2. [FeedsNext]_feedsVars => [L!Next]_L!levelVars
  BY DEF FeedsNext, At, Elsewhere, feedsVars, levelVars, L!levelVars, L!Next
<1> QED
  BY <1>1, <1>2, PTL DEF FeedsSpec, L!Spec

LEMMA BarsRun == FeedsSpec => B!Spec
<1>1. FeedsInit => B!Init
  BY DEF FeedsInit
<1>2. [FeedsNext]_feedsVars => [B!Next]_B!barVars
  BY DEF FeedsNext, At, Elsewhere, feedsVars, barVars, B!barVars
<1> QED
  BY <1>1, <1>2, PTL DEF FeedsSpec, B!Spec

LEMMA NavRuns == FeedsSpec => N!Spec
<1>1. FeedsInit => N!Init
  BY DEF FeedsInit
<1>2. [FeedsNext]_feedsVars => [N!Next]_N!navVars
  BY DEF FeedsNext, At, Elsewhere, feedsVars, navVars, N!navVars
<1> QED
  BY <1>1, <1>2, PTL DEF FeedsSpec, N!Spec

\* Of the components side by side: no writer of daily bars, prefetcher, on-demand
\* worker, fallback or seed_history, leaves a row without prices.
THEOREM RowsHavePrices == FeedsSpec => []StoredBarsHavePrices
<1>1. B!Spec => []B!StoredBarsHavePrices
  BY NoBlankRow, FeedsAssumption DEF FeedsAssumption
<1> QED
  BY <1>1, BarsRun, PTL DEF StoredBarsHavePrices

\* Of the components side by side: a run of sr_auto_pivot that no other commit
\* interrupts puts every side right, and such a request of sr_levels moves the
\* user's stop to the new mark and leaves one.
THEOREM LevelsStayRight == FeedsSpec => LevelsSetRight
<1>1. L!Spec => L!PivotsSetRight
  BY PivotsStayRight, FeedsAssumption DEF FeedsAssumption
<1>2. L!Spec => L!StopIsMoved
  BY StopStaysOne, FeedsAssumption DEF FeedsAssumption
<1> QED
  BY <1>1, <1>2, LevelsRun, PTL DEF LevelsSetRight

\* Of the components side by side: the NAV fund_fetcher keeps is the fund's own
\* unless that run's map lacked it, and does not go back to an earlier date while
\* it comes from one source.
THEOREM NavStaysTheFunds == FeedsSpec => NavIsTheFunds
<1>1. N!Spec => []N!OwnNav
  BY NavStaysOwn, FeedsAssumption DEF FeedsAssumption
<1>2. N!Spec => N!GoesForward
  BY NavGoesForward, FeedsAssumption DEF FeedsAssumption
<1>3. []N!OwnNav => [][N!OwnNav']_navVars
  BY PTL
<1> QED
  BY <1>1, <1>2, <1>3, NavRuns, PTL DEF NavIsTheFunds

\* Of the components side by side: the runs of one process pass over no open
\* market for a whole round.
THEOREM RoundsStayShort == FeedsSpec => [][R!RoundIsShort']_rotationVars
<1>1. R!Spec => []R!RoundIsShort
  BY RoundStaysShort, FeedsAssumption DEF FeedsAssumption
<1>2. []R!RoundIsShort => [][R!RoundIsShort']_rotationVars
  BY PTL
<1> QED
  BY <1>1, <1>2, RotationRuns, PTL

LEMMA BacktestRuns == FeedsSpec => T!Spec
<1>1. FeedsInit => T!Init
  BY DEF FeedsInit
<1>2. [FeedsNext]_feedsVars => [T!Next]_series
  BY DEF FeedsNext, At, Elsewhere, feedsVars
<1> QED
  BY <1>1, <1>2, PTL DEF FeedsSpec, T!Spec

\* Of the components side by side: no strategy trades on what it cannot know yet,
\* and every report agrees with itself.
THEOREM BacktestStaysSound == FeedsSpec => BacktestIsSound
<1>1. T!Spec => T!NoHindsight
  BY TradesNeverChange, FeedsAssumption DEF FeedsAssumption
<1>2. T!Spec => T!ReportAddsUp
  BY EveryReportAddsUp, FeedsAssumption DEF FeedsAssumption
<1> QED
  BY <1>1, <1>2, BacktestRuns, PTL DEF BacktestIsSound

LEMMA BroadcastRuns == FeedsSpec => Spec
<1>1. FeedsInit => Init
  BY DEF FeedsInit
<1>2. [FeedsNext]_feedsVars => [Next]_wsVars
  BY DEF FeedsNext, At, Elsewhere, feedsVars, wsVars
<1> QED
  BY <1>1, <1>2, PTL DEF FeedsSpec, Spec

LEMMA RegistryRuns == FeedsSpec => Registry!Spec
<1>1. FeedsInit => Registry!Init
  BY DEF FeedsInit
<1>2. [FeedsNext]_feedsVars => [Registry!Next]_(Registry!registryVars)
  BY DEF FeedsNext, At, Elsewhere, feedsVars, registryVars, Registry!registryVars
<1> QED
  BY <1>1, <1>2, PTL DEF FeedsSpec, Registry!Spec

LEMMA FetchesRun == FeedsSpec => Fetches!Spec
<1>1. FeedsInit => Fetches!Init
  BY DEF FeedsInit
<1>2. [FeedsNext]_feedsVars => [Fetches!Next]_(Fetches!fetchVars)
  BY DEF FeedsNext, At, Elsewhere, feedsVars, fetchVars, Fetches!fetchVars
<1> QED
  BY <1>1, <1>2, PTL DEF FeedsSpec, Fetches!Spec

\* Of the components side by side: a dispatch that ends has passed over nobody the
\* message was for, unless the registry changed size under a price (_broadcast).
THEOREM FeedsPassNobodyOver == FeedsSpec => NobodyIsPassedOver
BY BroadcastRuns, NobodyPassedOver, PTL

\* Of the components side by side: every part keeps its types, and what those say
\* of it beyond that, such as: a list has no more rows of a symbol than there are
\* POSTs (add_stock), what a run of sr_auto_pivot computes is on a side, among the
\* TopN and has a price, the NAV fund_fetcher keeps is a registered project's and
\* of no day to come.
THEOREM FeedsTyped == FeedsSpec => []AllTypes
<1>1. Spec => []TypeOK
  BY TypeCorrect
<1>2. R!Spec => []R!TypeOK
  BY RotationTyped, FeedsAssumption DEF FeedsAssumption
<1>3. Registry!Spec => []Registry!TypeOK
  BY RegistryTyped, FeedsAssumption DEF FeedsAssumption
<1>4. Fetches!Spec => []Fetches!TypeOK
  BY FetchTyped, FeedsAssumption DEF FeedsAssumption
<1>5. L!Spec => []L!TypeOK
  BY LevelsTyped, FeedsAssumption DEF FeedsAssumption
<1>6. B!Spec => []B!TypeOK
  BY BarsTyped, FeedsAssumption DEF FeedsAssumption
<1>7. N!Spec => []N!TypeOK
  BY NavTyped, FeedsAssumption DEF FeedsAssumption
<1>8. T!Spec => []T!TypeOK
  BY BacktestTyped, FeedsAssumption DEF FeedsAssumption
<1> QED
  BY <1>1, <1>2, <1>3, <1>4, <1>5, <1>6, <1>7, <1>8, BroadcastRuns, RotationRuns, RegistryRuns,
     FetchesRun, LevelsRun, BarsRun, NavRuns, BacktestRuns, PTL DEF AllTypes
=============================================================================
