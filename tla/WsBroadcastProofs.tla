-------------------------- MODULE WsBroadcastProofs --------------------------
(***************************************************************************)
(* Theorems about WsBroadcast, for any number of connections and users.    *)
(***************************************************************************)
EXTENDS WsBroadcast, FiniteSetTheorems, TLAPS

\* A socket that has not connected is nowhere.
Fresh ==
  \A w \in Socket : conn[w] = "new" =>
    /\ w \notin registry
    /\ sending # Null => w \notin sending.due

\* What a walk over the live dict has still to find is ahead of it.
AheadOfWalk ==
  sending # Null /\ Walking => \A w \in sending.due \cap registry : w > sending.at

\* The inductive invariant.
Inv == TypeOK /\ Fresh /\ AheadOfWalk

-----------------------------------------------------------------------------
(* The dispatch record.                                                    *)

LEMMA RegistrySize == ASSUME registry \in SUBSET Socket
                      PROVE  Cardinality(registry) \in 0 .. Connections
<1>1. IsFiniteSet(Socket) /\ Cardinality(Socket) = Connections
  BY FS_Interval, BroadcastAssumption DEF Socket
<1>2. IsFiniteSet(registry) /\ Cardinality(registry) <= Connections
  BY <1>1, FS_Subset
<1> QED
  BY <1>2, FS_CardinalityType, BroadcastAssumption

LEMMA VisitedFields ==
  ASSUME sending \in Dispatch, NEW w \in Socket
  PROVE  /\ Visited(w) \in Dispatch
         /\ Visited(w).msg = sending.msg
         /\ Visited(w).due = sending.due \ {w}
         /\ Visited(w).at = IF Walking THEN w ELSE sending.at
         /\ Visited(w).failed = sending.failed
<1> DEFINE a == IF Walking THEN w ELSE sending.at
<1>1. a \in 0 .. Connections
  BY BroadcastAssumption DEF Dispatch, Socket
<1>2. sending.due \ {w} \in SUBSET Socket
  BY DEF Dispatch
<1>3. Visited(w) = [sending EXCEPT !.at = a, !.due = @ \ {w}]
  BY DEF Visited
<1> HIDE DEF a
<1>4. /\ Visited(w) \in Dispatch
      /\ Visited(w).msg = sending.msg
      /\ Visited(w).due = sending.due \ {w}
      /\ Visited(w).at = a
      /\ Visited(w).failed = sending.failed
  BY <1>1, <1>2, <1>3 DEF Dispatch
<1> QED
  BY <1>4 DEF a

LEMMA FailedFields ==
  ASSUME sending \in Dispatch, NEW w \in Socket
  PROVE  /\ Failed(w) \in Dispatch
         /\ Failed(w).msg = sending.msg
         /\ Failed(w).due = sending.due \ {w}
         /\ Failed(w).at = IF Walking THEN w ELSE sending.at
<1> DEFINE v == Visited(w)
<1>1. /\ v \in Dispatch
      /\ v.msg = sending.msg
      /\ v.due = sending.due \ {w}
      /\ v.at = IF Walking THEN w ELSE sending.at
  BY VisitedFields
<1>2. Failed(w) = [v EXCEPT !.failed = @ \cup {w}]
  BY DEF Failed
<1> HIDE DEF v
<1>3. /\ Failed(w) \in Dispatch
      /\ Failed(w).msg = v.msg
      /\ Failed(w).due = v.due
      /\ Failed(w).at = v.at
  BY <1>1, <1>2 DEF Dispatch
<1> QED
  BY <1>1, <1>3

LEMMA AddresseesRegistered ==
  ASSUME TypeOK, NEW m \in Message
  PROVE  Addressees(m) \subseteq registry
<1>1. m.kind \in {"price", "ready", "alert"}
  BY DEF Message
<1>2. CASE m.kind = "price"
  BY <1>2 DEF Addressees, TypeOK
<1>3. CASE m.kind = "ready"
  BY <1>3 DEF Addressees
<1>4. CASE m.kind = "alert"
  BY <1>4 DEF Addressees
<1> QED
  BY <1>1, <1>2, <1>3, <1>4

-----------------------------------------------------------------------------
(* What keeps the invariant: first the steps of the handlers, which leave  *)
(* the dispatch alone.                                                     *)

LEMMA ConnectKeeps ==
  ASSUME Inv, NEW w \in Socket, Connect(w)
  PROVE  Inv'
<1> USE DEF Inv, Connect
<1>1. TypeOK'
  BY DEF TypeOK
<1>2. Fresh'
  BY DEF Fresh, TypeOK
<1>3. AheadOfWalk'
  <2>1. sending # Null => w \notin sending.due
    BY DEF Fresh
  <2> QED
    BY <2>1 DEF AheadOfWalk, Walking
<1> QED
  BY <1>1, <1>2, <1>3

LEMMA HandlerKeeps ==
  ASSUME Inv, NEW w \in Socket,
         \/ Subscribe(w) \/ Unsubscribe(w) \/ Leave(w) \/ Notice(w) \/ HandlerRaises(w)
  PROVE  Inv'
<1> USE DEF Inv
<1>1. /\ sending' = sending
      /\ registry' \subseteq registry
      /\ \A v \in Socket : conn'[v] = "new" => conn[v] = "new"
  BY DEF Subscribe, Unsubscribe, Leave, Notice, HandlerRaises, TypeOK
<1>2. TypeOK'
  <2>1. /\ conn' \in [Socket -> {"new", "open", "lost", "dead", "shut"}]
        /\ wants' \subseteq registry'
    BY DEF Subscribe, Unsubscribe, Leave, Notice, HandlerRaises, TypeOK
  <2> QED
    BY <1>1, <2>1 DEF TypeOK
<1>3. Fresh'
  BY <1>1 DEF Fresh
<1>4. AheadOfWalk'
  BY <1>1 DEF AheadOfWalk, Walking
<1> QED
  BY <1>2, <1>3, <1>4

-----------------------------------------------------------------------------
(* The broadcaster.                                                        *)

LEMMA TakeKeeps ==
  ASSUME Inv, NEW m \in Message, Take(m)
  PROVE  Inv'
<1> USE DEF Inv
<1> DEFINE n == IF m.kind = "price" THEN Cardinality(registry) ELSE 0
<1>1. Addressees(m) \subseteq registry /\ registry \in SUBSET Socket
  BY AddresseesRegistered DEF TypeOK
<1>2. n \in 0 .. Connections
  BY <1>1, RegistrySize, BroadcastAssumption
<1>3. sending' = [msg |-> m, due |-> Addressees(m), failed |-> {}, at |-> 0, size |-> n]
  BY DEF Take
<1>4. UNCHANGED <<conn, registry, wants>>
  BY DEF Take
<1> HIDE DEF n
<1>5. sending' \in Dispatch /\ sending'.due = Addressees(m) /\ sending'.at = 0
  BY <1>1, <1>2, <1>3, BroadcastAssumption DEF Dispatch
<1>6. TypeOK'
  BY <1>4, <1>5 DEF TypeOK
<1>7. Fresh'
  BY <1>1, <1>4, <1>5 DEF Fresh
<1>8. AheadOfWalk'
  BY <1>1, <1>4, <1>5, BroadcastAssumption DEF AheadOfWalk, Socket
<1> QED
  BY <1>6, <1>7, <1>8

\* A turn of the loop goes past one socket, which is the first one of a walk.
LEMMA TurnKeeps ==
  ASSUME Inv, NEW w \in Socket, Send(w) \/ PassOver(w)
  PROVE  Inv'
<1> USE DEF Inv
<1>1. Turn(w) /\ UNCHANGED <<conn, registry, wants>>
  BY DEF Send, PassOver
<1>2. sending # Null /\ sending \in Dispatch
  BY <1>1 DEF Turn, TypeOK
<1>3. sending' = Visited(w) \/ sending' = Failed(w)
  BY DEF Send, PassOver
<1>4. /\ sending' \in Dispatch
      /\ sending'.msg = sending.msg
      /\ sending'.due = sending.due \ {w}
      /\ sending'.at = IF Walking THEN w ELSE sending.at
  BY <1>2, <1>3, VisitedFields, FailedFields
<1>5. TypeOK'
  BY <1>1, <1>4 DEF TypeOK
<1>6. Fresh'
  BY <1>1, <1>2, <1>4 DEF Fresh
<1>7. AheadOfWalk'
  <2> SUFFICES ASSUME Walking', NEW v \in (sending.due \ {w}) \cap registry
               PROVE  v > sending'.at
    BY <1>1, <1>4 DEF AheadOfWalk
  <2>1. Walking
    BY <1>4 DEF Walking
  <2>2. v \in Ahead
    BY <1>2, <2>1 DEF AheadOfWalk, Ahead
  <2>3. w <= v /\ w # v
    BY <1>1, <2>1, <2>2 DEF Turn
  <2>4. v \in Socket
    BY DEF TypeOK
  <2>5. v \in Int /\ w \in Int
    BY <2>4, BroadcastAssumption DEF Socket
  <2> QED
    BY <1>4, <2>1, <2>3, <2>5
<1> QED
  BY <1>5, <1>6, <1>7

LEMMA EndKeeps ==
  ASSUME Inv, Finish \/ Abort
  PROVE  Inv'
<1>1. sending' = Null /\ UNCHANGED conn /\ registry' \subseteq registry
  BY DEF Finish, Abort
<1>2. wants' \subseteq registry'
  BY DEF Finish, Abort, Inv, TypeOK
<1> QED
  BY <1>1, <1>2 DEF Inv, TypeOK, Fresh, AheadOfWalk

THEOREM Invariant == Spec => []Inv
<1>1. Init => Inv
  BY DEF Init, Inv, TypeOK, Fresh, AheadOfWalk
<1>2. Inv /\ [Next]_wsVars => Inv'
  <2> SUFFICES ASSUME Inv, [Next]_wsVars
               PROVE  Inv'
    OBVIOUS
  <2>1. CASE UNCHANGED wsVars
    BY <2>1 DEF wsVars, Inv, TypeOK, Fresh, AheadOfWalk, Walking
  <2>2. ASSUME NEW w \in Socket, Handler(w)
        PROVE  Inv'
    BY <2>2, ConnectKeeps, HandlerKeeps DEF Handler
  <2>3. ASSUME NEW m \in Message, Take(m)
        PROVE  Inv'
    BY <2>3, TakeKeeps
  <2>4. CASE Loop
    BY <2>4, TurnKeeps, EndKeeps DEF Loop
  <2> QED
    BY <2>1, <2>2, <2>3, <2>4 DEF Next
<1> QED
  BY <1>1, <1>2, PTL DEF Spec

-----------------------------------------------------------------------------
\* The registry and the dispatch keep their types whatever connects, leaves or
\* fails.
THEOREM TypeCorrect == Spec => []TypeOK
<1>1. Inv => TypeOK
  BY DEF Inv
<1> QED
  BY <1>1, Invariant, PTL

\* With however many connections: a dispatch that comes to its end has reached,
\* found dead or seen off everyone the message was for, unless the registry
\* changed size under a price broadcast.
THEOREM NobodyPassedOver == Spec => NobodyIsPassedOver
<1>1. ASSUME Inv, Next
      PROVE  sending # Null /\ sending' = Null => Changed \/ sending.due \cap registry = {}
  <2> SUFFICES ASSUME sending # Null, sending' = Null, ~Changed
               PROVE  sending.due \cap registry = {}
    OBVIOUS
  <2>1. Finish
    <3>1. sending \in Dispatch
      BY <1>1 DEF Inv, TypeOK
    <3>2. \A w \in Socket : ~Send(w) /\ ~PassOver(w)
      BY <3>1, VisitedFields, FailedFields, BroadcastAssumption DEF Send, PassOver
    <3>3. \A w \in Socket : ~Handler(w)
      BY DEF Handler, Connect, Subscribe, Unsubscribe, Leave, Notice, HandlerRaises
    <3>4. \A m \in Message : ~Take(m)
      BY DEF Take
    <3>5. ~Abort
      BY DEF Abort
    <3> QED
      BY <1>1, <3>2, <3>3, <3>4, <3>5 DEF Next, Loop
  <2>2. Ahead = {}
    BY <2>1 DEF Finish
  <2>3. CASE Walking
    BY <1>1, <2>2, <2>3 DEF Ahead, Inv, AheadOfWalk
  <2>4. CASE ~Walking
    BY <2>2, <2>4 DEF Ahead
  <2> QED
    BY <2>3, <2>4
<1>2. Inv /\ [Next]_wsVars =>
        [sending # Null /\ sending' = Null => Changed \/ sending.due \cap registry = {}]_wsVars
  BY <1>1
<1> QED
  BY <1>2, Invariant, PTL DEF Spec, NobodyIsPassedOver
=============================================================================
