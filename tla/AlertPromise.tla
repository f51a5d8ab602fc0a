---------------------------- MODULE AlertPromise ----------------------------
(***************************************************************************)
(* What the alert checker promises a user, apart from how: an alert fires  *)
(* at most once per cooldown, never twice on the same data, and each fire  *)
(* is notified by at most one call, and only after it happened.            *)
(***************************************************************************)
EXTENDS Integers, Sequences

CONSTANTS Alert, Time, Cooldown, Null

VARIABLES fires, sent

vars == <<fires, sent>>

Stamp == Time \cup {Null}
FireRecord == [at : Time, data : Stamp, date : Stamp]

Init ==
  /\ fires = [a \in Alert |-> <<>>]
  /\ sent = [a \in Alert |-> {}]

Fire(a, f) ==
  /\ \A i \in DOMAIN fires[a] :
       /\ fires[a][i].at + Cooldown <= f.at
       /\ fires[a][i].data # Null /\ f.data # Null => fires[a][i].data < f.data
  /\ fires' = [fires EXCEPT ![a] = Append(@, f)]
  /\ UNCHANGED sent

Deliver(a, n) ==
  /\ n \in DOMAIN fires[a]
  /\ n \notin sent[a]
  /\ sent' = [sent EXCEPT ![a] = @ \cup {n}]
  /\ UNCHANGED fires

Next ==
  \E a \in Alert :
    \/ fires'[a] # fires[a] /\ \E f \in FireRecord : Fire(a, f)
    \/ \E n \in DOMAIN fires[a] : Deliver(a, n)

Spec == Init /\ [][Next]_vars

\* Two fires of an alert are a cooldown apart.
FiresSpaced ==
  \A a \in Alert : \A i, j \in DOMAIN fires[a] :
    i < j => fires[a][i].at + Cooldown <= fires[a][j].at

\* No two fires rest on data of the same or an older as-of.
DataFiresOnce ==
  \A a \in Alert : \A i, j \in DOMAIN fires[a] :
    i < j => \/ fires[a][i].data = Null
             \/ fires[a][j].data = Null
             \/ fires[a][i].data < fires[a][j].data
=============================================================================
