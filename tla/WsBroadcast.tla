---------------------------- MODULE WsBroadcast ----------------------------
(***************************************************************************)
(* The WebSocket side of backend/main.py: the connection registry, the     *)
(* /api/ws/prices handler of each socket, and the one task that takes the  *)
(* messages workers publish on Redis and sends them on.  Everything runs   *)
(* on one event loop, so a step lasts from one await to the next: the      *)
(* registry can change under a broadcast between two of its sends, never   *)
(* inside one of its own statements.                                       *)
(*                                                                         *)
(* Connections are numbered in the order they are registered, which is the *)
(* order in which a Python dict yields them.  A WebSocket object is never  *)
(* used twice: a client that comes back is another connection.             *)
(***************************************************************************)
EXTENDS Integers, FiniteSets, Sequences

CONSTANTS
  Connections,    \* how many connections a behaviour opens
  Users,
  Token,          \* the user of each connection's handshake token
  Null

Socket == 1 .. Connections

\* A published message: a price of the one symbol, a data_ready, or an
\* alert_triggered with its user (Null: the publisher left user_id out).
Message == {[kind |-> "price", user |-> Null], [kind |-> "ready", user |-> Null]}
             \cup [kind : {"alert"}, user : Users \cup {Null}]

\* A dispatch under way: whom the message is still for, whose send failed, and,
\* over the live dict, the socket it is at and how many there were.
Dispatch == [msg : Message, due : SUBSET Socket, failed : SUBSET Socket,
             at : 0 .. Connections, size : 0 .. Connections]

ASSUME BroadcastAssumption ==
  /\ Connections \in Nat \ {0}
  /\ Null \notin Users
  /\ Null \notin Dispatch
  /\ Token \in [Socket -> Users]

VARIABLES
  conn,       \* Socket -> "new", "open", "lost" (the peer is gone, the server
              \* has not noticed), "dead" (its handler has raised), "shut"
  registry,   \* sockets in active, subscriptions and user_ids, which always
              \* hold the same ones
  wants,      \* sockets whose subscription set holds the symbol
  sending     \* the dispatch in progress, or Null

wsVars == <<conn, registry, wants, sending>>

-----------------------------------------------------------------------------
(* Sockets and their handlers.                                             *)

\* websocket_prices, with a valid token (any other is refused before accept
\* and leaves nothing): the socket is accepted and entered in the three maps
\* of ConnectionManager.connect without another await.
Connect(w) ==
  /\ conn[w] = "new"
  /\ \A v \in Socket : v < w => conn[v] # "new"
  /\ conn' = [conn EXCEPT ![w] = "open"]
  /\ registry' = registry \cup {w}
  /\ UNCHANGED <<wants, sending>>

\* A plausible bug: subscribe does not look whether the socket is registered.
SubscribeUnchecked(w) ==
  /\ conn[w] \in {"open", "lost"}
  /\ wants' = wants \cup {w}
  /\ UNCHANGED <<conn, registry, sending>>

\* A subscribe frame; the client may have sent it and gone.
\* ConnectionManager.subscribe checks that the socket is still registered: a
\* failed send may have dropped it meanwhile.
Subscribe(w) ==
  /\ conn[w] \in {"open", "lost"}
  /\ w \in registry
  /\ wants' = wants \cup {w}
  /\ UNCHANGED <<conn, registry, sending>>

Unsubscribe(w) ==
  /\ conn[w] \in {"open", "lost"}
  /\ w \in wants
  /\ wants' = wants \ {w}
  /\ UNCHANGED <<conn, registry, sending>>

\* The client goes away.
Leave(w) ==
  /\ conn[w] = "open"
  /\ conn' = [conn EXCEPT ![w] = "lost"]
  /\ UNCHANGED <<registry, wants, sending>>

\* receive_text raises WebSocketDisconnect and the handler disconnects.
Notice(w) ==
  /\ conn[w] = "lost"
  /\ conn' = [conn EXCEPT ![w] = "shut"]
  /\ registry' = registry \ {w}
  /\ wants' = wants \ {w}
  /\ UNCHANGED <<sending>>

\* The handler ends with any other exception (a frame that is JSON and not an
\* object, a reply that cannot be sent): nothing calls disconnect, the socket
\* stays registered.
HandlerRaises(w) ==
  /\ conn[w] \in {"open", "lost"}
  /\ conn' = [conn EXCEPT ![w] = "dead"]
  /\ UNCHANGED <<registry, wants, sending>>

-----------------------------------------------------------------------------
(* The broadcaster.                                                        *)

\* Whom a message is for, when its dispatch begins.
Addressees(m) ==
  CASE m.kind = "price" -> wants
    [] m.kind = "ready" -> registry
    [] m.kind = "alert" -> {w \in registry : Token[w] = m.user}

\* _redis_price_broadcaster takes the next message and _dispatch_ws_message
\* routes it.  Pub/sub keeps nothing for a listener that is reconnecting, so
\* what it takes next may be any message.  An alert without a user is dropped.
\* broadcast_all and send_to_user visit a copy made now (due); broadcast_price
\* walks the live dict from its first entry, knowing only how many entries
\* there were, and due then only tells whom it has still to find.
Take(m) ==
  /\ sending = Null
  /\ m # [kind |-> "alert", user |-> Null]
  /\ sending' = [msg |-> m, due |-> Addressees(m), failed |-> {}, at |-> 0,
                 size |-> IF m.kind = "price" THEN Cardinality(registry) ELSE 0]
  /\ UNCHANGED <<conn, registry, wants>>

Walking == sending.msg.kind = "price"

\* The sockets a dispatch has still to visit.
Ahead == IF Walking THEN {w \in registry : w > sending.at} ELSE sending.due

\* Python refuses to go on over a dict that has another size than when the
\* loop began, be it at the next entry or at the end.
Changed == Walking /\ Cardinality(registry) # sending.size

\* The loop takes socket w next.
Turn(w) ==
  /\ sending # Null
  /\ ~Changed
  /\ w \in Ahead
  /\ Walking => \A v \in Ahead : w <= v

Visited(w) == [sending EXCEPT !.at = IF Walking THEN w ELSE @, !.due = @ \ {w}]

\* A plausible bug: the send is not inside a try, and the first dead socket
\* ends the dispatch.
FailedUncaught(w) == Null

\* The failure of a send is caught and remembered; the loop goes on.
Failed(w) == [Visited(w) EXCEPT !.failed = @ \cup {w}]

\* One turn of the loop.  A send to an open socket succeeds; to a lost one it
\* may still be buffered; to a dead one it fails.  broadcast_price passes over
\* the sockets that do not want the symbol.
Send(w) ==
  /\ Turn(w)
  /\ Walking => w \in wants
  /\ \/ conn[w] \in {"open", "lost"} /\ sending' = Visited(w)
     \/ conn[w] # "open" /\ sending' = Failed(w)
  /\ UNCHANGED <<conn, registry, wants>>

PassOver(w) ==
  /\ Turn(w)
  /\ Walking
  /\ w \notin wants
  /\ sending' = Visited(w)
  /\ UNCHANGED <<conn, registry, wants>>

\* A plausible bug: nobody disconnects them.
DroppedNever == {}

\* The loop is over: the sockets that failed are disconnected.
Dropped == sending.failed

Finish ==
  /\ sending # Null
  /\ ~Changed
  /\ Ahead = {}
  /\ registry' = registry \ Dropped
  /\ wants' = wants \ Dropped
  /\ sending' = Null
  /\ UNCHANGED <<conn>>

\* RuntimeError: dictionary changed size during iteration.  The broadcaster
\* logs it and takes the next message: the sockets ahead get nothing, those
\* that failed stay registered.
Abort ==
  /\ sending # Null
  /\ Changed
  /\ sending' = Null
  /\ UNCHANGED <<conn, registry, wants>>

-----------------------------------------------------------------------------
Init ==
  /\ conn = [w \in Socket |-> "new"]
  /\ registry = {}
  /\ wants = {}
  /\ sending = Null

Handler(w) ==
  \/ Connect(w) \/ Subscribe(w) \/ Unsubscribe(w)
  \/ Leave(w) \/ Notice(w) \/ HandlerRaises(w)

Loop == (\E w \in Socket : Send(w) \/ PassOver(w)) \/ Finish \/ Abort

Next ==
  \/ \E w \in Socket : Handler(w)
  \/ \E m \in Message : Take(m)
  \/ Loop

Spec == Init /\ [][Next]_wsVars

-----------------------------------------------------------------------------
\* Types of the registry and of the dispatch under way.
TypeOK ==
  /\ conn \in [Socket -> {"new", "open", "lost", "dead", "shut"}]
  /\ registry \subseteq Socket
  /\ wants \subseteq registry
  /\ sending \in Dispatch \cup {Null}

\* When a dispatch ends, everyone the message was for has been sent it, has
\* been found dead, has unsubscribed or has left, unless the registry changed
\* size under a price broadcast (ConnectionManager.broadcast_price,
\* broadcast_all, send_to_user).
NobodyIsPassedOver ==
  [][ sending # Null /\ sending' = Null => Changed \/ sending.due \cap registry = {} ]_wsVars

\* A socket whose client is gone does not stay registered for good, even when
\* its handler ended without disconnecting it or broadcasts were aborted: a
\* data_ready is broadcast again and again (history_prefetcher runs every half
\* hour) and drops what it cannot reach.
GoneIsForgotten == \A w \in Socket : conn[w] \in {"lost", "dead"} ~> w \notin registry
=============================================================================
