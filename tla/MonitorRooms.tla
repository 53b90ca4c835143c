---------------------------- MODULE MonitorRooms ----------------------------
(***************************************************************************)
(* Who gets the live updates of a session: the rooms of the Socket.IO      *)
(* gateway (session-monitoring.gateway.ts) and the mobile client that      *)
(* enters and leaves them (session-monitoring-client.ts).  The transport   *)
(* keeps the order of events, buffers what is emitted without a            *)
(* connection, loses what is on its way when the connection drops, and     *)
(* then connects again by itself.                                          *)
(***************************************************************************)
EXTENDS Integers, Sequences

CONSTANTS
  Clients, Sessions,
  MaxHandlers,   \* bound on the subscriptions of a client to one session
  MaxEvents      \* bound on events that are buffered or on their way

RoomsAssumption == MaxHandlers \in Nat /\ MaxEvents \in Nat

VARIABLES
  link,       \* link[c]: the socket of a client
  rooms,      \* rooms[c]: the sessions whose room the server has the socket in
  events,     \* events[c]: emitted and not yet handled, the oldest first
  handlers,   \* handlers[c][s]: listeners that a subscription has registered
  disturbed   \* history: [c, s] that lost their room to a drop or to each other

vars == <<link, rooms, events, handlers, disturbed>>

Event == [kind : {"subscribe", "unsubscribe"}, session : Sessions]

TypeOK ==
  /\ link \in [Clients -> {"closed", "opening", "open"}]
  /\ rooms \in [Clients -> SUBSET Sessions]
  /\ events \in [Clients -> Seq(Event)]
  /\ handlers \in [Clients -> [Sessions -> 0..MaxHandlers]]
  /\ disturbed \subseteq Clients \X Sessions
  /\ \A c \in Clients : link[c] # "open" => rooms[c] = {}

Init ==
  /\ link = [c \in Clients |-> "closed"]
  /\ rooms = [c \in Clients |-> {}]
  /\ events = [c \in Clients |-> <<>>]
  /\ handlers = [c \in Clients |-> [s \in Sessions |-> 0]]
  /\ disturbed = {}

-----------------------------------------------------------------------------
(* The mobile client                                                       *)

Emitted(c, kind, s) ==
  /\ Len(events[c]) < MaxEvents
  /\ events' = [events EXCEPT ![c] = Append(@, [kind |-> kind, session |-> s])]

\* connect: nothing when connected.
Connected(c) == [link EXCEPT ![c] = IF @ = "closed" THEN "opening" ELSE @]

Connect(c) ==
  /\ link[c] = "closed"
  /\ link' = Connected(c)
  /\ UNCHANGED <<rooms, events, handlers, disturbed>>

\* Mutant: the rooms are kept for the next connection.
DisconnectKeepsRooms(c) ==
  /\ link[c] # "closed"
  /\ link' = [link EXCEPT ![c] = "closed"]
  /\ events' = [events EXCEPT ![c] = IF link[c] = "open" THEN <<>> ELSE @]
  /\ disturbed' = disturbed \cup {<<c, s>> : s \in {t \in Sessions : handlers[c][t] > 0}}
  /\ UNCHANGED <<rooms, handlers>>

\* disconnect
Disconnect(c) ==
  /\ link[c] # "closed"
  /\ link' = [link EXCEPT ![c] = "closed"]
  /\ rooms' = [rooms EXCEPT ![c] = {}]
  /\ events' = [events EXCEPT ![c] = IF link[c] = "open" THEN <<>> ELSE @]
  /\ disturbed' = disturbed \cup {<<c, s>> : s \in {t \in Sessions : handlers[c][t] > 0}}
  /\ UNCHANGED handlers

\* subscribeToSession
Subscribe(c, s) ==
  /\ handlers[c][s] < MaxHandlers
  /\ handlers' = [handlers EXCEPT ![c][s] = @ + 1]
  /\ link' = Connected(c)
  /\ Emitted(c, "subscribe", s)
  /\ disturbed' = disturbed \ {<<c, s>>}
  /\ UNCHANGED rooms

\* Mutant: the cleanup only takes its listener off.
UnsubscribeSilently(c, s) ==
  /\ handlers[c][s] > 0
  /\ handlers' = [handlers EXCEPT ![c][s] = @ - 1]
  /\ UNCHANGED <<link, rooms, events, disturbed>>

\* The cleanup of a subscription: the socket leaves the room even when another
\* subscription of the client listens to the same session.
Unsubscribe(c, s) ==
  /\ handlers[c][s] > 0
  /\ handlers' = [handlers EXCEPT ![c][s] = @ - 1]
  /\ Emitted(c, "unsubscribe", s)
  /\ disturbed' = IF handlers[c][s] > 1 THEN disturbed \cup {<<c, s>>} ELSE disturbed \ {<<c, s>>}
  /\ UNCHANGED <<link, rooms>>

-----------------------------------------------------------------------------
(* The transport and the gateway                                           *)

\* The connection is established and what was buffered is sent.
Open(c) ==
  /\ link[c] = "opening"
  /\ link' = [link EXCEPT ![c] = "open"]
  /\ UNCHANGED <<rooms, events, handlers, disturbed>>

\* The network or the API process goes away: the server forgets the socket, and
\* no event subscribes it again.
Drop(c) ==
  /\ link[c] = "open"
  /\ link' = [link EXCEPT ![c] = "opening"]
  /\ rooms' = [rooms EXCEPT ![c] = {}]
  /\ events' = [events EXCEPT ![c] = <<>>]
  /\ disturbed' = disturbed \cup {<<c, s>> : s \in {t \in Sessions : handlers[c][t] > 0}}
  /\ UNCHANGED handlers

\* Mutant: the handler of unsubscribe is missing.
HandleSubscribeOnly(c) ==
  /\ link[c] = "open" /\ events[c] # <<>>
  /\ events' = [events EXCEPT ![c] = Tail(@)]
  /\ rooms' = [rooms EXCEPT ![c] =
       IF Head(events[c]).kind = "subscribe" THEN @ \cup {Head(events[c]).session} ELSE @]
  /\ UNCHANGED <<link, handlers, disturbed>>

\* handleSessionMonitorSubscribe, handleSessionMonitorUnsubscribe
Handle(c) ==
  /\ link[c] = "open" /\ events[c] # <<>>
  /\ events' = [events EXCEPT ![c] = Tail(@)]
  /\ LET event == Head(events[c]) IN
       rooms' = [rooms EXCEPT ![c] =
         IF event.kind = "subscribe" THEN @ \cup {event.session} ELSE @ \ {event.session}]
  /\ UNCHANGED <<link, handlers, disturbed>>

Next ==
  \E c \in Clients :
    \/ Connect(c) \/ Disconnect(c)
    \/ \E s \in Sessions : Subscribe(c, s) \/ Unsubscribe(c, s)
    \/ Open(c) \/ Drop(c) \/ Handle(c)

\* Connections are made and events arrive at last.
Fairness == \A c \in Clients : WF_vars(Open(c)) /\ WF_vars(Handle(c))

Spec == Init /\ [][Next]_vars /\ Fairness

-----------------------------------------------------------------------------
\* What the rooms of a client will be when its events have been handled: the last
\* event about a session decides.
RoomsToBe(c) ==
  LET About(i, s) == events[c][i].session = s IN
  {s \in Sessions :
     \/ s \in rooms[c] /\ \A i \in DOMAIN events[c] : ~About(i, s)
     \/ \E i \in DOMAIN events[c] :
          /\ events[c][i].kind = "subscribe" /\ About(i, s)
          /\ \A j \in DOMAIN events[c] : About(j, s) => j <= i}

\* emitSessionMonitorUpdate reaches whom it should: a client that has not lost its
\* connection or shared its subscription is or will be in the rooms that it
\* listens to, and no client stays in a room that it does not listen to.
RoomsFollowListeners ==
  \A c \in Clients, s \in Sessions :
    /\ handlers[c][s] > 0 /\ <<c, s>> \notin disturbed => s \in RoomsToBe(c)
    /\ handlers[c][s] = 0 => s \notin RoomsToBe(c)

\* A subscription reaches its room, unless it ends or is disturbed first.
SubscriptionsArrive ==
  \A c \in Clients, s \in Sessions :
    (handlers[c][s] > 0) ~> (s \in rooms[c] \/ handlers[c][s] = 0 \/ <<c, s>> \in disturbed)

=============================================================================
