---------------------------- MODULE ChargePoints ----------------------------
(***************************************************************************)
(* Which chargers are connected: ocpp.server.service.ts registers every    *)
(* accepted WebSocket client, ocpp.registry.service.ts keeps one           *)
(* registration per charge point identity, ocpp.routing.service.ts marks   *)
(* it booted.  Handlers are bound to the identity, never to the client     *)
(* they were attached for.  Timestamps and boot payloads are left out.     *)
(***************************************************************************)
EXTENDS Integers

CONSTANTS
  Points,   \* charge point identities
  Clients   \* WebSocket clients; each one connects at most once

VARIABLES
  socket,        \* what is known of each client
  registration   \* the registry: the registration of an identity, if any

lvars == <<socket, registration>>

\* A client whose socket has closed raises 'disconnect' and 'close'; both have
\* the same handler, so it is the number of them that were raised that counts.
CloseEvents == 2

\* A client that has not connected yet, and one of an earlier process.
NoSocket == [status |-> "unused"]
Gone == [status |-> "gone"]
Socket == [status : {"connected"}, point : Points, alive : BOOLEAN, heard : 0 .. CloseEvents]

Unregistered == [client |-> "none"]
Registration == [client : Clients, booted : BOOLEAN]

Connected(c, p) == socket[c].status = "connected" /\ socket[c].point = p

\* The server has seen no sign of the connection's end.
Open(c) == socket[c].status = "connected" /\ socket[c].heard = 0

Registered(p) == registration[p] # Unregistered

TypeOK ==
  /\ socket \in [Clients -> Socket \cup {NoSocket, Gone}]
  /\ registration \in [Points -> Registration \cup {Unregistered}]

Init ==
  /\ socket = [c \in Clients |-> NoSocket]
  /\ registration = [p \in Points |-> Unregistered]

-----------------------------------------------------------------------------

\* onClientConnected: a client with the identity of an earlier one replaces its
\* registration.  The charger has given the earlier connection up, but the
\* server still sees that socket open, with its handlers attached.
Connect(c, p) ==
  /\ socket[c] = NoSocket
  /\ socket' = [d \in Clients |->
                  IF d = c
                  THEN [status |-> "connected", point |-> p, alive |-> TRUE, heard |-> 0]
                  ELSE IF Connected(d, p) THEN [socket[d] EXCEPT !.alive = FALSE]
                  ELSE socket[d]]
  /\ registration' = [registration EXCEPT ![p] = [client |-> c, booted |-> FALSE]]

\* The charger drops off, or its network does; the server does not know yet.
Lose(c) ==
  /\ Open(c)
  /\ socket[c].alive
  /\ socket' = [socket EXCEPT ![c].alive = FALSE]
  /\ UNCHANGED registration

\* handleBootNotification, through markChargePointBooted.
Boot(c) ==
  /\ Open(c)
  /\ LET p == socket[c].point IN
       /\ Registered(p)
       /\ registration' = [registration EXCEPT ![p].booted = TRUE]
  /\ UNCHANGED socket

\* Mutant: the registration is removed by the second event only.
HandleCloseLate(c) ==
  /\ socket[c].status = "connected"
  /\ ~socket[c].alive
  /\ socket[c].heard < CloseEvents
  /\ socket' = [socket EXCEPT ![c].heard = @ + 1]
  /\ registration' = IF socket[c].heard + 1 < CloseEvents THEN registration
                     ELSE [registration EXCEPT ![socket[c].point] = Unregistered]

\* unregisterClient: whatever is registered under the client's identity goes.
HandleClose(c) ==
  /\ socket[c].status = "connected"
  /\ ~socket[c].alive
  /\ socket[c].heard < CloseEvents
  /\ socket' = [socket EXCEPT ![c].heard = @ + 1]
  /\ registration' = [registration EXCEPT ![socket[c].point] = Unregistered]

\* The API process goes down and comes up again with an empty registry.
Restart ==
  /\ socket' = [c \in Clients |-> IF socket[c] = NoSocket THEN NoSocket ELSE Gone]
  /\ registration' = [p \in Points |-> Unregistered]

Next ==
  \/ \E c \in Clients :
       \/ \E p \in Points : Connect(c, p)
       \/ Lose(c)
       \/ Boot(c)
       \/ HandleClose(c)
  \/ Restart

Spec == Init /\ [][Next]_lvars

-----------------------------------------------------------------------------

\* A command is never sent to a socket whose end the server has been told of:
\* the registration of an identity names a client of that identity that has
\* raised neither of its close events (onClientConnected, unregisterClient).
RegisteredIsOpen ==
  \A p \in Points : Registered(p) =>
    LET c == registration[p].client IN Open(c) /\ Connected(c, p)

\* "In-memory registry of currently connected charge points"
\* (ocpp.registry.service.ts): a charger that holds a live connection is
\* registered.  A late close event of its previous socket breaks this.
ConnectedIsRegistered ==
  \A c \in Clients :
    (Open(c) /\ socket[c].alive) => Registered(socket[c].point)
=============================================================================
