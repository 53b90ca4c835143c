------------------------ MODULE RemoteCommandsProofs ------------------------
(***************************************************************************)
(* Proofs about RemoteCommands, for every set of charge points, clients,   *)
(* users and connectors, every finite set of remote starts, any number of  *)
(* requests in flight and every value of the bounds.                       *)
(***************************************************************************)
EXTENDS RemoteCommands, FiniteSetTheorems, TLAPS

(* A field tells the three shapes of a command apart.                       *)
LEMMA CommandShape ==
  ASSUME NEW x \in Outgoing \cup Returned \cup {NoCommand}
  PROVE  /\ x.pc \in {"calling", "sleeping"} => x \in Outgoing
         /\ x.pc \in {"accepted", "rejected", "failed", "lost"} => x \in Returned
         /\ x.pc = "unsent" => x = NoCommand
BY DEF Outgoing, Returned, NoCommand

LEMMA RequestShape ==
  ASSUME NEW x \in Request \cup {Idle}
  PROVE  /\ x.pc \in {"create", "link"} => x \in Request
         /\ x \in Request => x.pc \in {"create", "link"}
         /\ x.pc = "idle" => x = Idle
BY DEF Request, Idle

LEMMA TrackedShape ==
  ASSUME NEW x \in TrackedStart \cup {Untracked}
  PROVE  /\ x # Untracked => x \in TrackedStart
         /\ x \in TrackedStart => x # Untracked
BY DEF TrackedStart, Untracked

LEMMA AcceptedIsFinite ==
  ASSUME TypeOK
  PROVE  IsFiniteSet(Accepted) /\ Cardinality(Accepted) \in Nat
BY StartsAssumption, FS_Subset, FS_CardinalityType DEF Accepted

-----------------------------------------------------------------------------
(* What the tracker's helpers do to one record.                             *)

LEMMA PrunedRecord ==
  ASSUME TypeOK, NEW k \in RemoteStarts
  PROVE  /\ Pruned[k] \in {tracked[k], Untracked}
         /\ Pruned[k] \in TrackedStart \cup {Untracked}
         /\ (IsTracked(k) /\ ~Pending(k)) => Pruned[k] = tracked[k]
BY DEF TypeOK, Pruned, Pending, IsTracked

LEMMA CandidateRecord ==
  ASSUME TypeOK, NEW key, NEW k \in Candidates(key)
  PROVE  /\ k \in RemoteStarts
         /\ Pruned[k] = tracked[k]
         /\ tracked[k] \in TrackedStart
         /\ IsTracked(k)
         /\ Pending(k)
         /\ command[k].key = key
<1>1. k \in RemoteStarts /\ Pruned[k] # Untracked /\ Pruned[k].tx = 0 /\ command[k].key = key
  BY DEF Candidates
<1>2. Pruned[k] = tracked[k]
  BY <1>1, PrunedRecord
<1>3. tracked[k] \in TrackedStart
  BY <1>1, <1>2, TrackedShape DEF TypeOK
<1> QED
  BY <1>1, <1>2, <1>3 DEF IsTracked, Pending

LEMMA LinkedRecord ==
  ASSUME TypeOK, NEW key, NEW tx \in Nat \ {0}, NEW k \in RemoteStarts,
         Newest(k, Candidates(key))
  PROVE  /\ LinkTransaction(key, tx)[k] \in TrackedStart
         /\ LinkTransaction(key, tx)[k].tx = tx
         /\ LinkTransaction(key, tx)[k].order = tracked[k].order
         /\ IsTracked(k) /\ Pending(k) /\ command[k].key = key
<1>1. k \in Candidates(key)
  BY DEF Newest
<1>2. /\ Pruned[k] = tracked[k] /\ tracked[k] \in TrackedStart
      /\ IsTracked(k) /\ Pending(k) /\ command[k].key = key
  BY <1>1, CandidateRecord
<1>3. LinkTransaction(key, tx)[k] = [tracked[k] EXCEPT !.tx = tx]
  BY <1>2 DEF LinkTransaction
<1>4. /\ [tracked[k] EXCEPT !.tx = tx] \in TrackedStart
      /\ [tracked[k] EXCEPT !.tx = tx].tx = tx
      /\ [tracked[k] EXCEPT !.tx = tx].order = tracked[k].order
  BY <1>2 DEF TrackedStart
<1> QED BY <1>2, <1>3, <1>4

LEMMA UnlinkedRecord ==
  ASSUME NEW key, NEW tx, NEW k \in RemoteStarts, ~Newest(k, Candidates(key))
  PROVE  LinkTransaction(key, tx)[k] = Pruned[k]
BY DEF LinkTransaction

LEMMA TrackRecord ==
  ASSUME TypeOK, NEW k \in RemoteStarts, NEW j \in RemoteStarts
  PROVE  /\ Track(k) \in [RemoteStarts -> TrackedStart \cup {Untracked}]
         /\ j = k => Track(k)[j] = [order |-> Cardinality(Accepted) + 1, tx |-> 0]
         /\ j # k => Track(k)[j] = Pruned[j]
<1>1. Pruned \in [RemoteStarts -> TrackedStart \cup {Untracked}]
  <2>1. \A i \in RemoteStarts : Pruned[i] \in TrackedStart \cup {Untracked}
    BY PrunedRecord
  <2> QED BY <2>1 DEF Pruned
<1>2. [order |-> Cardinality(Accepted) + 1, tx |-> 0] \in TrackedStart
  BY AcceptedIsFinite DEF TrackedStart
<1> QED BY <1>1, <1>2 DEF Track

-----------------------------------------------------------------------------
(* Types                                                                   *)

LEMMA InitTypeOK == Init => TypeOK
<1> SUFFICES ASSUME Init PROVE TypeOK
  OBVIOUS
<1>1. Link!TypeOK
  BY DEF Init, Link!Init, Link!TypeOK, Link!NoSocket, Link!Unregistered
<1>2. nextTransactionId \in Nat \ {0}
  BY DEF Init, FirstTransactionId
<1>3. tracked \in [RemoteStarts -> TrackedStart \cup {Untracked}]
  BY DEF Init
<1>4. command \in [Commands -> Outgoing \cup Returned \cup {NoCommand}]
  BY DEF Init
<1>5. request \in [Requests -> Request \cup {Idle}] /\ sessions \in Seq(StartedSession)
  BY DEF Init
<1> QED BY <1>1, <1>2, <1>3, <1>4, <1>5 DEF Init, TypeOK

LEMMA SocketShape ==
  ASSUME Link!TypeOK, NEW c \in Clients, socket[c].status = "connected"
  PROVE  socket[c] \in Link!Socket
BY DEF Link!TypeOK, Link!NoSocket, Link!Gone

(* The registry's actions keep its types.                                   *)
LEMMA LinkStepTypeOK ==
  ASSUME Link!TypeOK, Link!Next
  PROVE  Link!TypeOK'
<1> USE DEF Link!TypeOK
<1>1. ASSUME NEW c \in Clients, NEW p \in Points, Link!Connect(c, p) PROVE Link!TypeOK'
  <2>1. [status |-> "connected", point |-> p, alive |-> TRUE, heard |-> 0] \in Link!Socket
    BY DEF Link!Socket, Link!CloseEvents
  <2>2. ASSUME NEW d \in Clients, Link!Connected(d, p)
        PROVE  [socket[d] EXCEPT !.alive = FALSE] \in Link!Socket
    BY <2>2, SocketShape DEF Link!Socket, Link!Connected
  <2>3. socket' \in [Clients -> Link!Socket \cup {Link!NoSocket, Link!Gone}]
    BY <1>1, <2>1, <2>2 DEF Link!Connect
  <2>4. [client |-> c, booted |-> FALSE] \in Link!Registration
    BY DEF Link!Registration
  <2> QED BY <1>1, <2>3, <2>4 DEF Link!Connect
<1>2. ASSUME NEW c \in Clients, Link!Lose(c) PROVE Link!TypeOK'
  <2>1. [socket[c] EXCEPT !.alive = FALSE] \in Link!Socket
    BY <1>2, SocketShape DEF Link!Lose, Link!Open, Link!Socket
  <2> QED BY <1>2, <2>1 DEF Link!Lose
<1>3. ASSUME NEW c \in Clients, Link!Boot(c) PROVE Link!TypeOK'
  <2> DEFINE p == socket[c].point
  <2>1. p \in Points
    BY <1>3, SocketShape DEF Link!Boot, Link!Open, Link!Socket
  <2>2. registration[p] \in Link!Registration
    BY <1>3, <2>1 DEF Link!Boot, Link!Registered
  <2>3. [registration[p] EXCEPT !.booted = TRUE] \in Link!Registration
    BY <2>2 DEF Link!Registration
  <2> QED BY <1>3, <2>1, <2>3 DEF Link!Boot
<1>4. ASSUME NEW c \in Clients, Link!HandleClose(c) PROVE Link!TypeOK'
  <2>1. socket[c] \in Link!Socket
    BY <1>4, SocketShape DEF Link!HandleClose
  <2>2. [socket[c] EXCEPT !.heard = @ + 1] \in Link!Socket
    BY <1>4, <2>1 DEF Link!HandleClose, Link!Socket, Link!CloseEvents
  <2> QED BY <1>4, <2>1, <2>2 DEF Link!HandleClose
<1>5. ASSUME Link!Restart PROVE Link!TypeOK'
  BY <1>5 DEF Link!Restart
<1> QED BY <1>1, <1>2, <1>3, <1>4, <1>5 DEF Link!Next

(* Steps of the commands leave the registry alone, and the other way round. *)
LEMMA LinkUnchanged ==
  ASSUME Link!TypeOK, UNCHANGED lvars
  PROVE  Link!TypeOK'
BY DEF lvars, Link!TypeOK

LEMMA ReturnTypes ==
  ASSUME TypeOK, NEW k \in Commands, command[k].pc = "calling",
         NEW outcome \in {"accepted", "rejected", "failed", "lost"}, Return(k, outcome)
  PROVE  command' \in [Commands -> Outgoing \cup Returned \cup {NoCommand}]
<1>1. command[k] \in Outgoing
  BY CommandShape DEF TypeOK
<1>2. /\ [key |-> command[k].key, pc |-> "accepted"] \in Returned
      /\ outcome # "accepted" => [pc |-> outcome] \in Returned
  BY <1>1 DEF Outgoing, Returned
<1> QED BY <1>2 DEF Return, TypeOK

LEMMA PrunedType ==
  ASSUME TypeOK
  PROVE  Pruned \in [RemoteStarts -> TrackedStart \cup {Untracked}]
<1>1. \A i \in RemoteStarts : Pruned[i] \in TrackedStart \cup {Untracked}
  BY PrunedRecord
<1> QED BY <1>1 DEF Pruned

LEMMA AttemptIsLeft ==
  ASSUME NEW x \in [key : Key, client : Clients, attempt : 1 .. MaxAttempts - 1,
                    pc : {"sleeping"}]
  PROVE  [x EXCEPT !.pc = "calling", !.attempt = @ + 1] \in Outgoing
<1> DEFINE y == [x EXCEPT !.pc = "calling"]
           z == [y EXCEPT !.attempt = x.attempt + 1]
<1>1. y \in [key : Key, client : Clients, attempt : 1 .. MaxAttempts - 1, pc : {"calling"}]
  OBVIOUS
<1>2. x.attempt + 1 \in 1 .. MaxAttempts
  BY AttemptsAssumption
<1>3. z \in Outgoing
  <2> HIDE DEF y
  <2> QED BY <1>1, <1>2 DEF Outgoing
<1>4. z = [x EXCEPT !.pc = "calling", !.attempt = @ + 1]
  OBVIOUS
<1> QED BY <1>3, <1>4

LEMMA StepTypeOK == TypeOK /\ [Next]_vars => TypeOK'
<1> SUFFICES ASSUME TypeOK, [Next]_vars PROVE TypeOK'
  OBVIOUS
<1> USE DEF cvars, tvars
<1>1. ASSUME NEW k \in Commands, NEW key \in Key, Send(k, key) PROVE TypeOK'
  <2>1. registration[key.point].client \in Clients
    BY <1>1 DEF Send, TypeOK, Key, Link!TypeOK, Link!Registered, Link!Registration
  <2>2. [key |-> key, client |-> registration[key.point].client,
         attempt |-> 1, pc |-> "calling"] \in Outgoing
    BY <2>1, AttemptsAssumption DEF Outgoing
  <2>3. command' \in [Commands -> Outgoing \cup Returned \cup {NoCommand}]
    BY <1>1, <2>2 DEF Send, TypeOK
  <2> QED BY <1>1, <2>3, LinkUnchanged DEF Send, TypeOK
<1>2. ASSUME NEW k \in Commands, NEW status \in {"accepted", "rejected"}, Answer(k, status)
      PROVE  TypeOK'
  <2>1. command' \in [Commands -> Outgoing \cup Returned \cup {NoCommand}]
    BY <1>2, ReturnTypes DEF Answer
  <2>2. tracked' \in [RemoteStarts -> TrackedStart \cup {Untracked}]
    BY <1>2, TrackRecord DEF Answer, TypeOK
  <2> QED BY <1>2, <2>1, <2>2, LinkUnchanged DEF Answer, TypeOK
<1>3. ASSUME NEW k \in Commands, Fail(k) PROVE TypeOK'
  <2>1. command[k] \in Outgoing
    BY <1>3, CommandShape DEF Fail, TypeOK
  <2>2. command[k].attempt # MaxAttempts =>
          [command[k] EXCEPT !.pc = "sleeping"] \in Outgoing
    BY <2>1, AttemptsAssumption DEF Outgoing
  <2>3. command' \in [Commands -> Outgoing \cup Returned \cup {NoCommand}]
    BY <1>3, <2>2, ReturnTypes DEF Fail, TypeOK
  <2> QED BY <1>3, <2>3, LinkUnchanged DEF Fail, TypeOK
<1>4. ASSUME NEW k \in Commands, Retry(k) PROVE TypeOK'
  <2>1. command[k] \in Outgoing
    BY <1>4, CommandShape DEF Retry, TypeOK
  <2>2. [command[k] EXCEPT !.pc = "calling", !.attempt = @ + 1] \in Outgoing
    <3>1. command[k] \in [key : Key, client : Clients, attempt : 1 .. MaxAttempts - 1,
                          pc : {"sleeping"}]
      BY <1>4, <2>1 DEF Retry, Outgoing
    <3> QED BY <3>1, AttemptIsLeft
  <2>3. command' \in [Commands -> Outgoing \cup Returned \cup {NoCommand}]
    BY <1>4, <2>2 DEF Retry, TypeOK
  <2> QED BY <1>4, <2>3, LinkUnchanged DEF Retry, TypeOK
<1>5. ASSUME NEW k \in RemoteStarts, Expire(k) PROVE TypeOK'
  BY <1>5, LinkUnchanged DEF Expire, TypeOK
<1>6. ASSUME Lookup PROVE TypeOK'
  BY <1>6, LinkUnchanged, PrunedType DEF Lookup, TypeOK
<1>7. ASSUME NEW r \in Requests, NEW key \in Key, BeginStart(r, key) PROVE TypeOK'
  <2>1. [key |-> key, tx |-> nextTransactionId, pc |-> "create"] \in Request
    BY DEF Request, TypeOK
  <2>2. request' \in [Requests -> Request \cup {Idle}]
    BY <1>7, <2>1 DEF BeginStart, TypeOK
  <2>3. nextTransactionId' \in Nat \ {0}
    BY <1>7 DEF BeginStart, TypeOK
  <2> QED BY <1>7, <2>2, <2>3, LinkUnchanged DEF BeginStart, TypeOK
<1>8. ASSUME NEW r \in Requests, CreateSession(r) PROVE TypeOK'
  <2>1. request[r] \in Request
    BY <1>8, RequestShape DEF CreateSession, TypeOK
  <2>2. /\ [key |-> request[r].key, tx |-> request[r].tx] \in StartedSession
        /\ [request[r] EXCEPT !.pc = "link"] \in Request
    BY <2>1 DEF Request, StartedSession
  <2>3. request' \in [Requests -> Request \cup {Idle}]
    BY <1>8, <2>2 DEF CreateSession, TypeOK
  <2>4. Append(sessions, [key |-> request[r].key, tx |-> request[r].tx]) \in Seq(StartedSession)
    BY <2>2 DEF TypeOK
  <2>5. sessions' \in Seq(StartedSession)
    BY <1>8, <2>4 DEF CreateSession, TypeOK
  <2> QED BY <1>8, <2>3, <2>5, LinkUnchanged DEF CreateSession, TypeOK
<1>9. ASSUME NEW r \in Requests, LinkSession(r) PROVE TypeOK'
  <2> DEFINE key == request[r].key
             tx == request[r].tx
  <2>1. tx \in Nat \ {0}
    BY <1>9, RequestShape DEF LinkSession, TypeOK, Request
  <2>2. ASSUME NEW k \in RemoteStarts
        PROVE  LinkTransaction(key, tx)[k] \in TrackedStart \cup {Untracked}
    <3>1. CASE Newest(k, Candidates(key))
      BY <2>1, <3>1, LinkedRecord
    <3>2. CASE ~Newest(k, Candidates(key))
      BY <3>2, UnlinkedRecord, PrunedRecord
    <3> QED BY <3>1, <3>2
  <2>3. tracked' \in [RemoteStarts -> TrackedStart \cup {Untracked}]
    BY <1>9, <2>2 DEF LinkSession, LinkTransaction
  <2>4. request' \in [Requests -> Request \cup {Idle}]
    BY <1>9 DEF LinkSession, TypeOK
  <2> QED BY <1>9, <2>3, <2>4, LinkUnchanged DEF LinkSession, TypeOK
<1>10. CASE Tick
  BY <1>10, LinkUnchanged DEF Tick, TypeOK
<1>11. CASE Connection
  <2>1. Link!Next
    BY <1>11 DEF Connection, Link!Next
  <2>2. Link!TypeOK'
    BY <2>1, LinkStepTypeOK DEF TypeOK
  <2> QED BY <1>11, <2>2 DEF Connection, TypeOK
<1>12. CASE Restart
  <2>1. Link!TypeOK'
    BY <1>12, LinkStepTypeOK DEF Restart, Link!Next, TypeOK
  <2>2. [pc |-> "lost"] \in Returned
    BY DEF Returned
  <2>3. command' \in [Commands -> Outgoing \cup Returned \cup {NoCommand}]
    BY <1>12, <2>2 DEF Restart, TypeOK
  <2>4. nextTransactionId' \in Nat \ {0} /\ outrun' \in BOOLEAN
    BY <1>12 DEF Restart, TypeOK, FirstTransactionId
  <2> QED BY <1>12, <2>1, <2>3, <2>4 DEF Restart, TypeOK
<1>13. CASE UNCHANGED vars
  BY <1>13, LinkUnchanged DEF vars, lvars, TypeOK
<1> QED BY <1>1, <1>2, <1>3, <1>4, <1>5, <1>6, <1>7, <1>8, <1>9, <1>10, <1>11, <1>12, <1>13 DEF Next

(* Types hold in every reachable state: every command is inside its loop,   *)
(* with an attempt left whenever it sleeps, or has returned.                *)
THEOREM TypeCorrect == Spec => []TypeOK
<1> QED BY InitTypeOK, StepTypeOK, PTL DEF Spec

-----------------------------------------------------------------------------
(* The registry                                                            *)

LEMMA InitRegisteredIsOpen == Init => RegisteredIsOpen
BY DEF Init, Link!Init, RegisteredIsOpen, Link!RegisteredIsOpen, Link!Registered

LEMMA LinkStepRegisteredIsOpen ==
  ASSUME Link!TypeOK, Link!RegisteredIsOpen, Link!Next
  PROVE  Link!RegisteredIsOpen'
<1> USE DEF Link!TypeOK, Link!RegisteredIsOpen, Link!Registered, Link!Open, Link!Connected
<1>0. ASSUME NEW p \in Points, registration[p] # Link!Unregistered
      PROVE  registration[p].client \in Clients
  BY <1>0 DEF Link!Registration
<1>1. ASSUME NEW c \in Clients, NEW q \in Points, Link!Connect(c, q)
      PROVE  Link!RegisteredIsOpen'
  <2> SUFFICES ASSUME NEW p \in Points, registration'[p] # Link!Unregistered
               PROVE  LET d == registration'[p].client IN
                        /\ socket'[d].status = "connected" /\ socket'[d].heard = 0
                        /\ socket'[d].point = p
    OBVIOUS
  <2>1. CASE p = q
    BY <1>1, <2>1 DEF Link!Connect
  <2>2. CASE p # q
    <3> DEFINE d == registration[p].client
    <3>1. registration'[p] = registration[p] /\ d \in Clients
      BY <1>1, <1>0, <2>2 DEF Link!Connect
    <3>2. socket[d].status = "connected" /\ socket[d].heard = 0 /\ socket[d].point = p
      BY <3>1
    <3>3. d # c
      BY <1>1, <3>2 DEF Link!Connect, Link!NoSocket
    <3>4. socket'[d] = socket[d]
      BY <1>1, <2>2, <3>1, <3>2, <3>3 DEF Link!Connect
    <3> QED BY <3>1, <3>2, <3>4
  <2> QED BY <2>1, <2>2
<1>2. ASSUME NEW c \in Clients, Link!Lose(c) PROVE Link!RegisteredIsOpen'
  <2>1. socket[c] \in Link!Socket
    BY <1>2, SocketShape DEF Link!Lose
  <2>2. \A d \in Clients : /\ socket'[d].status = socket[d].status
                           /\ socket'[d].heard = socket[d].heard
                           /\ socket'[d].point = socket[d].point
    BY <1>2, <2>1 DEF Link!Lose, Link!Socket
  <2> QED BY <1>0, <1>2, <2>2 DEF Link!Lose
<1>3. ASSUME NEW c \in Clients, Link!Boot(c) PROVE Link!RegisteredIsOpen'
  <2> DEFINE q == socket[c].point
  <2>1. q \in Points
    BY <1>3, SocketShape DEF Link!Boot, Link!Socket
  <2>2. registration[q] \in Link!Registration
    BY <1>3, <2>1 DEF Link!Boot
  <2>3. \A p \in Points : /\ registration'[p] = Link!Unregistered
                               <=> registration[p] = Link!Unregistered
                          /\ registration[p] # Link!Unregistered =>
                               registration'[p].client = registration[p].client
    BY <1>3, <2>1, <2>2 DEF Link!Boot, Link!Registration, Link!Unregistered
  <2> QED BY <1>3, <2>3 DEF Link!Boot
<1>4. ASSUME NEW c \in Clients, Link!HandleClose(c) PROVE Link!RegisteredIsOpen'
  <2>1. ASSUME NEW p \in Points, registration'[p] # Link!Unregistered
        PROVE  /\ registration'[p] = registration[p]
               /\ p # socket[c].point
    BY <1>4, <2>1 DEF Link!HandleClose
  <2>2. \A d \in Clients : d # c => socket'[d] = socket[d]
    BY <1>4 DEF Link!HandleClose
  <2> QED BY <1>0, <1>4, <2>1, <2>2
<1>5. ASSUME Link!Restart PROVE Link!RegisteredIsOpen'
  BY <1>5 DEF Link!Restart
<1> QED BY <1>1, <1>2, <1>3, <1>4, <1>5 DEF Link!Next

LEMMA StepRegisteredIsOpen == TypeOK /\ RegisteredIsOpen /\ [Next]_vars => RegisteredIsOpen'
<1> SUFFICES ASSUME TypeOK, RegisteredIsOpen, [Next]_vars PROVE RegisteredIsOpen'
  OBVIOUS
<1> USE DEF RegisteredIsOpen
<1>1. ASSUME UNCHANGED lvars PROVE RegisteredIsOpen'
  BY <1>1 DEF lvars, Link!RegisteredIsOpen, Link!Registered, Link!Open, Link!Connected
<1>2. CASE Connection
  <2>1. Link!Next
    BY <1>2 DEF Connection, Link!Next
  <2> QED BY <2>1, LinkStepRegisteredIsOpen DEF TypeOK
<1>3. CASE Restart
  <2>1. Link!Next
    BY <1>3 DEF Restart, Link!Next
  <2> QED BY <2>1, LinkStepRegisteredIsOpen DEF TypeOK
<1>4. CASE ~Connection /\ ~Restart
  <2>1. UNCHANGED lvars
    BY <1>4 DEF Next, vars, lvars, Send, Answer, Fail, Retry, Expire, Lookup,
                BeginStart, CreateSession, LinkSession, Tick
  <2> QED BY <1>1, <2>1
<1> QED BY <1>2, <1>3, <1>4

(* A command never goes to a socket whose end the server has been told of:  *)
(* the registry names an open client of the right identity through          *)
(* reconnections, late close events and restarts.                           *)
THEOREM CommandsGoToOpenSockets == Spec => []RegisteredIsOpen
<1> QED BY InitTypeOK, StepTypeOK, InitRegisteredIsOpen, StepRegisteredIsOpen, PTL DEF Spec

-----------------------------------------------------------------------------
(* The map's order                                                         *)

\* Only accepted remote starts are tracked, and their places in the map differ.
TrackInv ==
  /\ \A k \in RemoteStarts :
       IsTracked(k) => k \in Accepted /\ tracked[k].order <= Cardinality(Accepted)
  /\ \A j, k \in RemoteStarts :
       (IsTracked(j) /\ IsTracked(k) /\ tracked[j].order = tracked[k].order) => j = k

LEMMA TrackInvKept ==
  ASSUME TrackInv, Accepted' = Accepted,
         \A k \in RemoteStarts :
           IsTracked(k)' => IsTracked(k) /\ tracked'[k].order = tracked[k].order
  PROVE  TrackInv'
BY DEF TrackInv

(* What a step may do to the commands and to the tracker, in the terms the  *)
(* invariants need: a remote start is accepted, records are pruned, a       *)
(* transaction is linked, or nothing happens but for a restart.             *)
LEMMA TrackerSteps ==
  ASSUME TypeOK, Next
  PROVE  \/ /\ \E k \in RemoteStarts :
                 /\ command[k].pc = "calling"
                 /\ Accepted' = Accepted \cup {k}
                 /\ tracked' = Track(k)
            /\ UNCHANGED tvars
         \/ tracked' = Pruned /\ Accepted' = Accepted /\ UNCHANGED tvars
         \/ /\ \E r \in Requests : LinkSession(r)
            /\ Accepted' = Accepted
         \/ tracked' = tracked /\ Accepted' = Accepted
         \/ Restart
<1> USE DEF cvars, tvars
<1>1. ASSUME NEW k \in Commands, NEW key \in Key, Send(k, key)
      PROVE  tracked' = tracked /\ Accepted' = Accepted
  BY <1>1 DEF Send, Accepted, Commands, TypeOK, NoCommand
<1>2. ASSUME NEW k \in Commands, NEW status \in {"accepted", "rejected"}, Answer(k, status)
      PROVE  \/ /\ k \in RemoteStarts /\ command[k].pc = "calling"
                /\ Accepted' = Accepted \cup {k} /\ tracked' = Track(k)
                /\ UNCHANGED tvars
             \/ tracked' = tracked /\ Accepted' = Accepted
  <2>1. command' = [command EXCEPT ![k] =
                      IF status = "accepted" THEN [key |-> command[k].key, pc |-> status]
                      ELSE [pc |-> status]]
    BY <1>2 DEF Answer, Return
  <2>2. command'[k].pc = status /\ \A j \in Commands : j # k => command'[j] = command[j]
    BY <2>1 DEF TypeOK
  <2>3. command[k].pc = "calling"
    BY <1>2 DEF Answer
  <2>4. CASE status = "accepted" /\ k \in RemoteStarts
    <3>1. Accepted' = Accepted \cup {k}
      BY <2>2, <2>4 DEF Accepted, Commands
    <3> QED BY <1>2, <2>3, <2>4, <3>1 DEF Answer
  <2>5. CASE ~(status = "accepted" /\ k \in RemoteStarts)
    <3>1. Accepted' = Accepted
      BY <2>2, <2>3, <2>5 DEF Accepted, Commands
    <3> QED BY <1>2, <2>5, <3>1 DEF Answer
  <2> QED BY <2>4, <2>5
<1>3. ASSUME NEW k \in Commands, Fail(k) PROVE tracked' = tracked /\ Accepted' = Accepted
  <2>1. /\ command'[k].pc \in {"failed", "sleeping"}
        /\ \A j \in Commands : j # k => command'[j] = command[j]
    BY <1>3, CommandShape DEF Fail, Return, TypeOK, Outgoing
  <2> QED BY <1>3, <2>1 DEF Fail, Accepted, Commands
<1>4. ASSUME NEW k \in Commands, Retry(k) PROVE tracked' = tracked /\ Accepted' = Accepted
  <2>1. command[k] \in Outgoing
    BY <1>4, CommandShape DEF Retry, TypeOK
  <2>2. /\ command'[k].pc = "calling"
        /\ \A j \in Commands : j # k => command'[j] = command[j]
    BY <1>4, <2>1 DEF Retry, TypeOK, Outgoing
  <2> QED BY <1>4, <2>2 DEF Retry, Accepted, Commands
<1>5. ASSUME UNCHANGED <<command, tracked>> PROVE tracked' = tracked /\ Accepted' = Accepted
  BY <1>5 DEF Accepted
<1>6. ASSUME NEW k \in RemoteStarts, Expire(k) PROVE UNCHANGED <<command, tracked>>
  BY <1>6 DEF Expire
<1>7. ASSUME Lookup PROVE tracked' = Pruned /\ Accepted' = Accepted /\ UNCHANGED tvars
  BY <1>7 DEF Lookup, Accepted
<1>8. ASSUME NEW r \in Requests, LinkSession(r) PROVE Accepted' = Accepted
  BY <1>8 DEF LinkSession, Accepted
<1>9. ASSUME NEW r \in Requests, NEW key \in Key, BeginStart(r, key)
      PROVE  UNCHANGED <<command, tracked>>
  BY <1>9 DEF BeginStart
<1>10. ASSUME NEW r \in Requests, CreateSession(r) PROVE UNCHANGED <<command, tracked>>
  BY <1>10 DEF CreateSession
<1>11. ASSUME Tick \/ Connection PROVE UNCHANGED <<command, tracked>>
  BY <1>11 DEF Tick, Connection
<1>12. ASSUME \E k \in Commands, key \in Key : Send(k, key)
       PROVE  tracked' = tracked /\ Accepted' = Accepted
  BY <1>1, <1>12
<1> HIDE DEF cvars, tvars
<1>13. CASE \E k \in Commands : \E status \in {"accepted", "rejected"} : Answer(k, status)
  BY <1>2, <1>13
<1>14. CASE \E k \in Commands : Fail(k) \/ Retry(k)
  BY <1>3, <1>4, <1>14
<1>15. CASE UNCHANGED <<command, tracked>>
  BY <1>5, <1>15
<1>16. CASE \E r \in Requests : LinkSession(r)
  BY <1>8, <1>16
<1>17. CASE Lookup
  BY <1>7, <1>17
<1> QED
  BY <1>6, <1>9, <1>10, <1>11, <1>12, <1>13, <1>14, <1>15, <1>16, <1>17 DEF Next

(* Pruning and linking keep the places of the records that stay.            *)
LEMMA PrunedKeepsOrder ==
  ASSUME TypeOK, NEW k \in RemoteStarts, Pruned[k] # Untracked
  PROVE  IsTracked(k) /\ Pruned[k] = tracked[k]
BY PrunedRecord DEF IsTracked

LEMMA LinkKeepsOrder ==
  ASSUME TypeOK, NEW key, NEW tx \in Nat \ {0}, NEW k \in RemoteStarts,
         LinkTransaction(key, tx)[k] # Untracked
  PROVE  IsTracked(k) /\ LinkTransaction(key, tx)[k].order = tracked[k].order
<1>1. CASE Newest(k, Candidates(key))
  BY <1>1, LinkedRecord
<1>2. CASE ~Newest(k, Candidates(key))
  BY <1>2, UnlinkedRecord, PrunedKeepsOrder
<1> QED BY <1>1, <1>2

LEMMA RequestTx ==
  ASSUME TypeOK, NEW r \in Requests, request[r].pc \in {"create", "link"}
  PROVE  request[r].tx \in Nat \ {0} /\ request[r].key \in Key
BY RequestShape DEF TypeOK, Request

LEMMA StepTrackInv == TypeOK /\ TrackInv /\ [Next]_vars => TrackInv'
<1> SUFFICES ASSUME TypeOK, TrackInv, [Next]_vars PROVE TrackInv'
  OBVIOUS
<1>1. ASSUME NEW k \in RemoteStarts, command[k].pc = "calling",
             Accepted' = Accepted \cup {k}, tracked' = Track(k)
      PROVE  TrackInv'
  <2> DEFINE n == Cardinality(Accepted)
  <2>1. k \notin Accepted
    BY <1>1 DEF Accepted
  <2>2. n \in Nat /\ Cardinality(Accepted') = n + 1
    BY <1>1, <2>1, AcceptedIsFinite, FS_AddElement
  <2>3. \A j \in RemoteStarts : j # k /\ IsTracked(j)' =>
          IsTracked(j) /\ tracked'[j] = tracked[j]
    BY <1>1, TrackRecord, PrunedKeepsOrder DEF IsTracked
  <2>4. tracked'[k].order = n + 1
    BY <1>1, TrackRecord
  <2>5. ASSUME NEW j \in RemoteStarts, j # k, IsTracked(j)'
        PROVE  j \in Accepted /\ tracked'[j].order \in Nat /\ tracked'[j].order <= n
    <3>1. IsTracked(j) /\ tracked'[j] = tracked[j]
      BY <2>3, <2>5
    <3>2. tracked[j] \in TrackedStart
      BY <3>1, TrackedShape DEF TypeOK, IsTracked
    <3> QED BY <3>1, <3>2 DEF TrackInv, TrackedStart
  <2>6. \A j \in RemoteStarts : IsTracked(j)' =>
          j \in Accepted' /\ tracked'[j].order <= Cardinality(Accepted)'
    BY <1>1, <2>2, <2>4, <2>5
  <2>7. ASSUME NEW i \in RemoteStarts, NEW j \in RemoteStarts, IsTracked(i)', IsTracked(j)',
               tracked'[i].order = tracked'[j].order
        PROVE  i = j
    <3>1. CASE i # k /\ j # k
      BY <2>3, <2>7, <3>1 DEF TrackInv
    <3>2. CASE i = k \/ j = k
      BY <2>2, <2>4, <2>5, <2>7, <3>2
    <3> QED BY <3>1, <3>2
  <2> QED BY <2>6, <2>7 DEF TrackInv
<1>2. CASE tracked' = Pruned /\ Accepted' = Accepted
  BY <1>2, PrunedKeepsOrder, TrackInvKept DEF IsTracked
<1>3. ASSUME NEW r \in Requests, LinkSession(r), Accepted' = Accepted PROVE TrackInv'
  <2>1. request[r].tx \in Nat \ {0}
    BY <1>3, RequestTx DEF LinkSession
  <2>2. tracked' = LinkTransaction(request[r].key, request[r].tx)
    BY <1>3 DEF LinkSession
  <2> QED BY <1>3, <2>1, <2>2, LinkKeepsOrder, TrackInvKept DEF IsTracked
<1>4. CASE tracked' = tracked /\ Accepted' = Accepted
  BY <1>4, TrackInvKept DEF IsTracked
<1>5. CASE Restart
  BY <1>5 DEF Restart, TrackInv, IsTracked
<1>6. CASE UNCHANGED vars
  <2>1. tracked' = tracked /\ Accepted' = Accepted
    BY <1>6 DEF vars, Accepted
  <2> QED BY <1>4, <2>1
<1> QED BY <1>1, <1>2, <1>3, <1>4, <1>5, <1>6, TrackerSteps

LEMMA InitTrackInv == Init => TrackInv
BY DEF Init, TrackInv, IsTracked

(* As long as the process lives, no later StartTransaction and no expiry    *)
(* takes a linked record away or gives it another transaction.              *)
THEOREM LinksStay == Spec => LinksAreFinal
<1> DEFINE Final == \A k \in RemoteStarts :
                      (IsTracked(k) /\ ~Pending(k)) =>
                        (tracked'[k] = tracked[k] \/ (Restart /\ ~IsTracked(k)'))
<1>1. TypeOK /\ TrackInv /\ [Next]_vars => [Final]_vars
  <2> SUFFICES ASSUME TypeOK, TrackInv, Next, NEW k \in RemoteStarts, IsTracked(k), ~Pending(k)
               PROVE  tracked'[k] = tracked[k] \/ (Restart /\ ~IsTracked(k)')
    BY DEF vars
  <2>1. Pruned[k] = tracked[k]
    BY PrunedRecord
  <2>2. ASSUME NEW j \in RemoteStarts, command[j].pc = "calling", tracked' = Track(j)
        PROVE  tracked'[k] = tracked[k]
    <3>1. k # j
      BY <2>2 DEF TrackInv, Accepted
    <3> QED BY <2>1, <2>2, <3>1, TrackRecord
  <2>3. ASSUME NEW r \in Requests, LinkSession(r) PROVE tracked'[k] = tracked[k]
    <3>1. request[r].tx \in Nat \ {0}
      BY <2>3, RequestTx DEF LinkSession
    <3>2. tracked' = LinkTransaction(request[r].key, request[r].tx)
      BY <2>3 DEF LinkSession
    <3>3. ~Newest(k, Candidates(request[r].key))
      BY <3>1, LinkedRecord
    <3> QED BY <2>1, <3>2, <3>3, UnlinkedRecord
  <2>4. CASE Restart
    BY <2>4 DEF Restart, IsTracked
  <2> QED BY <2>1, <2>2, <2>3, <2>4, TrackerSteps
<1> QED
  BY <1>1, InitTypeOK, StepTypeOK, InitTrackInv, StepTrackInv, PTL DEF Spec, LinksAreFinal

LEMMA PrunedOnlyExpired ==
  ASSUME TypeOK, NEW k \in RemoteStarts, IsTracked(k), Pruned[k] = Untracked
  PROVE  k \in expired
BY DEF Pruned, IsTracked

(* A remote start answered Accepted keeps its record until its time to live *)
(* has run out or the process has restarted.                                *)
THEOREM AcceptedIsKept == Spec => AcceptedStaysTracked
<1> DEFINE Kept == \A k \in RemoteStarts :
                     (command'[k].pc = "accepted" /\ ~IsTracked(k)')
                       => (k \in expired \/ Restart \/ (command[k].pc = "accepted" /\ ~IsTracked(k)))
<1>1. TypeOK /\ TrackInv /\ [Next]_vars => [Kept]_vars
  <2> SUFFICES ASSUME TypeOK, TrackInv, Next, ~Restart,
                      NEW k \in RemoteStarts, k \in Accepted', tracked'[k] = Untracked
               PROVE  k \in expired \/ (k \in Accepted /\ ~IsTracked(k))
    BY DEF vars, Accepted, IsTracked
  <2>1. ASSUME NEW j \in RemoteStarts, Accepted' = Accepted \cup {j}, tracked' = Track(j)
        PROVE  k \in expired \/ (k \in Accepted /\ ~IsTracked(k))
    <3>1. k # j
      BY <2>1, TrackRecord DEF Untracked
    <3>2. k \in Accepted /\ Pruned[k] = Untracked
      BY <2>1, <3>1, TrackRecord
    <3> QED BY <3>2, PrunedOnlyExpired
  <2>2. CASE tracked' = Pruned /\ Accepted' = Accepted
    BY <2>2, PrunedOnlyExpired
  <2>3. ASSUME NEW r \in Requests, LinkSession(r), Accepted' = Accepted
        PROVE  k \in expired \/ (k \in Accepted /\ ~IsTracked(k))
    <3>1. request[r].tx \in Nat \ {0}
      BY <2>3, RequestTx DEF LinkSession
    <3>2. tracked' = LinkTransaction(request[r].key, request[r].tx)
      BY <2>3 DEF LinkSession
    <3>3. ~Newest(k, Candidates(request[r].key))
      BY <3>1, <3>2, LinkedRecord, TrackedShape
    <3>4. Pruned[k] = Untracked
      BY <3>2, <3>3, UnlinkedRecord
    <3> QED BY <2>3, <3>4, PrunedOnlyExpired
  <2>4. CASE tracked' = tracked /\ Accepted' = Accepted
    BY <2>4 DEF IsTracked
  <2> QED BY <2>1, <2>2, <2>3, <2>4, TrackerSteps
<1> QED
  BY <1>1, InitTypeOK, StepTypeOK, InitTrackInv, StepTrackInv, PTL DEF Spec, AcceptedStaysTracked

\* What the tracker has accepted or linked it keeps, for as long as it promises to.
THEOREM TrackerKeepsRecords == Spec => RecordsAreKept
BY LinksStay, AcceptedIsKept DEF RecordsAreKept

-----------------------------------------------------------------------------
(* Transactions and their sessions                                         *)

Active(r) == request[r].pc \in {"create", "link"}

Rows == {<<sessions[i].key, sessions[i].tx>> : i \in DOMAIN sessions}

\* A transaction is linked only when its session is in the database.
SessionInv ==
  /\ \A k \in RemoteStarts :
       (IsTracked(k) /\ ~Pending(k)) => <<command[k].key, tracked[k].tx>> \in Rows
  /\ \A r \in Requests :
       request[r].pc = "link" => <<request[r].key, request[r].tx>> \in Rows

(* A created session is added to the others.                                *)
LEMMA CreatedRow ==
  ASSUME TypeOK, NEW r \in Requests, CreateSession(r)
  PROVE  \/ sessions' = sessions
         \/ /\ Len(sessions) \in Nat /\ DOMAIN sessions = 1 .. Len(sessions)
            /\ DOMAIN sessions' = 1 .. Len(sessions) + 1
            /\ \A i \in 1 .. Len(sessions) : sessions'[i] = sessions[i]
            /\ sessions'[Len(sessions) + 1] = [key |-> request[r].key, tx |-> request[r].tx]
            /\ Rows' = Rows \cup {<<request[r].key, request[r].tx>>}
<1> DEFINE row == [key |-> request[r].key, tx |-> request[r].tx]
<1>1. row \in StartedSession
  BY RequestTx DEF CreateSession, StartedSession
<1>2. ASSUME sessions' = Append(sessions, row)
      PROVE  /\ Len(sessions) \in Nat /\ DOMAIN sessions = 1 .. Len(sessions)
             /\ DOMAIN sessions' = 1 .. Len(sessions) + 1
             /\ \A i \in 1 .. Len(sessions) : sessions'[i] = sessions[i]
             /\ sessions'[Len(sessions) + 1] = row
  <2> HIDE DEF row
  <2> QED BY <1>1, <1>2 DEF TypeOK
<1>3. ASSUME sessions' = Append(sessions, row)
      PROVE  Rows' = Rows \cup {<<request[r].key, request[r].tx>>}
  <2>1. row.key = request[r].key /\ row.tx = request[r].tx
    OBVIOUS
  <2> HIDE DEF row
  <2> QED BY <1>2, <1>3, <2>1 DEF Rows
<1> QED BY <1>2, <1>3 DEF CreateSession

LEMMA RowsStay ==
  ASSUME TypeOK, [Next]_vars
  PROVE  Rows \subseteq Rows'
<1>1. sessions' = sessions \/ \E r \in Requests : CreateSession(r)
  BY DEF Next, vars, Send, Answer, Fail, Retry, Expire, Lookup, BeginStart, LinkSession,
         Tick, Connection, Restart, tvars
<1>2. CASE sessions' = sessions
  BY <1>2 DEF Rows
<1>3. ASSUME NEW r \in Requests, CreateSession(r) PROVE Rows \subseteq Rows'
  BY <1>2, <1>3, CreatedRow
<1> QED BY <1>1, <1>2, <1>3

(* What a step does to the requests.                                        *)
LEMMA RequestSteps ==
  ASSUME TypeOK, [Next]_vars
  PROVE  \/ \E r \in Requests, key \in Key : BeginStart(r, key)
         \/ \E r \in Requests : CreateSession(r) \/ LinkSession(r)
         \/ Restart
         \/ UNCHANGED tvars
BY DEF Next, vars, Send, Answer, Fail, Retry, Expire, Lookup, Tick, Connection, tvars

(* A record that is linked was linked before, or a request has linked it    *)
(* just now.                                                                *)
LEMMA LinkSteps ==
  ASSUME TypeOK, [Next]_vars, TrackInv,
         NEW k \in RemoteStarts, IsTracked(k)', ~Pending(k)'
  PROVE  \/ IsTracked(k) /\ ~Pending(k) /\ tracked'[k] = tracked[k]
         \/ \E r \in Requests : /\ LinkSession(r)
                               /\ tracked'[k].tx = request[r].tx
                               /\ IsTracked(k) /\ Pending(k)
                               /\ command[k].key = request[r].key
                               /\ Newest(k, Candidates(request[r].key))
<1>1. ASSUME NEW j \in RemoteStarts, tracked' = Track(j)
      PROVE  IsTracked(k) /\ ~Pending(k) /\ tracked'[k] = tracked[k]
  <2>1. k # j
    BY <1>1, TrackRecord DEF Pending, IsTracked
  <2>2. tracked'[k] = Pruned[k]
    BY <1>1, <2>1, TrackRecord
  <2> QED BY <2>2, PrunedKeepsOrder DEF Pending, IsTracked
<1>2. CASE tracked' = Pruned
  BY <1>2, PrunedKeepsOrder DEF Pending, IsTracked
<1>3. ASSUME NEW r \in Requests, LinkSession(r)
      PROVE  \/ IsTracked(k) /\ ~Pending(k) /\ tracked'[k] = tracked[k]
             \/ /\ tracked'[k].tx = request[r].tx
                /\ IsTracked(k) /\ Pending(k) /\ command[k].key = request[r].key
                /\ Newest(k, Candidates(request[r].key))
  <2>1. request[r].tx \in Nat \ {0}
    BY <1>3, RequestTx DEF LinkSession
  <2>2. tracked' = LinkTransaction(request[r].key, request[r].tx)
    BY <1>3 DEF LinkSession
  <2>3. CASE Newest(k, Candidates(request[r].key))
    BY <2>1, <2>2, <2>3, LinkedRecord
  <2>4. CASE ~Newest(k, Candidates(request[r].key))
    <3>1. tracked'[k] = Pruned[k]
      BY <2>2, <2>4, UnlinkedRecord
    <3> QED BY <3>1, PrunedKeepsOrder DEF Pending, IsTracked
  <2> QED BY <2>3, <2>4
<1>4. CASE tracked' = tracked
  BY <1>4 DEF Pending, IsTracked
<1>5. CASE Restart
  BY <1>5 DEF Restart, IsTracked
<1>6. CASE UNCHANGED vars
  BY <1>4, <1>6 DEF vars
<1> QED BY <1>1, <1>2, <1>3, <1>4, <1>5, <1>6, TrackerSteps

(* The key of a command never changes once it is sent.                      *)
LEMMA KeysStay ==
  ASSUME TypeOK, [Next]_vars, NEW k \in Commands, command[k].pc = "accepted"
  PROVE  command'[k] = command[k]
<1>1. ASSUME NEW j \in Commands, NEW key \in Key, Send(j, key) PROVE command'[k] = command[k]
  BY <1>1 DEF Send, TypeOK, NoCommand
<1>2. ASSUME NEW j \in Commands, NEW status \in {"accepted", "rejected"}, Answer(j, status)
      PROVE  command'[k] = command[k]
  BY <1>2 DEF Answer, Return, TypeOK
<1>3. ASSUME NEW j \in Commands, Fail(j) \/ Retry(j) PROVE command'[k] = command[k]
  BY <1>3 DEF Fail, Retry, Return, TypeOK
<1>4. ASSUME Restart PROVE command'[k] = command[k]
  BY <1>4 DEF Restart, TypeOK
<1>5. \/ command' = command
      \/ \E j \in Commands, key \in Key : Send(j, key)
      \/ \E j \in Commands : \E status \in {"accepted", "rejected"} : Answer(j, status)
      \/ \E j \in Commands : Fail(j) \/ Retry(j)
      \/ Restart
  BY DEF Next, vars, cvars, Expire, Lookup, BeginStart, CreateSession, LinkSession, Tick, Connection
<1> QED BY <1>1, <1>2, <1>3, <1>4, <1>5

LEMMA StepSessionInv == TypeOK /\ TrackInv /\ SessionInv /\ [Next]_vars => SessionInv'
<1> SUFFICES ASSUME TypeOK, TrackInv, SessionInv, [Next]_vars PROVE SessionInv'
  OBVIOUS
<1>1. ASSUME NEW k \in RemoteStarts, IsTracked(k)', ~Pending(k)'
      PROVE  <<command'[k].key, tracked'[k].tx>> \in Rows'
  <2>1. command'[k] = command[k]
    BY <1>1, LinkSteps, KeysStay DEF TrackInv, Accepted, Commands
  <2>2. <<command[k].key, tracked'[k].tx>> \in Rows
    BY <1>1, LinkSteps DEF SessionInv, LinkSession
  <2> QED BY <2>1, <2>2, RowsStay
<1>2. ASSUME NEW r \in Requests, request'[r].pc = "link"
      PROVE  <<request'[r].key, request'[r].tx>> \in Rows'
  <2>1. ASSUME NEW q \in Requests, NEW key \in Key, BeginStart(q, key)
        PROVE  request'[r] = request[r]
    BY <1>2, <2>1 DEF BeginStart, TypeOK
  <2>2. ASSUME NEW q \in Requests, LinkSession(q) PROVE request'[r] = request[r]
    BY <1>2, <2>2 DEF LinkSession, TypeOK, Idle
  <2>3. ASSUME NEW q \in Requests, CreateSession(q), q # r PROVE request'[r] = request[r]
    BY <2>3 DEF CreateSession, TypeOK
  <2>4. ASSUME CreateSession(r) PROVE <<request'[r].key, request'[r].tx>> \in Rows'
    <3>1. request[r] \in Request
      BY <2>4, RequestShape DEF CreateSession, TypeOK
    <3>2. /\ sessions' = Append(sessions, [key |-> request[r].key, tx |-> request[r].tx])
          /\ request' = [request EXCEPT ![r].pc = "link"]
      BY <1>2, <2>4 DEF CreateSession, TypeOK, Idle
    <3>3. request'[r].key = request[r].key /\ request'[r].tx = request[r].tx
      BY <3>1, <3>2 DEF TypeOK, Request
    <3>4. [key |-> request[r].key, tx |-> request[r].tx] \in StartedSession
      BY <3>1 DEF Request, StartedSession
    <3>5. sessions' # sessions
      BY <3>2, <3>4 DEF TypeOK
    <3> QED BY <2>4, <3>3, <3>5, CreatedRow
  <2>5. CASE UNCHANGED tvars
    BY <1>2, <2>5, RowsStay DEF tvars, SessionInv
  <2>6. CASE request'[r] = request[r]
    BY <1>2, <2>6, RowsStay DEF SessionInv
  <2>7. ~Restart
    BY <1>2 DEF Restart, Idle
  <2> QED BY <2>1, <2>2, <2>3, <2>4, <2>5, <2>6, <2>7, RequestSteps
<1> QED BY <1>1, <1>2 DEF SessionInv

LEMMA InitSessionInv == Init => SessionInv
BY DEF Init, SessionInv, IsTracked, Idle

(* A linked remote start names a transaction whose session exists, on the   *)
(* connector and for the user of that remote start.                         *)
THEOREM LinksAreRight == Spec => []LinkedToItsSession
<1>1. SessionInv => LinkedToItsSession
  BY DEF SessionInv, LinkedToItsSession, Rows
<1> QED
  BY <1>1, InitTypeOK, StepTypeOK, InitTrackInv, StepTrackInv, InitSessionInv, StepSessionInv,
     PTL DEF Spec

-----------------------------------------------------------------------------
(* Transaction ids                                                         *)

\* Within one process the ids in use are below the next one and apart.
IdInv ==
  /\ \A r \in Requests : Active(r) => request[r].tx < nextTransactionId
  /\ \A q, r \in Requests :
       (Active(q) /\ Active(r) /\ request[q].tx = request[r].tx) => q = r
  /\ \A k \in RemoteStarts : (IsTracked(k) /\ ~Pending(k)) =>
       /\ tracked[k].tx < nextTransactionId
       /\ \A r \in Requests : Active(r) => tracked[k].tx # request[r].tx
  /\ OneRecordPerTransaction

LEMMA InitIdInv == Init => IdInv
BY DEF Init, IdInv, Active, IsTracked, Idle, OneRecordPerTransaction

(* Every active request was active before, with the same id, or has just    *)
(* been given the next one.                                                 *)
LEMMA ActiveSteps ==
  ASSUME TypeOK, [Next]_vars
  PROVE  \/ /\ nextTransactionId' = nextTransactionId + 1
            /\ tracked' = tracked
            /\ \E r \in Requests :
                 /\ request'[r].tx = nextTransactionId
                 /\ \A q \in Requests : q # r => request'[q] = request[q]
         \/ /\ nextTransactionId' = nextTransactionId
            /\ \A r \in Requests :
                 Active(r)' => Active(r) /\ request'[r].tx = request[r].tx
         \/ /\ Restart
            /\ \A r \in Requests : ~Active(r)'
            /\ \A k \in RemoteStarts : ~IsTracked(k)'
<1>1. ASSUME NEW r \in Requests, NEW key \in Key, BeginStart(r, key)
      PROVE  /\ nextTransactionId' = nextTransactionId + 1 /\ tracked' = tracked
             /\ request'[r].tx = nextTransactionId
             /\ \A q \in Requests : q # r => request'[q] = request[q]
  BY <1>1 DEF BeginStart, TypeOK, cvars
<1>2. ASSUME NEW r \in Requests, CreateSession(r)
      PROVE  /\ nextTransactionId' = nextTransactionId
             /\ \A q \in Requests :
                  Active(q)' => Active(q) /\ request'[q].tx = request[q].tx
  <2>1. request[r] \in Request /\ Active(r)
    BY <1>2, RequestShape DEF CreateSession, TypeOK, Active
  <2>2. Active(r)' => request'[r].tx = request[r].tx
    BY <1>2, <2>1 DEF CreateSession, TypeOK, Active, Idle, Request
  <2>3. \A q \in Requests : q # r => request'[q] = request[q]
    BY <1>2 DEF CreateSession, TypeOK
  <2> QED BY <1>2, <2>1, <2>2, <2>3 DEF CreateSession, Active
<1>3. ASSUME NEW r \in Requests, LinkSession(r)
      PROVE  /\ nextTransactionId' = nextTransactionId
             /\ \A q \in Requests :
                  Active(q)' => Active(q) /\ request'[q].tx = request[q].tx
  BY <1>3 DEF LinkSession, TypeOK, Active, Idle
<1>4. ASSUME Restart PROVE /\ \A r \in Requests : ~Active(r)'
                           /\ \A k \in RemoteStarts : ~IsTracked(k)'
  BY <1>4 DEF Restart, Active, Idle, IsTracked
<1>5. ASSUME UNCHANGED tvars
      PROVE  /\ nextTransactionId' = nextTransactionId
             /\ \A q \in Requests :
                  Active(q)' => Active(q) /\ request'[q].tx = request[q].tx
  BY <1>5 DEF tvars, Active
<1>6. CASE \E r \in Requests, key \in Key : BeginStart(r, key)
  BY <1>1, <1>6
<1>7. CASE \E r \in Requests : CreateSession(r) \/ LinkSession(r)
  BY <1>2, <1>3, <1>7
<1>8. CASE Restart
  BY <1>4, <1>8
<1>9. CASE UNCHANGED tvars
  BY <1>5, <1>9
<1> QED BY <1>6, <1>7, <1>8, <1>9, RequestSteps

LEMMA StepIdInv == TypeOK /\ TrackInv /\ IdInv /\ [Next]_vars => IdInv'
<1> SUFFICES ASSUME TypeOK, TrackInv, IdInv, [Next]_vars PROVE IdInv'
  OBVIOUS
<1>1. \A r \in Requests : Active(r) => request[r].tx \in Nat \ {0}
  BY RequestTx DEF Active
<1>2. ASSUME NEW k \in RemoteStarts, IsTracked(k) PROVE tracked[k].tx \in Nat
  BY <1>2, TrackedShape DEF IsTracked, TypeOK, TrackedStart
<1>3. nextTransactionId \in Nat
  BY DEF TypeOK
<1>4. ASSUME NEW s \in Requests, nextTransactionId' = nextTransactionId + 1, tracked' = tracked,
             request'[s].tx = nextTransactionId,
             \A q \in Requests : q # s => request'[q] = request[q]
      PROVE  IdInv'
  <2>1. \A r \in Requests : r # s => (Active(r)' <=> Active(r))
    BY <1>4 DEF Active
  <2>2. \A r \in Requests : Active(r)' => request'[r].tx < nextTransactionId'
    BY <1>1, <1>3, <1>4, <2>1 DEF IdInv
  <2>3. \A q, r \in Requests :
          (Active(q)' /\ Active(r)' /\ request'[q].tx = request'[r].tx) => q = r
    BY <1>1, <1>3, <1>4, <2>1 DEF IdInv
  <2>4. ASSUME NEW k \in RemoteStarts, IsTracked(k)', ~Pending(k)'
        PROVE  /\ tracked'[k].tx < nextTransactionId'
               /\ \A r \in Requests : Active(r)' => tracked'[k].tx # request'[r].tx
    <3>1. IsTracked(k) /\ ~Pending(k) /\ tracked'[k] = tracked[k] /\ tracked[k].tx \in Nat
      BY <1>2, <1>4, <2>4 DEF IsTracked, Pending
    <3> QED BY <1>3, <1>4, <2>1, <3>1 DEF IdInv
  <2>5. OneRecordPerTransaction'
    BY <1>4 DEF IdInv, OneRecordPerTransaction, IsTracked, Pending
  <2> QED BY <2>2, <2>3, <2>4, <2>5 DEF IdInv
<1>5. ASSUME nextTransactionId' = nextTransactionId,
             \A r \in Requests : Active(r)' => Active(r) /\ request'[r].tx = request[r].tx
      PROVE  IdInv'
  <2>1. \A r \in Requests : Active(r)' => request'[r].tx < nextTransactionId'
    BY <1>5 DEF IdInv
  <2>2. \A q, r \in Requests :
          (Active(q)' /\ Active(r)' /\ request'[q].tx = request'[r].tx) => q = r
    BY <1>5 DEF IdInv
  <2>3. ASSUME NEW r \in Requests, LinkSession(r) PROVE Active(r) /\ ~Active(r)'
    BY <2>3 DEF LinkSession, Active, TypeOK, Idle
  <2>4. ASSUME NEW k \in RemoteStarts, IsTracked(k)', ~Pending(k)'
        PROVE  /\ tracked'[k].tx < nextTransactionId'
               /\ \A r \in Requests : Active(r)' => tracked'[k].tx # request'[r].tx
    <3>1. CASE IsTracked(k) /\ ~Pending(k) /\ tracked'[k] = tracked[k]
      BY <1>5, <3>1 DEF IdInv
    <3>2. ASSUME NEW q \in Requests, LinkSession(q), tracked'[k].tx = request[q].tx
          PROVE  /\ tracked'[k].tx < nextTransactionId'
                 /\ \A r \in Requests : Active(r)' => tracked'[k].tx # request'[r].tx
      BY <1>5, <2>3, <3>2 DEF IdInv
    <3> QED BY <2>4, <3>1, <3>2, LinkSteps
  <2>5. OneRecordPerTransaction'
    <3> SUFFICES ASSUME NEW j \in RemoteStarts, NEW k \in RemoteStarts,
                        IsTracked(j)', ~Pending(j)', IsTracked(k)', ~Pending(k)',
                        tracked'[j].tx = tracked'[k].tx
                 PROVE  j = k
      BY DEF OneRecordPerTransaction, Pending
    <3> DEFINE Stays(i) == IsTracked(i) /\ ~Pending(i) /\ tracked'[i] = tracked[i]
    <3> DEFINE Joins(i, r) == /\ LinkSession(r) /\ tracked'[i].tx = request[r].tx
                              /\ IsTracked(i) /\ Newest(i, Candidates(request[r].key))
    <3>1. \A i \in {j, k} : Stays(i) \/ \E r \in Requests : Joins(i, r)
      BY LinkSteps
    <3>2. CASE Stays(j) /\ Stays(k)
      BY <3>2 DEF IdInv, OneRecordPerTransaction
    <3>3. ASSUME NEW i \in {j, k}, NEW l \in {j, k}, NEW r \in Requests, Stays(i), Joins(l, r)
          PROVE  FALSE
      <4>1. tracked[i].tx = request[r].tx
        BY <3>3
      <4> QED BY <2>3, <3>3, <4>1 DEF IdInv
    <3>4. ASSUME NEW q \in Requests, NEW r \in Requests, Joins(j, q), Joins(k, r)
          PROVE  j = k
      <4>1. q = r
        BY <2>3, <3>4 DEF IdInv
      <4>2. /\ tracked[j].order \in Nat /\ tracked[k].order \in Nat
        BY <3>4, TrackedShape DEF IsTracked, TypeOK, TrackedStart
      <4>3. tracked[j].order = tracked[k].order
        BY <3>4, <4>1, <4>2 DEF Newest
      <4> QED BY <3>4, <4>3 DEF TrackInv
    <3> HIDE DEF Stays, Joins
    <3> QED BY <3>1, <3>2, <3>3, <3>4
  <2> QED BY <2>1, <2>2, <2>4, <2>5 DEF IdInv
<1>6. ASSUME \A r \in Requests : ~Active(r)', \A k \in RemoteStarts : ~IsTracked(k)'
      PROVE  IdInv'
  BY <1>6 DEF IdInv, OneRecordPerTransaction
<1> QED BY <1>4, <1>5, <1>6, ActiveSteps

(* One transaction answers one remote start, however StartTransactions      *)
(* interleave.                                                              *)
THEOREM OneTransactionOneRecord == Spec => []OneRecordPerTransaction
<1>1. IdInv => OneRecordPerTransaction
  BY DEF IdInv
<1> QED
  BY <1>1, InitTypeOK, StepTypeOK, InitTrackInv, StepTrackInv, InitIdInv, StepIdInv, PTL DEF Spec

\* A linked remote start and its session name each other and nothing else.
THEOREM LinksAreOneToOne == Spec => []LinksAreSound
<1>1. LinkedToItsSession /\ OneRecordPerTransaction => LinksAreSound
  BY DEF LinksAreSound
<1> QED BY <1>1, LinksAreRight, OneTransactionOneRecord, PTL

-----------------------------------------------------------------------------
(* Sessions have ids of their own, over the life of several processes       *)

\* As long as no process has handed ids out faster than one a second.
UniqueIds ==
  ~outrun =>
    /\ \A i \in DOMAIN sessions : sessions[i].tx < nextTransactionId
    /\ \A i, j \in DOMAIN sessions : sessions[i].tx = sessions[j].tx => i = j
    /\ \A r \in Requests : request[r].pc = "create" =>
         \A i \in DOMAIN sessions : sessions[i].tx # request[r].tx

LEMMA InitUniqueIds == Init => UniqueIds
BY DEF Init, UniqueIds, Idle

(* A step adds no session, or the session of a request that was creating it.*)
LEMMA StepUniqueIds == TypeOK /\ IdInv /\ UniqueIds /\ [Next]_vars => UniqueIds'
<1> SUFFICES ASSUME TypeOK, IdInv, UniqueIds, [Next]_vars, ~outrun' PROVE UniqueIds'
  BY DEF UniqueIds
<1>1. ~outrun
  BY DEF Next, vars, Send, Answer, Fail, Retry, Expire, Lookup, BeginStart, CreateSession,
         LinkSession, Tick, Connection, Restart, TypeOK
<1>2. nextTransactionId \in Nat /\ \A i \in DOMAIN sessions : sessions[i].tx \in Nat
  <2>1. \A i \in DOMAIN sessions : sessions[i] \in StartedSession
    BY DEF TypeOK
  <2> QED BY <2>1 DEF TypeOK, StartedSession
<1>3. ASSUME NEW r \in Requests, NEW key \in Key, BeginStart(r, key) PROVE UniqueIds'
  <2>1. /\ nextTransactionId' = nextTransactionId + 1 /\ sessions' = sessions
        /\ request'[r].tx = nextTransactionId
        /\ \A q \in Requests : q # r => request'[q] = request[q]
    BY <1>3 DEF BeginStart, TypeOK
  <2> QED BY <1>1, <1>2, <2>1 DEF UniqueIds
<1>4. ASSUME NEW r \in Requests, CreateSession(r) PROVE UniqueIds'
  <2>1. /\ request[r].pc = "create" /\ nextTransactionId' = nextTransactionId
        /\ \A q \in Requests : q # r => request'[q] = request[q]
    BY <1>4 DEF CreateSession, TypeOK
  <2>2. request'[r].pc # "create"
    <3>1. request[r] \in Request
      BY <2>1, RequestShape DEF TypeOK
    <3> QED BY <1>4, <3>1 DEF CreateSession, TypeOK, Idle, Request
  <2>3. CASE sessions' = sessions
    BY <1>1, <2>1, <2>2, <2>3 DEF UniqueIds
  <2>4. CASE sessions' # sessions
    <3> DEFINE n == Len(sessions)
    <3>1. /\ n \in Nat /\ DOMAIN sessions = 1 .. n /\ DOMAIN sessions' = 1 .. n + 1
          /\ \A i \in 1 .. n : sessions'[i] = sessions[i]
          /\ sessions'[n + 1].tx = request[r].tx
      <4>1. sessions'[n + 1] = [key |-> request[r].key, tx |-> request[r].tx]
        BY <1>4, <2>4, CreatedRow
      <4>2. sessions'[n + 1].tx = request[r].tx
        BY <4>1
      <4> QED BY <1>4, <2>4, <4>2, CreatedRow
    <3>2. request[r].tx < nextTransactionId /\ \A i \in 1 .. n : sessions[i].tx # request[r].tx
      BY <1>1, <2>1, <3>1 DEF IdInv, UniqueIds, Active
    <3>3. \A q \in Requests : q # r /\ request[q].pc = "create" => request[q].tx # request[r].tx
      BY <2>1 DEF IdInv, Active
    <3> HIDE DEF n
    <3>4. \A i \in DOMAIN sessions' : i \in 1 .. n \/ i = n + 1
      BY <3>1
    <3>5. \A i \in DOMAIN sessions' : sessions'[i].tx < nextTransactionId'
      BY <1>1, <2>1, <3>1, <3>2, <3>4 DEF UniqueIds
    <3>6. \A i, j \in DOMAIN sessions' : sessions'[i].tx = sessions'[j].tx => i = j
      BY <1>1, <3>1, <3>2, <3>4 DEF UniqueIds
    <3>7. \A q \in Requests : request'[q].pc = "create" =>
            \A i \in DOMAIN sessions' : sessions'[i].tx # request'[q].tx
      BY <1>1, <2>1, <2>2, <3>1, <3>3, <3>4 DEF UniqueIds
    <3> QED BY <3>5, <3>6, <3>7 DEF UniqueIds
  <2> QED BY <2>3, <2>4
<1>5. ASSUME NEW r \in Requests, LinkSession(r) PROVE UniqueIds'
  BY <1>1, <1>5 DEF LinkSession, UniqueIds, TypeOK, Idle
<1>6. ASSUME Restart PROVE UniqueIds'
  <2>1. nextTransactionId <= clock /\ clock \in Nat
    <3>1. ~(nextTransactionId > clock)
      BY <1>6, Zenon DEF Restart
    <3> QED BY <1>2, <3>1 DEF TypeOK
  <2>2. nextTransactionId' >= nextTransactionId /\ nextTransactionId' \in Nat
    BY <1>2, <1>6, <2>1 DEF Restart, FirstTransactionId
  <2>3. sessions' = sessions /\ \A r \in Requests : request'[r] = Idle
    BY <1>6 DEF Restart
  <2> QED BY <1>1, <1>2, <2>2, <2>3 DEF UniqueIds, Idle
<1>7. ASSUME UNCHANGED tvars PROVE UniqueIds'
  BY <1>1, <1>7 DEF tvars, UniqueIds
<1>8. CASE \E r \in Requests, key \in Key : BeginStart(r, key)
  BY <1>3, <1>8
<1>9. CASE \E r \in Requests : CreateSession(r) \/ LinkSession(r)
  BY <1>4, <1>5, <1>9
<1> QED BY <1>6, <1>7, <1>8, <1>9, RequestSteps

(* Stopping a transaction finishes the session that was started for it, as  *)
(* long as ids have not been handed out faster than one a second.           *)
THEOREM StopsItsOwnSession == Spec => []StopFindsItsSession
<1>1. TypeOK /\ UniqueIds => StopFindsItsSession
  <2> SUFFICES ASSUME TypeOK, UniqueIds, ~outrun, NEW i \in DOMAIN sessions
               PROVE  FindSessionForStop(sessions[i].key.point, sessions[i].tx) = i
    BY DEF StopFindsItsSession
  <2> DEFINE found == {j \in DOMAIN sessions :
                         sessions[j].tx = sessions[i].tx
                           /\ sessions[j].key.point = sessions[i].key.point}
  <2>1. found = {i}
    BY DEF UniqueIds
  <2>2. i <= i
    BY DEF TypeOK
  <2>3. FindSessionForStop(sessions[i].key.point, sessions[i].tx)
          = CHOOSE k \in found : \A j \in found : j <= k
    BY DEF FindSessionForStop
  <2> HIDE DEF found
  <2> QED BY <2>1, <2>2, <2>3
<1> QED
  BY <1>1, InitTypeOK, StepTypeOK, InitTrackInv, StepTrackInv, InitIdInv, StepIdInv,
     InitUniqueIds, StepUniqueIds, PTL DEF Spec
=============================================================================
