--------------------------- MODULE RemoteCommands ---------------------------
(***************************************************************************)
(* Commands to the chargers and the transactions they lead to:             *)
(* ocpp.remote-start.service.ts and ocpp.remote-stop.service.ts send a     *)
(* command to the registered client of a charge point, with retries;       *)
(* accepted remote starts are tracked in memory, until                     *)
(* handleStartTransaction (ocpp.transactions.service.ts) links the id of   *)
(* the transaction it creates to the newest pending one.                   *)
(*                                                                         *)
(* The charger is the environment: it answers a command or does not, drops *)
(* its connection, and starts transactions whether or not it was told to.  *)
(* The module composes ChargePoints, whose registry the commands read.     *)
(***************************************************************************)
EXTENDS Integers, Sequences, FiniteSets

CONSTANTS
  Points, Clients,    \* as in ChargePoints
  Connectors,         \* OCPP connector numbers
  IdTags,             \* users, as idTags
  RemoteStarts,       \* calls of remoteStartTransaction
  RemoteStops,        \* calls of remoteStopTransaction
  Requests,           \* slots for StartTransaction messages in flight
  MaxAttempts,        \* sends per command; DEFAULT_REMOTE_START_MAX_ATTEMPTS is 3
  MaxClock,           \* bound: seconds
  MaxTransactionId    \* bound: ids handed out

ASSUME AttemptsAssumption == MaxAttempts \in Nat \ {0}
ASSUME StartsAssumption == IsFiniteSet(RemoteStarts)
ASSUME ClockAssumption == MaxClock \in Nat

Commands == RemoteStarts \cup RemoteStops

VARIABLES
  socket, registration,   \* ChargePoints
  command,                \* command[k]: the loop of one remote command
  tracked,                \* trackedRemoteStarts, by the command that was accepted
  expired,                \* tracked remote starts whose expiresAt has passed
  nextTransactionId,
  clock,                  \* Date.now(), in seconds
  sessions,               \* sessions created by StartTransaction, oldest first
  request,                \* request[r]: the StartTransaction slot r is handling
  outrun                  \* history: the ids were ahead of the clock at a restart

lvars == <<socket, registration>>
cvars == <<command, tracked, expired>>
tvars == <<nextTransactionId, sessions, request>>
vars == <<socket, registration, command, tracked, expired, nextTransactionId, clock,
          sessions, request, outrun>>

Link == INSTANCE ChargePoints

\* What links a transaction to a remote start.
Key == [point : Points, connector : Connectors, idTag : IdTags]

NoCommand == [pc |-> "unsent"]
Outgoing ==
  [key : Key, client : Clients, attempt : 1 .. MaxAttempts, pc : {"calling"}]
    \cup [key : Key, client : Clients, attempt : 1 .. MaxAttempts - 1, pc : {"sleeping"}]
\* Of a command that has returned, the key of an accepted one is remembered.
Returned == [key : Key, pc : {"accepted"}] \cup [pc : {"rejected", "failed", "lost"}]

\* A tracked remote start; tx is 0 while it is pending.
Untracked == [order |-> 0]
TrackedStart == [order : Nat \ {0}, tx : Nat]

Idle == [pc |-> "idle"]
Request == [key : Key, tx : Nat \ {0}, pc : {"create", "link"}]

StartedSession == [key : Key, tx : Nat \ {0}]

TypeOK ==
  /\ Link!TypeOK
  /\ command \in [Commands -> Outgoing \cup Returned \cup {NoCommand}]
  /\ tracked \in [RemoteStarts -> TrackedStart \cup {Untracked}]
  /\ expired \subseteq RemoteStarts
  /\ nextTransactionId \in Nat \ {0}
  /\ clock \in Nat
  /\ sessions \in Seq(StartedSession)
  /\ request \in [Requests -> Request \cup {Idle}]
  /\ outrun \in BOOLEAN

\* Mutant: ids start from 1 in every process.
FirstTransactionIdConstant(now) == 1

\* The constructor's Math.max(1, floor(Date.now() / 1000)).
FirstTransactionId(now) == IF now > 1 THEN now ELSE 1

Init ==
  /\ Link!Init
  /\ command = [k \in Commands |-> NoCommand]
  /\ tracked = [k \in RemoteStarts |-> Untracked]
  /\ expired = {}
  /\ clock = 1
  /\ nextTransactionId = FirstTransactionId(clock)
  /\ sessions = <<>>
  /\ request = [r \in Requests |-> Idle]
  /\ outrun = FALSE

-----------------------------------------------------------------------------
(* Tracking                                                                *)

IsTracked(k) == tracked[k] # Untracked
Pending(k) == IsTracked(k) /\ tracked[k].tx = 0

\* Mutant: pending records are dropped whether or not they have expired.
PrunedEagerly == [k \in RemoteStarts |-> IF Pending(k) THEN Untracked ELSE tracked[k]]

\* pruneExpiredPendingRecords: every entry point of the tracker runs it first.
Pruned == [k \in RemoteStarts |-> IF Pending(k) /\ k \in expired THEN Untracked ELSE tracked[k]]

\* Mutant: linked records are candidates again.
CandidatesLinked(key) == {k \in RemoteStarts : Pruned[k] # Untracked /\ command[k].key = key}

\* Mutant: any pending record of the process is a candidate.
CandidatesAnyKey(key) == {k \in RemoteStarts : Pruned[k] # Untracked /\ Pruned[k].tx = 0}

\* The pending records that linkTransactionIdToTrackedRemoteStart may link.
Candidates(key) ==
  {k \in RemoteStarts : Pruned[k] # Untracked /\ Pruned[k].tx = 0 /\ command[k].key = key}

Newest(k, K) == k \in K /\ \A j \in K : tracked[j].order <= tracked[k].order

Accepted == {k \in RemoteStarts : command[k].pc = "accepted"}

\* trackAcceptedRemoteStart, with the record's place in the map's order.
Track(k) == [Pruned EXCEPT ![k] = [order |-> Cardinality(Accepted) + 1, tx |-> 0]]

LinkTransaction(key, tx) ==
  [k \in RemoteStarts |->
     IF Newest(k, Candidates(key)) THEN [Pruned[k] EXCEPT !.tx = tx] ELSE Pruned[k]]

-----------------------------------------------------------------------------
(* remoteStartTransaction and remoteStopTransaction                        *)

\* The registered client is looked up once, before the first attempt; an
\* identity that is not registered is answered with NotFound, and no command.
Send(k, key) ==
  /\ command[k] = NoCommand
  /\ Link!Registered(key.point)
  /\ command' = [command EXCEPT ![k] =
                   [key |-> key, client |-> registration[key.point].client,
                    attempt |-> 1, pc |-> "calling"]]
  /\ UNCHANGED <<lvars, tracked, expired, tvars, clock, outrun>>

Return(k, outcome) ==
  command' = [command EXCEPT ![k] =
                IF outcome = "accepted" THEN [key |-> @.key, pc |-> outcome]
                ELSE [pc |-> outcome]]

\* An answer in time: Accepted (a remote start is tracked) or Rejected.
Answer(k, status) ==
  /\ command[k].pc = "calling"
  /\ Link!Open(command[k].client)
  /\ Return(k, status)
  /\ tracked' = IF status = "accepted" /\ k \in RemoteStarts THEN Track(k) ELSE tracked
  /\ UNCHANGED <<lvars, expired, tvars, clock, outrun>>

\* Mutant: off by one in the test for the last attempt.
FailOnceMore(k) ==
  /\ command[k].pc = "calling"
  /\ IF command[k].attempt > MaxAttempts THEN Return(k, "failed")
     ELSE command' = [command EXCEPT ![k].pc = "sleeping"]
  /\ UNCHANGED <<lvars, tracked, expired, tvars, clock, outrun>>

\* A timeout, an error or an invalid answer: the last attempt gives up.
Fail(k) ==
  /\ command[k].pc = "calling"
  /\ IF command[k].attempt = MaxAttempts THEN Return(k, "failed")
     ELSE command' = [command EXCEPT ![k].pc = "sleeping"]
  /\ UNCHANGED <<lvars, tracked, expired, tvars, clock, outrun>>

\* Mutant: attempts are not counted.
RetryForever(k) ==
  /\ command[k].pc = "sleeping"
  /\ command' = [command EXCEPT ![k].pc = "calling"]
  /\ UNCHANGED <<lvars, tracked, expired, tvars, clock, outrun>>

\* After retryDelayMs the same client is called again.
Retry(k) ==
  /\ command[k].pc = "sleeping"
  /\ command' = [command EXCEPT ![k].pc = "calling", ![k].attempt = @ + 1]
  /\ UNCHANGED <<lvars, tracked, expired, tvars, clock, outrun>>

\* The time to live of an accepted remote start runs out.
Expire(k) ==
  /\ IsTracked(k)
  /\ k \notin expired
  /\ expired' = expired \cup {k}
  /\ UNCHANGED <<lvars, command, tracked, tvars, clock, outrun>>

\* getTrackedRemoteStartTransaction, findTrackedRemoteStartTransactionByTransactionId.
Lookup ==
  /\ tracked' = Pruned
  /\ UNCHANGED <<lvars, command, expired, tvars, clock, outrun>>

-----------------------------------------------------------------------------
(* handleStartTransaction, between its awaits                              *)

\* Mutant: the allocated id is handed out again.
BeginStartSameId(r, key) ==
  /\ request[r] = Idle
  /\ nextTransactionId <= MaxTransactionId
  /\ \E c \in Clients : Link!Connected(c, key.point)
  /\ request' = [request EXCEPT ![r] = [key |-> key, tx |-> nextTransactionId, pc |-> "create"]]
  /\ UNCHANGED <<lvars, cvars, nextTransactionId, sessions, clock, outrun>>

\* The connector and the user are known, or the answer is Invalid and nothing
\* changes; allocateTransactionId runs in the same turn as the insert is sent,
\* when the connection that brought the message may be gone.
BeginStart(r, key) ==
  /\ request[r] = Idle
  /\ nextTransactionId <= MaxTransactionId
  /\ \E c \in Clients : Link!Connected(c, key.point)
  /\ request' = [request EXCEPT ![r] = [key |-> key, tx |-> nextTransactionId, pc |-> "create"]]
  /\ nextTransactionId' = nextTransactionId + 1
  /\ UNCHANGED <<lvars, cvars, sessions, clock, outrun>>

\* The session row is inserted, and the started notification awaited; a failed
\* insert fails the request and its id is not used again.
CreateSession(r) ==
  /\ request[r].pc = "create"
  /\ \/ /\ sessions' = Append(sessions, [key |-> request[r].key, tx |-> request[r].tx])
        /\ request' = [request EXCEPT ![r].pc = "link"]
     \/ /\ request' = [request EXCEPT ![r] = Idle]
        /\ UNCHANGED sessions
  /\ UNCHANGED <<lvars, cvars, nextTransactionId, clock, outrun>>

\* linkTransactionIdToTrackedRemoteStart, and the answer to the charger.
LinkSession(r) ==
  /\ request[r].pc = "link"
  /\ tracked' = LinkTransaction(request[r].key, request[r].tx)
  /\ request' = [request EXCEPT ![r] = Idle]
  /\ UNCHANGED <<lvars, command, expired, nextTransactionId, sessions, clock, outrun>>

\* findSessionForStop: the newest session of this charge point with this id.
FindSessionForStop(point, tx) ==
  LET found == {i \in DOMAIN sessions : sessions[i].tx = tx /\ sessions[i].key.point = point} IN
  CHOOSE i \in found : \A j \in found : j <= i

-----------------------------------------------------------------------------
(* The environment                                                         *)

Tick ==
  /\ clock < MaxClock
  /\ clock' = clock + 1
  /\ UNCHANGED <<lvars, cvars, tvars, outrun>>

Connection ==
  /\ \E c \in Clients :
       \/ \E p \in Points : Link!Connect(c, p)
       \/ Link!Lose(c)
       \/ Link!Boot(c)
       \/ Link!HandleClose(c)
  /\ UNCHANGED <<cvars, tvars, clock, outrun>>

\* All that is in memory is lost; the ids start from the clock again.
Restart ==
  /\ Link!Restart
  /\ command' = [k \in Commands |->
                   IF command[k].pc \in {"calling", "sleeping"}
                   THEN [pc |-> "lost"]
                   ELSE command[k]]
  /\ tracked' = [k \in RemoteStarts |-> Untracked]
  /\ expired' = {}
  /\ request' = [r \in Requests |-> Idle]
  /\ nextTransactionId' = FirstTransactionId(clock)
  /\ outrun' = (outrun \/ nextTransactionId > clock)
  /\ UNCHANGED <<clock, sessions>>

Next ==
  \/ \E k \in Commands :
       \/ \E key \in Key : Send(k, key)
       \/ \E status \in {"accepted", "rejected"} : Answer(k, status)
       \/ Fail(k)
       \/ Retry(k)
  \/ \E k \in RemoteStarts : Expire(k)
  \/ Lookup
  \/ \E r \in Requests :
       \/ \E key \in Key : BeginStart(r, key)
       \/ CreateSession(r)
       \/ LinkSession(r)
  \/ Tick
  \/ Connection
  \/ Restart

\* Timers fire: a call ends by callTimeoutMs, a sleep by retryDelayMs.
Fairness ==
  \A k \in Commands :
    /\ WF_vars(Fail(k) \/ \E status \in {"accepted", "rejected"} : Answer(k, status))
    /\ WF_vars(Retry(k))

Spec == Init /\ [][Next]_vars /\ Fairness

-----------------------------------------------------------------------------
(* Properties                                                              *)

\* A linked remote start names a transaction whose session exists, on the
\* connector and for the user of that remote start: the three-field match of
\* findLatestPendingTrackedRecord, after the insert and never before it.
LinkedToItsSession ==
  \A k \in RemoteStarts : (IsTracked(k) /\ ~Pending(k)) =>
    \E i \in DOMAIN sessions :
      sessions[i].tx = tracked[k].tx /\ sessions[i].key = command[k].key

\* One transaction answers one remote start: findTracked...ByTransactionId
\* never has two records to choose from, however StartTransactions interleave.
OneRecordPerTransaction ==
  \A j, k \in RemoteStarts :
    (IsTracked(j) /\ IsTracked(k) /\ ~Pending(j) /\ tracked[j].tx = tracked[k].tx) => j = k

\* The link between a remote start and its transaction is one to one.
LinksAreSound == LinkedToItsSession /\ OneRecordPerTransaction

\* Links are final: as long as the process lives, no later StartTransaction
\* and no expiry takes a linked record away or gives it another transaction.
LinksAreFinal ==
  [][\A k \in RemoteStarts :
       (IsTracked(k) /\ ~Pending(k)) =>
         (tracked'[k] = tracked[k] \/ (Restart /\ ~IsTracked(k)'))]_vars

\* "Accepted requests are persisted in-memory so later inbound StartTransaction
\* messages can be linked": a remote start answered Accepted keeps its record
\* until its time to live has run out or the process has restarted.
AcceptedStaysTracked ==
  [][\A k \in RemoteStarts :
       (command'[k].pc = "accepted" /\ ~IsTracked(k)')
         => (k \in expired \/ Restart \/ (command[k].pc = "accepted" /\ ~IsTracked(k)))]_vars

\* What is tracked is kept: a link for the life of the process, and the record of an
\* accepted remote start for its time to live.
RecordsAreKept == LinksAreFinal /\ AcceptedStaysTracked

\* Stopping a transaction finishes the session that was started for it: ids
\* are unique per charge point, restarts included, as long as ids have not been
\* handed out faster than one a second (allocateTransactionId restarts from
\* the clock).
StopFindsItsSession ==
  ~outrun => \A i \in DOMAIN sessions :
               FindSessionForStop(sessions[i].key.point, sessions[i].tx) = i

\* A remote command is answered after at most MaxAttempts calls, whatever the
\* charger and its connection do.
CommandReturns ==
  \A k \in Commands :
    (command[k].pc = "calling") ~> (command[k].pc \notin {"calling", "sleeping"})

\* ChargePoints' RegisteredIsOpen, under commands and restarts.
RegisteredIsOpen == Link!RegisteredIsOpen
ConnectedIsRegistered == Link!ConnectedIsRegistered
=============================================================================
