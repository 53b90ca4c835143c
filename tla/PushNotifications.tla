------------------------- MODULE PushNotifications -------------------------
(***************************************************************************)
(* Push notifications: the registration of device tokens and the delivery  *)
(* of a template to them (notifications.service.ts, fcm-admin.client.ts),  *)
(* and the runtime of the mobile app that registers its token and handles  *)
(* what arrives (fcm-runtime.ts, fcm-handlers.ts).  The messaging service  *)
(* gives each phone one token at a time and answers that older ones are    *)
(* not registered.                                                         *)
(***************************************************************************)
EXTENDS Integers, FiniteSets

CONSTANTS
  Users, Phones,
  Kinds,       \* the event types that are sent
  Sends,       \* slots for deliveries in progress
  MaxToken,    \* bound on the tokens of a phone
  MaxRequests  \* bound on registration requests on their way

Nobody == "nobody"


VARIABLES
  rows,     \* UserPushToken by token: its user, or Nobody without a row, and isActive
  enabled,  \* User.pushNotificationsEnabled
  client,   \* FcmAdminClient.messagingClient: undefined, null or ready
  phone,    \* the runtime of the app, and the token the phone has
  calls,    \* registration requests on their way
  sends,    \* deliveries in progress
  handled   \* history: what the last step called handlers of the app with

vars == <<rows, enabled, client, phone, calls, sends, handled>>

Tokens == Phones \X (1..MaxToken)
EventTypes == {"SESSION_STARTED", "SESSION_COMPLETED", "PAYMENT_SUCCEEDED", "PAYMENT_FAILED"}

PushAssumption ==
  MaxToken \in Nat \ {0} /\ MaxRequests \in Nat /\ Nobody \notin Users /\ Kinds \subseteq EventTypes

Callbacks == {"onSessionStarted", "onSessionCompleted", "onPaymentSucceeded", "onPaymentFailed"}

Message == [kind : Kinds, to : Users]
NoMessage == [kind |-> "none"]
Idle == [pc |-> "idle"]
\* stale: phones whose runtime began or ended since the tokens were read.
Send == [pc : {"send", "deactivate"}, message : Message, tokens : SUBSET Tokens,
         stale : SUBSET Phones]
Call == [op : {"register", "unregister"}, user : Users, token : Tokens]
\* token: what the phone has; known: what the runtime has registered, 0 when a
\* request failed or the user took the token off; initial: tapped notification.
Phone == [user : Users \cup {Nobody}, pc : {"off", "permission", "register", "initial", "running"},
          token : 1..MaxToken, known : 0..MaxToken, initial : Message \cup {NoMessage}]

TypeOK ==
  /\ rows \in [Tokens -> [user : Users \cup {Nobody}, isActive : BOOLEAN]]
  /\ enabled \in [Users -> BOOLEAN]
  /\ client \in {"undefined", "null", "ready"}
  /\ phone \in [Phones -> Phone]
  /\ calls \subseteq Call /\ Cardinality(calls) <= MaxRequests
  /\ sends \in [Sends -> {Idle} \cup Send]
  /\ \A h \in handled : h.callback \in Callbacks /\ h.kind \in Kinds
                        /\ {h.user, h.to} \subseteq Users /\ h.fresh \in BOOLEAN

Init ==
  /\ rows = [t \in Tokens |-> [user |-> Nobody, isActive |-> FALSE]]
  /\ enabled = [u \in Users |-> TRUE]
  /\ client = "undefined"
  /\ phone = [p \in Phones |-> [user |-> Nobody, pc |-> "off", token |-> 1, known |-> 0,
                                initial |-> NoMessage]]
  /\ calls = {}
  /\ sends = [s \in Sends |-> Idle]
  /\ handled = {}

-----------------------------------------------------------------------------
(* The service                                                             *)

\* Mutant: an upsert that leaves the user of the row as it is.
UpsertedInPlace(user, token) ==
  [rows EXCEPT ![token] = [user |-> IF @.user = Nobody THEN user ELSE @.user, isActive |-> TRUE]]

\* The upsert of registerPushToken: the token moves to the user.
Upserted(user, token) == [rows EXCEPT ![token] = [user |-> user, isActive |-> TRUE]]

\* Mutant: the updates leave out the user.
DeactivatedForAll(user, tokens) ==
  [t \in Tokens |-> IF t \in tokens THEN [rows[t] EXCEPT !.isActive = FALSE] ELSE rows[t]]

\* The updateMany of unregisterPushToken and of a delivery.
Deactivated(user, tokens) ==
  [t \in Tokens |-> IF t \in tokens /\ rows[t].user = user
                    THEN [rows[t] EXCEPT !.isActive = FALSE] ELSE rows[t]]

\* A registration of another user than the one who is signed in comes late: it
\* takes the token back, and the phone is no longer known under its user.
Outdated(call) ==
  /\ call.op = "register"
  /\ phone[call.token[1]].user # call.user

\* registerPushToken, unregisterPushToken
HandleCall(call) ==
  LET p == call.token[1]
      first == phone[p].pc = "register" /\ phone[p].user = call.user /\ call.op = "register"
  IN  /\ call \in calls
      /\ calls' = calls \ {call}
      /\ rows' = IF call.op = "register" THEN Upserted(call.user, call.token)
                 ELSE Deactivated(call.user, {call.token})
      /\ phone' = [phone EXCEPT ![p].known =
                     CASE Outdated(call) -> 0
                       [] call.op = "unregister" /\ call.user = phone[p].user -> 0
                       [] first -> call.token[2]
                       [] OTHER -> @,
                   ![p].pc = IF first THEN "initial" ELSE @]
      /\ sends' = [s \in Sends |->
           IF sends[s].pc # "idle" /\ (first \/ Outdated(call))
           THEN [sends[s] EXCEPT !.stale = @ \cup {p}] ELSE sends[s]]
      /\ handled' = {}
      /\ UNCHANGED <<enabled, client>>

\* The request is lost or refused: the first registration ends the runtime, that
\* of a refreshed token fails unseen.
LoseCall(call) ==
  LET p == call.token[1]
      first == phone[p].pc = "register" /\ phone[p].user = call.user /\ call.op = "register"
  IN  /\ call \in calls
      /\ calls' = calls \ {call}
      /\ phone' = [phone EXCEPT
           ![p].known = IF call.op = "register" /\ phone[p].user = call.user THEN 0 ELSE @,
           ![p].pc = IF first THEN "off" ELSE @,
           ![p].user = IF first THEN Nobody ELSE @]
      /\ handled' = {}
      /\ UNCHANGED <<rows, enabled, client, sends>>

\* The user updates the preference.
SetEnabled(u) ==
  /\ enabled' = [enabled EXCEPT ![u] = ~@]
  /\ handled' = {}
  /\ UNCHANGED <<rows, client, phone, calls, sends>>

ActiveTokens(u) == {t \in Tokens : rows[t].user = u /\ rows[t].isActive}

\* sendTemplateNotification reads the user and its active tokens.
BeginSend(s, u, kind) ==
  /\ sends[s] = Idle
  /\ enabled[u] /\ ActiveTokens(u) # {}
  /\ sends' = [sends EXCEPT ![s] = [pc |-> "send", message |-> [kind |-> kind, to |-> u],
                                    tokens |-> ActiveTokens(u), stale |-> {}]]
  /\ handled' = {}
  /\ UNCHANGED <<rows, enabled, client, phone, calls>>

\* resolveMessagingClient decides once: without the environment, or after a failed
\* initialization, there are no notifications until the process restarts.
ResolveClient(s) ==
  /\ sends[s].pc = "send" /\ client = "undefined"
  /\ client' \in {"null", "ready"}
  /\ handled' = {}
  /\ UNCHANGED <<rows, enabled, phone, calls, sends>>

\* handleIncomingFcmMessage
Callback(kind) ==
  CASE kind = "SESSION_STARTED" -> "onSessionStarted"
    [] kind = "SESSION_COMPLETED" -> "onSessionCompleted"
    [] kind = "PAYMENT_SUCCEEDED" -> "onPaymentSucceeded"
    [] OTHER -> "onPaymentFailed"

Handling(p, message, fresh) ==
  [callback |-> Callback(message.kind), kind |-> message.kind, user |-> phone[p].user,
   to |-> message.to, fresh |-> fresh]

\* resolveInvalidTokens
Invalid(tokens) == {t \in tokens : phone[t[1]].token # t[2]}

Listening(p) == phone[p].pc \in {"initial", "running"}

\* sendMulticast: the phones that listen call their handlers; on the others the
\* system shows the notification and the app is opened with it, or not.
Multicast(s) ==
  LET send == sends[s]
      reached == {t[1] : t \in send.tokens \ Invalid(send.tokens)}
  IN  /\ send.pc = "send" /\ client = "ready"
      /\ sends' = [sends EXCEPT ![s] =
           IF Invalid(send.tokens) = {} THEN Idle
           ELSE [send EXCEPT !.pc = "deactivate", !.tokens = Invalid(@)]]
      /\ handled' =
           {Handling(p, send.message, p \notin send.stale /\ phone[p].known = phone[p].token) :
              p \in {q \in reached : Listening(q)}}
      /\ \E tapped \in SUBSET {p \in reached : phone[p].pc = "off"} :
           phone' = [p \in Phones |->
             IF p \in tapped THEN [phone[p] EXCEPT !.initial = send.message] ELSE phone[p]]
      /\ UNCHANGED <<rows, enabled, client, calls>>

\* A null client sends nothing; the service fails, and its error is logged.
SendNothing(s) ==
  /\ sends[s].pc = "send" /\ client # "undefined"
  /\ sends' = [sends EXCEPT ![s] = Idle]
  /\ handled' = {}
  /\ UNCHANGED <<rows, enabled, client, phone, calls>>

\* The tokens that the service has refused are switched off.
DeactivateInvalid(s) ==
  /\ sends[s].pc = "deactivate"
  /\ rows' = Deactivated(sends[s].message.to, sends[s].tokens)
  /\ sends' = [sends EXCEPT ![s] = Idle]
  /\ handled' = {}
  /\ UNCHANGED <<enabled, client, phone, calls>>

-----------------------------------------------------------------------------
(* initializeFcmRuntime                                                    *)

Initialize(p, u) ==
  /\ phone[p].pc = "off"
  /\ phone' = [phone EXCEPT ![p].pc = "permission", ![p].user = u, ![p].known = 0]
  /\ handled' = {}
  /\ UNCHANGED <<rows, enabled, client, calls, sends>>

Refuse(p) ==
  /\ phone[p].pc = "permission"
  /\ phone' = [phone EXCEPT ![p].pc = "off", ![p].user = Nobody]
  /\ handled' = {}
  /\ UNCHANGED <<rows, enabled, client, calls, sends>>

Sent(op, p) ==
  /\ Cardinality(calls) < MaxRequests
  /\ calls' = calls \cup {[op |-> op, user |-> phone[p].user, token |-> <<p, phone'[p].token>>]}

\* requestPermission is granted, getToken answers, registerTokenIfPresent.
RegisterToken(p) ==
  /\ phone[p].pc = "permission"
  /\ phone' = [phone EXCEPT ![p].pc = "register"]
  /\ Sent("register", p)
  /\ handled' = {}
  /\ UNCHANGED <<rows, enabled, client, sends>>

\* getInitialNotification; the listeners are on since the registration answered.
HandleInitial(p) ==
  /\ phone[p].pc = "initial"
  /\ handled' = IF phone[p].initial = NoMessage THEN {}
                ELSE {Handling(p, phone[p].initial, FALSE)}
  /\ phone' = [phone EXCEPT ![p].pc = "running", ![p].initial = NoMessage]
  /\ UNCHANGED <<rows, enabled, client, calls, sends>>

\* The service gives the phone another token: a runtime that listens registers
\* it and does not wait; one that has not come so far misses it.
RefreshToken(p) ==
  /\ phone[p].token < MaxToken
  /\ phone' = [phone EXCEPT ![p].token = @ + 1,
                            ![p].known = IF Listening(p) /\ @ # 0 THEN phone[p].token + 1 ELSE @]
  /\ IF Listening(p) THEN Sent("register", p) ELSE UNCHANGED calls
  /\ handled' = {}
  /\ UNCHANGED <<rows, enabled, client, sends>>

\* The user takes the token off with the API.
Unregister(p) ==
  /\ Listening(p)
  /\ phone' = [phone EXCEPT ![p].known = 0]
  /\ Sent("unregister", p)
  /\ handled' = {}
  /\ UNCHANGED <<rows, enabled, client, sends>>

\* The cleanup takes the listeners off; the token stays registered.
Cleanup(p) ==
  /\ phone[p].pc = "running"
  /\ phone' = [phone EXCEPT ![p].pc = "off", ![p].user = Nobody, ![p].known = 0]
  /\ sends' = [s \in Sends |-> IF sends[s].pc = "idle" THEN Idle
                               ELSE [sends[s] EXCEPT !.stale = @ \cup {p}]]
  /\ handled' = {}
  /\ UNCHANGED <<rows, enabled, client, calls>>

Next ==
  \/ \E call \in calls : HandleCall(call) \/ LoseCall(call)
  \/ \E u \in Users : SetEnabled(u)
  \/ \E s \in Sends :
       \/ \E u \in Users, kind \in Kinds : BeginSend(s, u, kind)
       \/ ResolveClient(s) \/ Multicast(s) \/ SendNothing(s) \/ DeactivateInvalid(s)
  \/ \E p \in Phones :
       \/ \E u \in Users : Initialize(p, u)
       \/ Refuse(p) \/ RegisterToken(p) \/ HandleInitial(p) \/ RefreshToken(p)
       \/ Unregister(p) \/ Cleanup(p)

Spec == Init /\ [][Next]_vars

-----------------------------------------------------------------------------
\* A phone whose runtime listens, and whose registrations neither failed, nor
\* were missed, nor were overtaken by those of a previous user, is an active
\* token of its user, or is about to be: no late request or delivery of another
\* user switches it off.
PhoneIsReachable ==
  \A p \in Phones :
    LET token == <<p, phone[p].token>> IN
    Listening(p) /\ phone[p].known = phone[p].token =>
      \/ rows[token] = [user |-> phone[p].user, isActive |-> TRUE]
      \/ \E call \in calls : call.op = "register" /\ call.token = token
                             /\ call.user = phone[p].user

\* What the handlers of such a phone are called with is for its user; only a
\* delivery that read the tokens before the user signed in reaches another.
HandledByItsUser == \A h \in handled : h.fresh => h.user = h.to

=============================================================================
