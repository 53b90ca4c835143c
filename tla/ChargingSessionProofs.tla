----------------------- MODULE ChargingSessionProofs -----------------------
(***************************************************************************)
(* Proofs about ChargingSession, for any number of sessions, of slots for  *)
(* overlapping requests, of costs and of gateway operations.               *)
(***************************************************************************)
EXTENDS ChargingSession, TLAPS

-----------------------------------------------------------------------------
(* The inductive invariant                                                 *)

(* What a request may rely on when it writes, however long ago it read the  *)
(* session: what the other requests do in between cannot take it away.      *)
ReqKnows(r) ==
  LET f == req[r]
      s == req[r].session
  IN
  f # Idle =>
    /\ session[s].origin # "none"
    /\ f.op = "start" =>
         /\ f.pc \in {"authorize", "chooseStart", "checkBalance", "preAuthorize",
                      "activate", "paying"}
         /\ session[s].origin = "app"
         /\ f.pc = "activate" => s \in checked
         /\ f.pc = "paying" /\ call[r] = Payments!Returned => payment[s].status = "AUTHORIZED"
    /\ f.op = "stop" =>
         /\ f.pc \in {"complete", "chooseStop", "deduct", "record", "capture", "paying"}
         /\ session[s].origin = "app" => f.cost = 0
         /\ f.pc = "record" => /\ f.cost > 0
                               /\ \E i \in 1..Len(deducted[s]) : deducted[s][i] = f.cost
    /\ f.op = "stopTransaction" =>
         f.pc \in {"complete", "capture", "paying"} /\ session[s].origin = "charger"
    /\ f.op # "start" /\ f.pc # "complete" /\ session[s].origin = "charger" =>
         session[s].status = "COMPLETED"

(* The only call of payments.service.ts that is ever under way between a    *)
(* read and a write is the first pre-authorization of a session of the app. *)
CallKnows(r) ==
  LET c == call[r] IN
  Payments!InCall(r) =>
    /\ req[r] # Idle /\ req[r].op = "start" /\ req[r].pc = "paying"
    /\ c.op = "preAuthorize" /\ c.session = req[r].session /\ c.row = Payments!NoPayment
    /\ c.entry \in 0..Len(books)
    /\ c.pc = "gateway" => c.entry = 0
    /\ c.entry # 0 => books[c.entry].session = c.session

(* Sessions of the app and of the charger do not share their payments: the  *)
(* first are authorized and cost nothing, the second are paid by the wallet *)
(* or not at all.                                                           *)
SessionKnows(s) ==
  LET p == payment[s] IN
  /\ session[s].origin = "none" => p = Payments!NoPayment
  /\ session[s].origin = "app" =>
       /\ session[s].cost = 0
       /\ p = Payments!NoPayment \/ (p.status = "AUTHORIZED" /\ p.gateway # "WALLET")
       /\ session[s].status = "ACTIVE" => p.status = "AUTHORIZED" \/ s \in checked
  /\ session[s].origin = "charger" =>
       /\ session[s].status \in {"ACTIVE", "COMPLETED"}
       /\ \/ p = Payments!NoPayment
          \/ /\ p.gateway = "WALLET"
             /\ \E i \in 1..Len(deducted[s]) : deducted[s][i] = p.captured
  /\ deducted[s] # <<>> => session[s].origin = "charger" /\ session[s].status = "COMPLETED"

(* Money only ever leaves a card as a hold: no gateway is asked to capture, *)
(* to debit or to refund by the life of a session.                          *)
OnlyHolds == \A e \in 1..Len(books) : books[e].kind = "HOLD"

Knows ==
  /\ TypeOK
  /\ \A r \in Requests : ReqKnows(r)
  /\ \A r \in Requests : CallKnows(r)
  /\ \A s \in Sessions : SessionKnows(s)

IInv == Knows /\ OnlyHolds /\ HoldsTracked

-----------------------------------------------------------------------------
(* What no step takes back                                                 *)

\* What a session has come to, as far as its requests rely on it.
Advances ==
  /\ checked \subseteq checked'
  /\ \A s \in Sessions : session[s].origin # "none" =>
       /\ session'[s].origin = session[s].origin
       /\ session[s].origin = "charger" /\ session[s].status = "COMPLETED" =>
            session'[s].status = "COMPLETED"
       /\ session[s].origin = "app" /\ payment[s].status = "AUTHORIZED" =>
            payment'[s].status = "AUTHORIZED"
       /\ \A i \in 1..Len(deducted[s]) :
            i \in 1..Len(deducted'[s]) /\ deducted'[s][i] = deducted[s][i]

\* The books of the gateways.
BooksGrow ==
  \A e \in 1..Len(books) : e \in 1..Len(books') /\ books'[e] = books[e]

(* A request that did not move still knows what it knew.                    *)
LEMMA StillKnows ==
  ASSUME TypeOK, Advances, NEW o \in Requests, ReqKnows(o),
         req'[o] = req[o], call'[o] = call[o]
  PROVE  ReqKnows(o)'
<1>1. CASE req[o] = Idle
  BY <1>1 DEF ReqKnows
<1>2. CASE req[o] # Idle
  <2>1. PICK s \in Sessions : s = req[o].session
    BY <1>2 DEF TypeOK, Frame
  <2>2. /\ session[s].origin # "none"
        /\ session'[s].origin = session[s].origin
        /\ s \in checked => s \in checked'
        /\ session[s].origin = "charger" /\ session[s].status = "COMPLETED" =>
             session'[s].status = "COMPLETED"
        /\ session[s].origin = "app" /\ payment[s].status = "AUTHORIZED" =>
             payment'[s].status = "AUTHORIZED"
    BY <1>2, <2>1 DEF ReqKnows, Advances
  <2>3. (\E i \in 1..Len(deducted[s]) : deducted[s][i] = req[o].cost) =>
          \E i \in 1..Len(deducted'[s]) : deducted'[s][i] = req[o].cost
    BY <2>2 DEF Advances
  <2> QED BY <1>2, <2>1, <2>2, <2>3 DEF ReqKnows
<1> QED BY <1>1, <1>2

(* A step moves the slots of R and writes the sessions of S: it is enough   *)
(* to look at those.                                                        *)
LEMMA KnowsPreserved ==
  ASSUME Knows, NEW R \in SUBSET Requests, NEW S \in SUBSET Sessions,
         TypeOK', Advances, BooksGrow,
         \A t \in Sessions \ S : /\ session'[t] = session[t] /\ deducted'[t] = deducted[t]
                                   /\ payment'[t] = payment[t],
         \A o \in Requests \ R : req'[o] = req[o] /\ call'[o] = call[o],
         \A r \in R : ReqKnows(r)' /\ CallKnows(r)',
         \A s \in S : SessionKnows(s)'
  PROVE  Knows'
<1>1. ASSUME NEW o \in Requests PROVE ReqKnows(o)'
  BY <1>1, StillKnows DEF Knows
<1>2. ASSUME NEW o \in Requests PROVE CallKnows(o)'
  <2>1. CASE o \in R
    BY <2>1
  <2>2. CASE o \notin R
    <3>1. req'[o] = req[o] /\ call'[o] = call[o] /\ CallKnows(o)
      BY <1>2, <2>2 DEF Knows
    <3>2. CASE ~Payments!InCall(o)
      BY <3>1, <3>2 DEF CallKnows, Payments!InCall
    <3>3. CASE Payments!InCall(o)
      <4>1. /\ call[o].entry \in 0..Len(books)
            /\ call[o].entry # 0 => books[call[o].entry].session = call[o].session
        BY <3>1, <3>3 DEF CallKnows
      <4>2. /\ call[o].entry \in 0..Len(books')
            /\ call[o].entry # 0 => books'[call[o].entry].session = call[o].session
        BY <4>1 DEF BooksGrow
      <4> QED BY <3>1, <3>3, <4>2 DEF CallKnows, Payments!InCall
    <3> QED BY <3>2, <3>3
  <2> QED BY <2>1, <2>2
<1>3. ASSUME NEW t \in Sessions PROVE SessionKnows(t)'
  <2>1. CASE t \in S
    BY <2>1
  <2>2. CASE t \notin S
    <3>1. /\ session'[t] = session[t] /\ deducted'[t] = deducted[t]
          /\ payment'[t] = payment[t] /\ SessionKnows(t)
          /\ t \in checked => t \in checked'
      BY <1>3, <2>2 DEF Knows, Advances
    <3> QED BY <3>1 DEF SessionKnows
  <2> QED BY <2>1, <2>2
<1> QED BY <1>1, <1>2, <1>3 DEF Knows

-----------------------------------------------------------------------------
(* The parts of a step                                                     *)

(* A request that is under way is about a session that exists.              *)
LEMMA Running ==
  ASSUME Knows, NEW r \in Requests, req[r] # Idle
  PROVE  /\ req[r] \in Frame
         /\ req[r].session \in Sessions
         /\ session[req[r].session] \in SessionRow
         /\ session[req[r].session].origin \in {"app", "charger"}
         /\ req[r].cost \in Costs \cup {0}
<1>1. req[r] \in Frame /\ ReqKnows(r)
  BY DEF Knows, TypeOK
<1>2. req[r].session \in Sessions /\ req[r].cost \in Costs \cup {0}
  BY <1>1 DEF Frame
<1>3. session[req[r].session] \in SessionRow
  BY <1>1, <1>2 DEF Knows, TypeOK, ReqKnows, NoSession
<1> QED BY <1>1, <1>2, <1>3 DEF SessionRow

(* While its request is not paying, a slot is in no call.                   *)
LEMMA NotInCall ==
  ASSUME Knows, NEW r \in Requests,
         req[r] = Idle \/ req[r].pc # "paying" \/ req[r].op # "start"
  PROVE  ~Payments!InCall(r)
BY DEF Knows, CallKnows

(* A request moves on, or ends.                                             *)
LEMMA ReqMoves ==
  ASSUME TypeOK, NEW r \in Requests, NEW f \in Frame \cup {Idle}, req' = [req EXCEPT ![r] = f]
  PROVE  /\ req' \in [Requests -> Frame \cup {Idle}]
         /\ req'[r] = f
         /\ \A o \in Requests \ {r} : req'[o] = req[o]
BY DEF TypeOK

(* Goto changes the program counter of the request only.                    *)
LEMMA GotoMoves ==
  ASSUME TypeOK, NEW r \in Requests, req[r] \in Frame,
         NEW pc \in {"authorize", "chooseStart", "checkBalance", "preAuthorize", "activate",
                     "complete", "chooseStop", "deduct", "record", "capture", "paying"},
         Goto(r, pc)
  PROVE  /\ req' \in [Requests -> Frame \cup {Idle}]
         /\ \A o \in Requests \ {r} : req'[o] = req[o]
         /\ req'[r] \in Frame /\ req'[r].pc = pc /\ req'[r].op = req[r].op
         /\ req'[r].session = req[r].session /\ req'[r].cost = req[r].cost
<1> DEFINE f == [req[r] EXCEPT !.pc = pc]
<1>1. f \in Frame /\ f.pc = pc /\ f.op = req[r].op /\ f.session = req[r].session
      /\ f.cost = req[r].cost
  BY DEF Frame
<1>2. req' = [req EXCEPT ![r] = f]
  BY DEF Goto
<1> HIDE DEF f
<1> QED BY <1>1, <1>2, ReqMoves

(* A session is written by id: one column of one row.                       *)
LEMMA StatusWritten ==
  ASSUME TypeOK, NEW s \in Sessions, session[s] \in SessionRow,
         NEW to \in {"PENDING", "AUTHORIZED", "ACTIVE", "COMPLETED"}, SetStatus(s, to)
  PROVE  /\ session' \in [Sessions -> SessionRow \cup {NoSession}]
         /\ \A t \in Sessions \ {s} : session'[t] = session[t]
         /\ session'[s] \in SessionRow /\ session'[s].status = to
         /\ session'[s].origin = session[s].origin /\ session'[s].cost = session[s].cost
<1> DEFINE row == [session[s] EXCEPT !.status = to]
<1>1. row \in SessionRow /\ row.status = to /\ row.origin = session[s].origin
      /\ row.cost = session[s].cost
  BY DEF SessionRow
<1>2. session' = [session EXCEPT ![s] = row]
  BY DEF SetStatus
<1> HIDE DEF row
<1> QED BY <1>1, <1>2 DEF TypeOK

(* As long as no payment is touched, its types, its holds and the books are *)
(* what they were.                                                          *)
LEMMA PaymentsRest ==
  ASSUME TypeOK, pvars' = pvars
  PROVE  /\ Payments!TypeOK' /\ BooksGrow
         /\ payment' = payment /\ books' = books /\ orphaned' = orphaned /\ call' = call
         /\ OnlyHolds => OnlyHolds'
         /\ HoldsTracked => HoldsTracked'
<1>1. payment' = payment /\ books' = books /\ orphaned' = orphaned /\ call' = call
      /\ overlapped' = overlapped
  BY DEF pvars
<1>2. Payments!TypeOK' /\ BooksGrow
  BY <1>1 DEF TypeOK, Payments!TypeOK, BooksGrow
<1>3. OnlyHolds => OnlyHolds'
  BY <1>1 DEF OnlyHolds
<1>4. HoldsTracked => HoldsTracked'
  BY <1>1 DEF HoldsTracked, Payments!Entries, Payments!InCall
<1> QED BY <1>1, <1>2, <1>3, <1>4

(* A step that only moves its request, with no call of the payments under   *)
(* way, is good when the request may know what it then claims to.           *)
LEMMA QuietStep ==
  ASSUME IInv, NEW r \in Requests, ~Payments!InCall(r), ReqKnows(r)',
         req' \in [Requests -> Frame \cup {Idle}],
         \A o \in Requests \ {r} : req'[o] = req[o],
         session' = session, deducted' = deducted, checked' = checked,
         walletDefault' = walletDefault, pvars' = pvars
  PROVE  IInv'
<1>1. TypeOK /\ TypeOK'
  BY PaymentsRest DEF IInv, Knows, TypeOK
<1>2. Advances
  BY PaymentsRest, <1>1 DEF Advances
<1>3. CallKnows(r)'
  BY PaymentsRest, <1>1 DEF CallKnows, Payments!InCall
<1> DEFINE R == {r}
           S == {}
<1>4. R \in SUBSET Requests /\ \A o \in R : ReqKnows(o)' /\ CallKnows(o)'
  BY <1>3
<1>5. \A o \in Requests \ R : req'[o] = req[o] /\ call'[o] = call[o]
  BY PaymentsRest, <1>1
<1>6. S \in SUBSET Sessions /\ \A s \in S : SessionKnows(s)'
  OBVIOUS
<1> HIDE DEF R, S
<1>7. \A t \in Sessions \ S : /\ session'[t] = session[t] /\ deducted'[t] = deducted[t]
                              /\ payment'[t] = payment[t]
  BY PaymentsRest, <1>1
<1>8. Knows'
  BY <1>1, <1>2, <1>4, <1>5, <1>6, <1>7, PaymentsRest, KnowsPreserved DEF IInv
<1> QED BY <1>1, <1>8, PaymentsRest DEF IInv

(* The same of a step that also writes a session, and touches no payment.   *)
LEMMA WriteStep ==
  ASSUME IInv, NEW R \in SUBSET Requests, NEW s \in Sessions, pvars' = pvars,
         session' \in [Sessions -> SessionRow \cup {NoSession}],
         deducted' \in [Sessions -> Seq(Costs \ {0})],
         checked' \subseteq Sessions,
         req' \in [Requests -> Frame \cup {Idle}],
         walletDefault' = walletDefault,
         \A t \in Sessions \ {s} : session'[t] = session[t] /\ deducted'[t] = deducted[t],
         \A o \in Requests \ R : req'[o] = req[o],
         \A r \in R : ~Payments!InCall(r) /\ ReqKnows(r)',
         Advances, SessionKnows(s)'
  PROVE  IInv'
<1>1. TypeOK /\ TypeOK'
  BY PaymentsRest DEF IInv, Knows, TypeOK
<1>2. \A r \in R : ReqKnows(r)' /\ CallKnows(r)'
  BY PaymentsRest, <1>1 DEF CallKnows, Payments!InCall
<1>3. \A o \in Requests \ R : req'[o] = req[o] /\ call'[o] = call[o]
  BY PaymentsRest, <1>1
<1> DEFINE S == {s}
<1>4. S \in SUBSET Sessions /\ \A t \in S : SessionKnows(t)'
  OBVIOUS
<1>5. \A t \in Sessions \ S : /\ session'[t] = session[t] /\ deducted'[t] = deducted[t]
                              /\ payment'[t] = payment[t]
  BY PaymentsRest, <1>1
<1> HIDE DEF S
<1>6. Knows'
  BY <1>1, <1>2, <1>3, <1>4, <1>5, PaymentsRest, KnowsPreserved DEF IInv
<1> QED BY <1>1, <1>6, PaymentsRest DEF IInv

-----------------------------------------------------------------------------
(* The rows, and requests that only read                                   *)

(* A row is created for nobody's request: none is about a session that does *)
(* not exist.                                                               *)
LEMMA Creations ==
  ASSUME IInv, NEW s \in Sessions, CreateSession(s) \/ StartTransaction(s)
  PROVE  IInv'
<1>1. /\ session[s] = NoSession /\ UNCHANGED <<walletDefault, deducted, checked, req>>
      /\ pvars' = pvars
  BY DEF CreateSession, StartTransaction
<1>2. /\ TypeOK /\ SessionKnows(s) /\ payment' = payment
  BY <1>1, PaymentsRest DEF IInv, Knows
<1>3. PICK row \in {[origin |-> "app", status |-> "PENDING", cost |-> 0],
                    [origin |-> "charger", status |-> "ACTIVE", cost |-> 0]} :
        session' = [session EXCEPT ![s] = row]
  BY DEF CreateSession, StartTransaction
<1>4. /\ session' \in [Sessions -> SessionRow \cup {NoSession}] /\ session'[s] = row
      /\ \A t \in Sessions \ {s} : session'[t] = session[t]
  BY <1>2, <1>3 DEF TypeOK, SessionRow
<1>5. Advances
  BY <1>1, <1>2, <1>4 DEF Advances, NoSession
<1>6. SessionKnows(s)'
  BY <1>1, <1>2, <1>3, <1>4 DEF SessionKnows, NoSession, Payments!NoPayment
<1> DEFINE R == {}
<1>7. R \in SUBSET Requests /\ \A r \in R : ~Payments!InCall(r) /\ ReqKnows(r)'
  OBVIOUS
<1> HIDE DEF R
<1> QED BY <1>1, <1>2, <1>4, <1>5, <1>6, <1>7, WriteStep DEF TypeOK

(* The user's default payment method is read, never relied on.              *)
LEMMA Switches ==
  ASSUME IInv, SwitchDefault
  PROVE  IInv'
<1>1. /\ walletDefault' \in BOOLEAN /\ UNCHANGED <<session, deducted, checked, req>>
      /\ pvars' = pvars /\ TypeOK
  BY DEF SwitchDefault, IInv, Knows, TypeOK
<1>2. TypeOK'
  BY <1>1, PaymentsRest DEF TypeOK
<1>3. /\ \A r \in Requests : ReqKnows(r)' /\ CallKnows(r)'
      /\ \A s \in Sessions : SessionKnows(s)'
  BY <1>1, PaymentsRest DEF IInv, Knows, ReqKnows, CallKnows, SessionKnows, Payments!InCall
<1> QED BY <1>1, <1>2, <1>3, PaymentsRest DEF IInv, Knows

(* A request is accepted on what it reads of the session.                   *)
LEMMA Acceptances ==
  ASSUME CostsAssumption, IInv, NEW r \in Requests, NEW s \in Sessions,
         StartSession(r, s) \/ StopSession(r, s) \/ StopTransaction(r, s)
  PROVE  IInv'
<1>1. /\ req[r] = Idle /\ session' = session /\ deducted' = deducted /\ checked' = checked
      /\ walletDefault' = walletDefault /\ pvars' = pvars /\ TypeOK /\ SessionKnows(s)
  BY DEF StartSession, StopSession, StopTransaction, Accept, IInv, Knows
<1>2. ~Payments!InCall(r)
  BY <1>1, NotInCall DEF IInv
<1>3. session[s] \in SessionRow \cup {NoSession}
  BY <1>1 DEF TypeOK
<1>4. PICK op \in {"start", "stop", "stopTransaction"},
           pc \in {"authorize", "chooseStart", "complete"}, cost \in Costs \cup {0} :
        /\ req' = [req EXCEPT ![r] = [op |-> op, session |-> s, cost |-> cost, pc |-> pc]]
        /\ session[s].origin # "none"
        /\ op = "start" => pc # "complete" /\ session[s].origin = "app"
        /\ op = "stop" => pc = "complete" /\ cost = 0
        /\ op = "stopTransaction" => pc = "complete" /\ session[s].origin = "charger"
  <2>1. CASE StartSession(r, s)
    <3>1. session[s].origin = "app"
      BY <1>1, <1>3, <2>1 DEF StartSession, SessionKnows, NoSession, SessionRow
    <3> QED BY <2>1, <3>1 DEF StartSession, Accept
  <2>2. CASE StopSession(r, s)
    <3>1. session[s].origin # "none"
      BY <1>3, <2>2 DEF StopSession, NoSession, SessionRow
    <3>2. req' = [req EXCEPT ![r] =
                    [op |-> "stop", session |-> s, cost |-> 0, pc |-> "complete"]]
      BY <2>2 DEF StopSession, Accept
    <3> QED BY <3>1, <3>2
  <2>3. CASE StopTransaction(r, s)
    BY <2>3 DEF StopTransaction, Accept
  <2> QED BY <2>1, <2>2, <2>3
<1> DEFINE f == [op |-> op, session |-> s, cost |-> cost, pc |-> pc]
<1>5. f \in Frame
  BY DEF Frame
<1>6. /\ f.op = op /\ f.session = s /\ f.cost = cost /\ f.pc = pc
  OBVIOUS
<1> HIDE DEF f
<1>7. req' \in [Requests -> Frame \cup {Idle}] /\ req'[r] = f
      /\ \A o \in Requests \ {r} : req'[o] = req[o]
  BY <1>1, <1>4, <1>5, ReqMoves DEF f
<1>8. ReqKnows(r)'
  BY <1>1, <1>4, <1>6, <1>7 DEF ReqKnows
<1> QED BY <1>1, <1>2, <1>7, <1>8, QuietStep

(* A request chooses how it will be paid.                                   *)
LEMMA Choices ==
  ASSUME IInv, NEW r \in Requests, ChooseStart(r) \/ ChooseStop(r)
  PROVE  IInv'
<1>1. /\ session' = session /\ deducted' = deducted /\ checked' = checked
      /\ walletDefault' = walletDefault /\ pvars' = pvars /\ TypeOK /\ ReqKnows(r)
      /\ req[r].pc \in {"chooseStart", "chooseStop"} /\ req[r] # Idle
  BY DEF ChooseStart, ChooseStop, At, Idle, IInv, Knows
<1>2. ~Payments!InCall(r)
  BY <1>1, NotInCall DEF IInv
<1>3. PICK pc \in {"checkBalance", "preAuthorize", "deduct", "capture"} :
        /\ Goto(r, pc)
        /\ req[r].op = "start" => pc \in {"checkBalance", "preAuthorize"}
        /\ req[r].op = "stop" => pc \in {"deduct", "capture"}
        /\ req[r].op \in {"start", "stop"}
  BY DEF ChooseStart, ChooseStop, At
<1>4. /\ req' \in [Requests -> Frame \cup {Idle}]
      /\ \A o \in Requests \ {r} : req'[o] = req[o]
      /\ req'[r] \in Frame /\ req'[r].pc = pc /\ req'[r].op = req[r].op
      /\ req'[r].session = req[r].session /\ req'[r].cost = req[r].cost
  BY <1>1, <1>3, Running, GotoMoves DEF IInv
<1>5. ReqKnows(r)'
  BY <1>1, <1>3, <1>4 DEF ReqKnows
<1> QED BY <1>1, <1>2, <1>4, <1>5, QuietStep

(* A stop whose capture has returned is answered; a request whose own step  *)
(* fails is gone.                                                           *)
LEMMA Endings ==
  ASSUME IInv, NEW r \in Requests,
         StopPaid(r) \/ (Fail(r) /\ ~Payments!InCall(r))
  PROVE  IInv'
<1>1. /\ session' = session /\ deducted' = deducted /\ checked' = checked
      /\ walletDefault' = walletDefault /\ pvars' = pvars /\ TypeOK
      /\ Finish(r) /\ ~Payments!InCall(r)
  BY DEF StopPaid, Fail, Payments!InCall, Payments!Returned, IInv, Knows
<1>2. req' \in [Requests -> Frame \cup {Idle}] /\ req'[r] = Idle
      /\ \A o \in Requests \ {r} : req'[o] = req[o]
  BY <1>1, ReqMoves DEF Finish
<1>3. ReqKnows(r)'
  BY <1>2 DEF ReqKnows
<1> QED BY <1>1, <1>2, <1>3, QuietStep

-----------------------------------------------------------------------------
(* Requests that write the session                                         *)

(* The app's start: its session is AUTHORIZED, then ACTIVE once it is       *)
(* backed, whatever the row says by now.                                    *)
LEMMA Starts ==
  ASSUME IInv, NEW r \in Requests, Authorize(r) \/ Activate(r)
  PROVE  IInv'
<1>1. /\ deducted' = deducted /\ checked' = checked
      /\ walletDefault' = walletDefault /\ pvars' = pvars /\ TypeOK /\ ReqKnows(r)
      /\ req[r].op = "start" /\ req[r] # Idle /\ ~Payments!InCall(r)
  BY NotInCall DEF Authorize, Activate, At, Idle, IInv, Knows, Payments!InCall, Payments!Returned
<1>2. PICK s \in Sessions : s = req[r].session
  BY <1>1, Running DEF IInv
<1>3. /\ session[s] \in SessionRow /\ session[s].origin = "app" /\ req[r] \in Frame
      /\ SessionKnows(s)
  BY <1>1, <1>2, Running DEF ReqKnows, IInv, Knows
<1>4. PICK to \in {"AUTHORIZED", "ACTIVE"} :
        /\ SetStatus(s, to)
        /\ to = "ACTIVE" => Activate(r)
        /\ to = "AUTHORIZED" => Goto(r, "chooseStart")
  BY <1>2 DEF Authorize, Activate
<1>5. /\ session' \in [Sessions -> SessionRow \cup {NoSession}]
      /\ \A t \in Sessions \ {s} : session'[t] = session[t]
      /\ session'[s] \in SessionRow /\ session'[s].status = to
      /\ session'[s].origin = session[s].origin /\ session'[s].cost = session[s].cost
  BY <1>1, <1>3, <1>4, StatusWritten
<1>6. /\ req' \in [Requests -> Frame \cup {Idle}]
      /\ \A o \in Requests \ {r} : req'[o] = req[o]
      /\ ReqKnows(r)'
  <2>1. CASE to = "ACTIVE"
    BY <1>1, <1>4, <2>1, ReqMoves DEF Activate, Finish, ReqKnows
  <2>2. CASE to = "AUTHORIZED"
    <3>1. /\ req' \in [Requests -> Frame \cup {Idle}]
          /\ \A o \in Requests \ {r} : req'[o] = req[o]
          /\ req'[r].pc = "chooseStart" /\ req'[r].op = "start" /\ req'[r].session = s
      BY <1>1, <1>2, <1>3, <1>4, <2>2, GotoMoves
    <3> QED BY <1>3, <1>5, <3>1 DEF ReqKnows
  <2> QED BY <2>1, <2>2
<1>7. payment' = payment
  BY <1>1, PaymentsRest
<1>8. Advances
  BY <1>1, <1>3, <1>5, <1>7 DEF Advances
<1>9. to = "ACTIVE" => payment[s].status = "AUTHORIZED" \/ s \in checked
  BY <1>1, <1>2, <1>4 DEF Activate, At, ReqKnows
<1>10. SessionKnows(s)'
  BY <1>1, <1>3, <1>5, <1>7, <1>9 DEF SessionKnows
<1> DEFINE R == {r}
<1>11. /\ R \in SUBSET Requests /\ \A o \in R : ~Payments!InCall(o) /\ ReqKnows(o)'
       /\ \A o \in Requests \ R : req'[o] = req[o]
  BY <1>1, <1>6
<1> HIDE DEF R
<1> QED BY <1>1, <1>5, <1>6, <1>8, <1>10, <1>11, WriteStep DEF TypeOK

(* The stops: a session ends, and the cost its stop carries is the one that *)
(* the row has (app) or now gets (charger).                                 *)
LEMMA Completions ==
  ASSUME IInv, NEW r \in Requests, Complete(r) \/ CompleteTransaction(r)
  PROVE  IInv'
<1>1. /\ deducted' = deducted /\ checked' = checked
      /\ walletDefault' = walletDefault /\ pvars' = pvars /\ TypeOK /\ ReqKnows(r)
      /\ req[r].op \in {"stop", "stopTransaction"} /\ req[r] # Idle /\ ~Payments!InCall(r)
  BY NotInCall DEF Complete, CompleteTransaction, At, Idle, IInv, Knows
<1>2. PICK s \in Sessions : s = req[r].session
  BY <1>1, Running DEF IInv
<1>3. /\ session[s] \in SessionRow /\ session[s].origin \in {"app", "charger"}
      /\ req[r] \in Frame /\ req[r].cost \in Costs \cup {0}
      /\ SessionKnows(s)
      /\ req[r].op = "stopTransaction" => session[s].origin = "charger"
  BY <1>1, <1>2, Running DEF ReqKnows, IInv, Knows
<1>4. /\ session' \in [Sessions -> SessionRow \cup {NoSession}]
      /\ \A t \in Sessions \ {s} : session'[t] = session[t]
      /\ session'[s] \in SessionRow /\ session'[s].status = "COMPLETED"
      /\ session'[s].origin = session[s].origin
      /\ req[r].op = "stop" => session'[s].cost = session[s].cost
  <2>1. CASE Complete(r)
    BY <1>1, <1>2, <1>3, <2>1, StatusWritten DEF Complete
  <2>2. CASE CompleteTransaction(r)
    <3> DEFINE row == [session[s] EXCEPT !.status = "COMPLETED", !.cost = req[r].cost]
    <3>1. row \in SessionRow /\ row.status = "COMPLETED" /\ row.origin = session[s].origin
      BY <1>3 DEF SessionRow
    <3>2. session' = [session EXCEPT ![s] = row] /\ req[r].op = "stopTransaction"
      BY <1>2, <2>2 DEF CompleteTransaction, At
    <3> HIDE DEF row
    <3> QED BY <1>1, <3>1, <3>2 DEF TypeOK
  <2> QED BY <2>1, <2>2
<1>5. /\ req' \in [Requests -> Frame \cup {Idle}]
      /\ \A o \in Requests \ {r} : req'[o] = req[o]
      /\ req'[r].session = s /\ req'[r].op = req[r].op
      /\ req'[r].pc = IF req[r].op = "stop" THEN "chooseStop" ELSE "capture"
      /\ req[r].op = "stop" => req'[r].cost = session[s].cost
  <2>1. CASE Complete(r)
    <3> DEFINE f == [req[r] EXCEPT !.cost = session[s].cost, !.pc = "chooseStop"]
    <3>1. /\ f \in Frame /\ f.session = s /\ f.op = req[r].op /\ f.pc = "chooseStop"
          /\ f.cost = session[s].cost
      BY <1>2, <1>3 DEF Frame, SessionRow
    <3>2. req' = [req EXCEPT ![r] = f] /\ req[r].op = "stop"
      BY <1>2, <2>1 DEF Complete, At
    <3> HIDE DEF f
    <3> QED BY <1>1, <3>1, <3>2, ReqMoves
  <2>2. CASE CompleteTransaction(r)
    <3>1. Goto(r, "capture") /\ req[r].op = "stopTransaction"
      BY <2>2 DEF CompleteTransaction, At
    <3> QED BY <1>1, <1>2, <1>3, <3>1, GotoMoves
  <2> QED BY <2>1, <2>2
<1>6. ReqKnows(r)'
  BY <1>1, <1>3, <1>4, <1>5 DEF ReqKnows, SessionKnows
<1>7. payment' = payment
  BY <1>1, PaymentsRest
<1>8. Advances
  BY <1>1, <1>3, <1>4, <1>7 DEF Advances
<1>9. SessionKnows(s)'
  BY <1>1, <1>3, <1>4, <1>7 DEF SessionKnows
<1> DEFINE R == {r}
<1>10. /\ R \in SUBSET Requests /\ \A o \in R : ~Payments!InCall(o) /\ ReqKnows(o)'
       /\ \A o \in Requests \ R : req'[o] = req[o]
  BY <1>1, <1>5, <1>6
<1> HIDE DEF R
<1> QED BY <1>1, <1>4, <1>5, <1>8, <1>9, <1>10, WriteStep DEF TypeOK

-----------------------------------------------------------------------------
(* Requests that look at the wallet, charge it and record that             *)

(* A start is let through by the balance of the wallet.                     *)
LEMMA Checks ==
  ASSUME IInv, NEW r \in Requests, CheckBalance(r)
  PROVE  IInv'
<1>1. /\ session' = session /\ deducted' = deducted
      /\ walletDefault' = walletDefault /\ pvars' = pvars /\ TypeOK /\ ReqKnows(r)
      /\ req[r].op = "start" /\ req[r] # Idle /\ ~Payments!InCall(r)
  BY NotInCall DEF CheckBalance, At, Idle, IInv, Knows
<1>2. PICK s \in Sessions : s = req[r].session
  BY <1>1, Running DEF IInv
<1>3. checked' = checked \cup {s} /\ SessionKnows(s) /\ req[r] \in Frame
  BY <1>1, <1>2, Running DEF CheckBalance, IInv, Knows
<1>4. /\ req' \in [Requests -> Frame \cup {Idle}]
      /\ \A o \in Requests \ {r} : req'[o] = req[o]
      /\ req'[r].pc = "activate" /\ req'[r].op = "start" /\ req'[r].session = s
  BY <1>1, <1>2, <1>3, GotoMoves DEF CheckBalance
<1>5. ReqKnows(r)'
  BY <1>1, <1>2, <1>3, <1>4 DEF ReqKnows
<1>6. payment' = payment
  BY <1>1, PaymentsRest
<1>7. Advances /\ checked' \subseteq Sessions
  BY <1>1, <1>3, <1>6 DEF Advances, TypeOK
<1>8. SessionKnows(s)'
  BY <1>1, <1>3, <1>6 DEF SessionKnows
<1> DEFINE R == {r}
<1>9. /\ R \in SUBSET Requests /\ \A o \in R : ~Payments!InCall(o) /\ ReqKnows(o)'
      /\ \A o \in Requests \ R : req'[o] = req[o]
  BY <1>1, <1>4, <1>5
<1> HIDE DEF R
<1> QED BY <1>1, <1>4, <1>7, <1>8, <1>9, WriteStep DEF TypeOK

(* A positive cost is deducted: the session is one of the charger, and it   *)
(* is over.                                                                 *)
LEMMA Deductions ==
  ASSUME CostsAssumption, IInv, NEW r \in Requests, Deduct(r)
  PROVE  IInv'
<1>1. /\ session' = session /\ checked' = checked
      /\ walletDefault' = walletDefault /\ pvars' = pvars /\ TypeOK /\ ReqKnows(r)
      /\ req[r].op = "stop" /\ req[r].pc = "deduct" /\ req[r] # Idle /\ ~Payments!InCall(r)
  BY NotInCall DEF Deduct, At, Idle, IInv, Knows
<1>2. PICK s \in Sessions : s = req[r].session
  BY <1>1, Running DEF IInv
<1>3. /\ req[r].cost > 0 /\ req[r].cost \in Costs \ {0} /\ req[r] \in Frame /\ SessionKnows(s)
  BY <1>1, <1>2, Running DEF Deduct, IInv, Knows, CostsAssumption
<1>4. session[s].origin = "charger" /\ session[s].status = "COMPLETED"
  BY <1>1, <1>2, <1>3, Running DEF ReqKnows, IInv
<1>5. deducted \in [Sessions -> Seq(Costs \ {0})]
  BY <1>1 DEF TypeOK
<1>6. /\ deducted' \in [Sessions -> Seq(Costs \ {0})]
      /\ \A t \in Sessions \ {s} : deducted'[t] = deducted[t]
      /\ deducted'[s] = Append(deducted[s], req[r].cost)
  <2>1. Append(deducted[s], req[r].cost) \in Seq(Costs \ {0})
    BY <1>3, <1>5
  <2>2. deducted' = [deducted EXCEPT ![s] = Append(deducted[s], req[r].cost)]
    BY <1>2 DEF Deduct
  <2> QED BY <1>5, <2>1, <2>2
<1>7. /\ \A i \in 1..Len(deducted[s]) :
           i \in 1..Len(deducted'[s]) /\ deducted'[s][i] = deducted[s][i]
      /\ \E i \in 1..Len(deducted'[s]) : deducted'[s][i] = req[r].cost
  <2>1. deducted[s] \in Seq(Costs \ {0})
    BY <1>5
  <2>2. Len(deducted[s]) \in Nat /\ Len(deducted'[s]) = Len(deducted[s]) + 1
    BY <1>3, <1>6, <2>1
  <2>3. deducted'[s][Len(deducted[s]) + 1] = req[r].cost
    BY <1>3, <1>6, <2>1
  <2>4. \A i \in 1..Len(deducted[s]) : deducted'[s][i] = deducted[s][i]
    BY <1>3, <1>6, <2>1
  <2> QED BY <2>2, <2>3, <2>4
<1>8. /\ req' \in [Requests -> Frame \cup {Idle}]
      /\ \A o \in Requests \ {r} : req'[o] = req[o]
      /\ req'[r].pc = "record" /\ req'[r].op = "stop" /\ req'[r].session = s
      /\ req'[r].cost = req[r].cost
  BY <1>1, <1>2, <1>3, GotoMoves DEF Deduct
<1>9. ReqKnows(r)'
  BY <1>1, <1>3, <1>4, <1>7, <1>8 DEF ReqKnows
<1>10. payment' = payment
  BY <1>1, PaymentsRest
<1>11. Advances
  BY <1>1, <1>6, <1>7, <1>10 DEF Advances
<1>12. SessionKnows(s)'
  <2>1. (\E i \in 1..Len(deducted[s]) : deducted[s][i] = payment[s].captured) =>
           \E i \in 1..Len(deducted'[s]) : deducted'[s][i] = payment[s].captured
    BY <1>7
  <2> QED BY <1>1, <1>3, <1>4, <1>10, <2>1 DEF SessionKnows
<1> DEFINE R == {r}
<1>13. /\ R \in SUBSET Requests /\ \A o \in R : ~Payments!InCall(o) /\ ReqKnows(o)'
       /\ \A o \in Requests \ R : req'[o] = req[o]
  BY <1>1, <1>8, <1>9
<1> HIDE DEF R
<1> QED BY <1>1, <1>6, <1>8, <1>11, <1>12, <1>13, WriteStep DEF TypeOK

-----------------------------------------------------------------------------
(* Requests that pay                                                       *)

(* The record is written for a session without a payment, and it says what  *)
(* was deducted.                                                            *)
LEMMA Records ==
  ASSUME CostsAssumption, IInv, NEW r \in Requests, RecordWalletPayment(r)
  PROVE  IInv'
<1>1. /\ session' = session /\ checked' = checked /\ deducted' = deducted
      /\ walletDefault' = walletDefault /\ books' = books /\ orphaned' = orphaned
      /\ overlapped' = overlapped /\ call' = call
      /\ TypeOK /\ ReqKnows(r) /\ Finish(r)
      /\ req[r].op = "stop" /\ req[r].pc = "record" /\ req[r] # Idle /\ ~Payments!InCall(r)
  BY NotInCall DEF RecordWalletPayment, At, Idle, IInv, Knows
<1>2. PICK s \in Sessions : s = req[r].session
  BY <1>1, Running DEF IInv
<1>3. /\ req[r].cost \in Nat /\ req[r].cost > 0 /\ session[s].origin = "charger"
      /\ SessionKnows(s) /\ \E i \in 1..Len(deducted[s]) : deducted[s][i] = req[r].cost
  <2>1. req[r].cost \in Nat /\ session[s].origin \in {"app", "charger"} /\ SessionKnows(s)
    <3>1. req[r].cost \in Costs \cup {0} /\ session[s].origin \in {"app", "charger"}
      BY <1>1, <1>2, Running DEF IInv
    <3>2. \A c \in Costs \cup {0} : c \in Nat
      BY DEF CostsAssumption
    <3> QED BY <3>1, <3>2 DEF IInv, Knows
  <2>2. /\ req[r].cost > 0 /\ \E i \in 1..Len(deducted[s]) : deducted[s][i] = req[r].cost
        /\ session[s].origin = "app" => req[r].cost = 0
    BY <1>1, <1>2 DEF ReqKnows
  <2> QED BY <2>1, <2>2
<1> DEFINE row == [status |-> "CAPTURED", gateway |-> "WALLET", authorized |-> req[r].cost,
                   captured |-> req[r].cost, txn |-> 0]
<1>4. /\ row \in Payments!PaymentRow /\ row.gateway = "WALLET" /\ row.captured = req[r].cost
      /\ row.txn = 0
  BY <1>3 DEF Payments!PaymentRow
<1>5. payment' = [payment EXCEPT ![s] = row] /\ payment[s] = Payments!NoPayment
  BY <1>2 DEF RecordWalletPayment
<1> HIDE DEF row
<1>6. /\ payment' \in [Sessions -> Payments!PaymentRow \cup {Payments!NoPayment}]
      /\ payment'[s] = row /\ \A t \in Sessions \ {s} : payment'[t] = payment[t]
  BY <1>1, <1>4, <1>5 DEF TypeOK, Payments!TypeOK
<1>7. req' \in [Requests -> Frame \cup {Idle}] /\ req'[r] = Idle
      /\ \A o \in Requests \ {r} : req'[o] = req[o]
  BY <1>1, ReqMoves DEF Finish
<1>8. TypeOK'
  BY <1>1, <1>6, <1>7 DEF TypeOK, Payments!TypeOK
<1>9. BooksGrow /\ Advances
  BY <1>1, <1>3, <1>6 DEF BooksGrow, Advances
<1>10. ReqKnows(r)' /\ CallKnows(r)'
  BY <1>1, <1>7 DEF ReqKnows, CallKnows, Payments!InCall
<1>11. SessionKnows(s)'
  BY <1>1, <1>3, <1>4, <1>6 DEF SessionKnows
<1> DEFINE R == {r}
           S == {s}
<1>12. /\ R \in SUBSET Requests /\ S \in SUBSET Sessions
       /\ \A o \in R : ReqKnows(o)' /\ CallKnows(o)'
       /\ \A t \in S : SessionKnows(t)'
       /\ \A o \in Requests \ R : req'[o] = req[o] /\ call'[o] = call[o]
       /\ \A t \in Sessions \ S : /\ session'[t] = session[t] /\ deducted'[t] = deducted[t]
                                  /\ payment'[t] = payment[t]
  BY <1>1, <1>6, <1>7, <1>10, <1>11
<1> HIDE DEF R, S
<1>13. Knows'
  BY <1>8, <1>9, <1>12, KnowsPreserved DEF IInv
<1>14. OnlyHolds'
  BY <1>1 DEF IInv, OnlyHolds
<1>15. HoldsTracked'
  <2>1. payment[s].txn = 0
    BY <1>5 DEF Payments!NoPayment
  <2>2. ASSUME NEW t \in Sessions, NEW e \in Payments!Entries(t, {"HOLD"}), payment[t].txn = e
        PROVE  payment'[t].txn = e
    BY <1>6, <2>1, <2>2 DEF Payments!Entries
  <2>3. \A t \in Sessions : Payments!Entries(t, {"HOLD"})' = Payments!Entries(t, {"HOLD"})
    BY <1>1 DEF Payments!Entries
  <2> QED BY <1>1, <2>2, <2>3 DEF IInv, HoldsTracked, Payments!InCall
<1> QED BY <1>13, <1>14, <1>15 DEF IInv

(* Before its pre-authorization a session of the app has no payment, or one *)
(* that is authorized already: the call returns at once or sets out.        *)
LEMMA PreAuthorizations ==
  ASSUME CostsAssumption, IInv, NEW r \in Requests, BeginPreAuthorize(r)
  PROVE  IInv'
<1>1. /\ session' = session /\ checked' = checked /\ deducted' = deducted
      /\ walletDefault' = walletDefault /\ payment' = payment /\ books' = books
      /\ orphaned' = orphaned
      /\ TypeOK /\ ReqKnows(r) /\ Goto(r, "paying")
      /\ req[r].op = "start" /\ req[r].pc = "preAuthorize" /\ req[r] # Idle
      /\ ~Payments!InCall(r)
  BY NotInCall DEF BeginPreAuthorize, Payments!PreAuthorize, At, Idle, IInv, Knows
<1>2. PICK s \in Sessions : s = req[r].session
  BY <1>1, Running DEF IInv
<1>3. /\ session[s].origin = "app" /\ SessionKnows(s) /\ req[r] \in Frame
  BY <1>1, <1>2, Running DEF ReqKnows, IInv, Knows
<1> DEFINE f == [op |-> "preAuthorize", pc |-> "gateway", session |-> s, amount |-> HoldAmount,
                 row |-> payment[s], entry |-> 0]
<1>4. /\ overlapped' \subseteq Sessions
      /\ \/ call' = [call EXCEPT ![r] = Payments!Returned] /\ payment[s].status = "AUTHORIZED"
         \/ call' = [call EXCEPT ![r] = f] /\ payment[s] = Payments!NoPayment
  <2>1. overlapped \subseteq Sessions
    BY <1>1 DEF TypeOK, Payments!TypeOK
  <2>2. payment[s] = Payments!NoPayment \/ payment[s].status = "AUTHORIZED"
    BY <1>3 DEF SessionKnows
  <2>3. CASE payment[s].status = "AUTHORIZED"
    BY <1>2, <2>1, <2>3 DEF BeginPreAuthorize, Payments!PreAuthorize, Payments!End
  <2>4. CASE payment[s] = Payments!NoPayment
    <3>1. payment[s].status = "NONE"
      BY <2>4 DEF Payments!NoPayment
    <3>2. Payments!Open(r, "preAuthorize", s, HoldAmount, "gateway")
      BY <1>2, <3>1 DEF BeginPreAuthorize, Payments!PreAuthorize
    <3> QED BY <2>1, <2>4, <3>2 DEF Payments!Open
  <2> QED BY <2>2, <2>3, <2>4
<1>5. payment[s] = Payments!NoPayment => f \in Payments!Frame
  BY DEF Payments!Frame, CostsAssumption
<1>6. /\ f.pc = "gateway" /\ f.op = "preAuthorize" /\ f.session = s /\ f.row = payment[s]
      /\ f.entry = 0
  OBVIOUS
<1> HIDE DEF f
<1>7. /\ call' \in [Requests -> Payments!Frame \cup {Payments!Returned, Payments!Threw}]
      /\ \A o \in Requests \ {r} : call'[o] = call[o]
      /\ \/ call'[r] = Payments!Returned /\ payment[s].status = "AUTHORIZED"
         \/ call'[r] = f /\ payment[s] = Payments!NoPayment
  BY <1>1, <1>4, <1>5 DEF TypeOK, Payments!TypeOK
<1>8. /\ req' \in [Requests -> Frame \cup {Idle}]
      /\ \A o \in Requests \ {r} : req'[o] = req[o]
      /\ req'[r].pc = "paying" /\ req'[r].op = "start" /\ req'[r].session = s
  BY <1>1, <1>2, <1>3, GotoMoves
<1>9. TypeOK'
  BY <1>1, <1>4, <1>7, <1>8 DEF TypeOK, Payments!TypeOK
<1>10. BooksGrow /\ Advances
  BY <1>1 DEF BooksGrow, Advances
<1>11. ReqKnows(r)'
  BY <1>1, <1>3, <1>6, <1>7, <1>8 DEF ReqKnows, Payments!Returned
<1>12. CallKnows(r)'
  <2>1. req'[r] # Idle /\ Len(books) \in Nat
    BY <1>1, <1>8 DEF Idle, TypeOK, Payments!TypeOK
  <2> QED BY <1>1, <1>6, <1>7, <1>8, <2>1 DEF CallKnows, Payments!InCall, Payments!Returned
<1>13. SessionKnows(s)'
  BY <1>1, <1>3 DEF SessionKnows
<1> DEFINE R == {r}
           S == {s}
<1>14. /\ R \in SUBSET Requests /\ S \in SUBSET Sessions
       /\ \A o \in R : ReqKnows(o)' /\ CallKnows(o)'
       /\ \A t \in S : SessionKnows(t)'
       /\ \A o \in Requests \ R : req'[o] = req[o] /\ call'[o] = call[o]
       /\ \A t \in Sessions \ S : /\ session'[t] = session[t] /\ deducted'[t] = deducted[t]
                                  /\ payment'[t] = payment[t]
  BY <1>1, <1>7, <1>8, <1>11, <1>12, <1>13
<1> HIDE DEF R, S
<1>15. Knows'
  BY <1>9, <1>10, <1>14, KnowsPreserved DEF IInv
<1>16. OnlyHolds'
  BY <1>1 DEF IInv, OnlyHolds
<1>17. HoldsTracked'
  <2>1. \A o \in Requests : Payments!InCall(o) => Payments!InCall(o)' /\ call'[o] = call[o]
    BY <1>1, <1>7 DEF Payments!InCall
  <2>2. \A t \in Sessions : Payments!Entries(t, {"HOLD"})' = Payments!Entries(t, {"HOLD"})
    BY <1>1 DEF Payments!Entries
  <2> QED BY <1>1, <2>1, <2>2 DEF IInv, HoldsTracked
<1> QED BY <1>15, <1>16, <1>17 DEF IInv

(* The capture of a stop never reaches a gateway: the app's session costs   *)
(* nothing, the charger's has no payment or one of the wallet.              *)
LEMMA Captures ==
  ASSUME CostsAssumption, IInv, NEW r \in Requests, BeginCapture(r)
  PROVE  IInv'
<1>1. /\ session' = session /\ checked' = checked /\ deducted' = deducted
      /\ walletDefault' = walletDefault /\ payment' = payment /\ books' = books
      /\ orphaned' = orphaned
      /\ TypeOK /\ ReqKnows(r) /\ Goto(r, "paying")
      /\ req[r].pc = "capture" /\ req[r] # Idle /\ ~Payments!InCall(r)
  BY NotInCall DEF BeginCapture, Payments!Capture, Idle, IInv, Knows
<1>2. PICK s \in Sessions : s = req[r].session
  BY <1>1, Running DEF IInv
<1>3. /\ session[s].origin \in {"app", "charger"} /\ SessionKnows(s) /\ req[r] \in Frame
      /\ req[r].op \in {"stop", "stopTransaction"}
  BY <1>1, <1>2, Running DEF ReqKnows, IInv, Knows, Frame
<1>4. Payments!NothingToCapture(s, req[r].cost) \/ Payments!CannotCapture(payment[s])
  <2>1. CASE session[s].origin = "app"
    <3>1. req[r].cost = 0
      BY <1>1, <1>2, <1>3, <2>1 DEF ReqKnows
    <3> QED BY <3>1 DEF Payments!NothingToCapture
  <2>2. CASE session[s].origin = "charger"
    <3>1. payment[s] = Payments!NoPayment \/ payment[s].gateway = "WALLET"
      BY <1>3, <2>2 DEF SessionKnows
    <3>2. CASE payment[s] = Payments!NoPayment
      BY <3>2 DEF Payments!NothingToCapture, Payments!NoPayment
    <3>3. CASE payment[s].gateway = "WALLET"
      BY <3>3 DEF Payments!CannotCapture
    <3> QED BY <3>1, <3>2, <3>3
  <2> QED BY <1>3, <2>1, <2>2
<1>5. PICK outcome \in {Payments!Returned, Payments!Threw} :
        call' = [call EXCEPT ![r] = outcome] /\ overlapped' = overlapped
  BY <1>2, <1>4 DEF BeginCapture, Payments!Capture, Payments!End
<1>6. /\ call' \in [Requests -> Payments!Frame \cup {Payments!Returned, Payments!Threw}]
      /\ \A o \in Requests \ {r} : call'[o] = call[o]
      /\ call'[r] = outcome
  BY <1>1, <1>5 DEF TypeOK, Payments!TypeOK
<1>7. /\ req' \in [Requests -> Frame \cup {Idle}]
      /\ \A o \in Requests \ {r} : req'[o] = req[o]
      /\ req'[r].pc = "paying" /\ req'[r].op = req[r].op /\ req'[r].session = s
      /\ req'[r].cost = req[r].cost
  BY <1>1, <1>2, <1>3, GotoMoves
<1>8. TypeOK'
  BY <1>1, <1>5, <1>6, <1>7 DEF TypeOK, Payments!TypeOK
<1>9. BooksGrow /\ Advances
  BY <1>1 DEF BooksGrow, Advances
<1>10. ReqKnows(r)'
  BY <1>1, <1>2, <1>3, <1>7 DEF ReqKnows
<1>11. CallKnows(r)'
  BY <1>6 DEF CallKnows, Payments!InCall, Payments!Returned, Payments!Threw
<1> DEFINE R == {r}
           S == {}
<1>12. /\ R \in SUBSET Requests /\ S \in SUBSET Sessions
       /\ \A o \in R : ReqKnows(o)' /\ CallKnows(o)'
       /\ \A t \in S : SessionKnows(t)'
       /\ \A o \in Requests \ R : req'[o] = req[o] /\ call'[o] = call[o]
       /\ \A t \in Sessions \ S : /\ session'[t] = session[t] /\ deducted'[t] = deducted[t]
                                  /\ payment'[t] = payment[t]
  BY <1>1, <1>6, <1>7, <1>10, <1>11
<1> HIDE DEF R, S
<1>13. Knows'
  BY <1>8, <1>9, <1>12, KnowsPreserved DEF IInv
<1>14. OnlyHolds'
  BY <1>1 DEF IInv, OnlyHolds
<1>15. HoldsTracked'
  <2>1. \A o \in Requests : Payments!InCall(o) => Payments!InCall(o)' /\ call'[o] = call[o]
    BY <1>1, <1>6 DEF Payments!InCall
  <2>2. \A t \in Sessions : Payments!Entries(t, {"HOLD"})' = Payments!Entries(t, {"HOLD"})
    BY <1>1 DEF Payments!Entries
  <2> QED BY <1>1, <2>1, <2>2 DEF IInv, HoldsTracked
<1> QED BY <1>13, <1>14, <1>15 DEF IInv

(* What a running call of the payments may do: have the card hold the       *)
(* amount, look at the balance of Idram, or write the first payment.        *)
LEMMA PaymentKinds ==
  ASSUME Knows, NEW r \in Requests, Payments!PaymentStep(r)
  PROVE  /\ Payments!InCall(r)
         /\ \/ Payments!At(r, "preAuthorize", "gateway") /\ Payments!Execute(r, "HOLD", 0)
            \/ Payments!IdramGetBalance(r)
            \/ Payments!SaveAuthorization(r)
<1>1. Payments!InCall(r)
  BY DEF Payments!PaymentStep, Payments!ArcaPreAuthorize, Payments!IdramGetBalance,
         Payments!SaveAuthorization, Payments!ArcaCapture, Payments!IdramDebit,
         Payments!SaveCapture, Payments!GatewayRefund, Payments!SaveRefund, Payments!At,
         Payments!InCall
<1>2. call[r].op = "preAuthorize"
  BY <1>1 DEF Knows, CallKnows
<1> QED
  BY <1>1, <1>2 DEF Payments!PaymentStep, Payments!ArcaPreAuthorize, Payments!ArcaCapture,
         Payments!IdramDebit, Payments!SaveCapture, Payments!GatewayRefund,
         Payments!SaveRefund, Payments!At

(* The frame of a running call.                                             *)
LEMMA CallRunning ==
  ASSUME Knows, NEW r \in Requests, Payments!InCall(r)
  PROVE  /\ call[r] \in Payments!Frame
         /\ call[r].op = "preAuthorize" /\ call[r].row = Payments!NoPayment
         /\ call[r].session \in Sessions /\ call[r].amount \in Nat \ {0}
         /\ call[r].entry \in 0..Len(books) /\ Len(books) \in Nat
         /\ call[r].entry # 0 => books[call[r].entry].session = call[r].session
         /\ req[r] # Idle /\ req[r].op = "start" /\ req[r].pc = "paying"
         /\ req[r].session = call[r].session
         /\ session[call[r].session].origin = "app"
<1>1. /\ call[r] \in Payments!Frame /\ Len(books) \in Nat
  BY DEF Knows, TypeOK, Payments!TypeOK, Payments!InCall, Payments!Returned, Payments!Threw
<1>2. /\ call[r].op = "preAuthorize" /\ call[r].row = Payments!NoPayment
      /\ call[r].entry \in 0..Len(books)
      /\ call[r].entry # 0 => books[call[r].entry].session = call[r].session
      /\ req[r] # Idle /\ req[r].op = "start" /\ req[r].pc = "paying"
      /\ req[r].session = call[r].session
  BY DEF Knows, CallKnows
<1>3. session[call[r].session].origin = "app"
  BY <1>2 DEF Knows, ReqKnows
<1> QED BY <1>1, <1>2, <1>3 DEF Payments!Frame

(* A hold is in the books before it is on the row: until then its call has  *)
(* it, and if the call dies it is orphaned.                                 *)
LEMMA Holds ==
  ASSUME IInv, NEW r \in Requests, Payments!InCall(r), call[r].pc = "gateway",
         Payments!Execute(r, "HOLD", 0), UNCHANGED svars
  PROVE  IInv'
<1>1. /\ session' = session /\ checked' = checked /\ deducted' = deducted
      /\ walletDefault' = walletDefault /\ payment' = payment /\ req' = req
      /\ orphaned' = orphaned /\ overlapped' = overlapped /\ TypeOK /\ Knows
  BY DEF svars, Payments!Execute, IInv, Knows
<1>2. PICK s \in Sessions : s = call[r].session
  BY <1>1, CallRunning
<1> DEFINE e == [kind |-> "HOLD", session |-> s, amount |-> call[r].amount, txn |-> 0]
           f == [call[r] EXCEPT !.pc = "save", !.entry = Len(books) + 1]
<1>3. e \in Payments!Entry /\ e.kind = "HOLD" /\ e.session = s
  BY <1>1, CallRunning DEF Payments!Entry
<1>4. books \in Seq(Payments!Entry) /\ Len(books) \in Nat
  BY <1>1 DEF TypeOK, Payments!TypeOK
<1>5. books' = Append(books, e) /\ call' = [call EXCEPT ![r] = f]
  BY <1>2 DEF Payments!Execute
<1>6. /\ f \in Payments!Frame /\ f.pc = "save" /\ f.entry = Len(books) + 1
      /\ f.op = call[r].op /\ f.session = call[r].session /\ f.row = call[r].row
  <2>1. Len(books) + 1 \in Nat
    BY <1>4
  <2> QED BY <1>1, <2>1, CallRunning DEF Payments!Frame
<1> HIDE DEF e, f
<1>7. /\ books' \in Seq(Payments!Entry) /\ Len(books') = Len(books) + 1
      /\ \A i \in 1..Len(books) : books'[i] = books[i]
      /\ books'[Len(books) + 1] = e
  BY <1>3, <1>4, <1>5
<1>8. /\ call' \in [Requests -> Payments!Frame \cup {Payments!Returned, Payments!Threw}]
      /\ call'[r] = f /\ \A o \in Requests \ {r} : call'[o] = call[o]
  BY <1>1, <1>5, <1>6 DEF TypeOK, Payments!TypeOK
<1>9. TypeOK'
  <2>1. orphaned' \subseteq 1..Len(books')
    BY <1>1, <1>4, <1>7 DEF TypeOK, Payments!TypeOK
  <2> QED BY <1>1, <1>7, <1>8, <2>1 DEF TypeOK, Payments!TypeOK
<1>10. BooksGrow /\ Advances
  <2>1. BooksGrow
    BY <1>4, <1>7 DEF BooksGrow
  <2>2. Advances
    BY <1>1 DEF Advances
  <2> QED BY <2>1, <2>2
<1>11. ReqKnows(r)'
  <2>1. call'[r] # Payments!Returned
    BY <1>6, <1>8 DEF Payments!Returned
  <2> QED BY <1>1, <2>1 DEF Knows, ReqKnows
<1>12. CallKnows(r)'
  <2>1. /\ call'[r].entry \in 0..Len(books')
        /\ books'[call'[r].entry].session = call'[r].session
    BY <1>2, <1>3, <1>4, <1>6, <1>7, <1>8
  <2> QED BY <1>1, <1>6, <1>8, <2>1, CallRunning DEF CallKnows
<1> DEFINE R == {r}
           S == {}
<1>13. /\ R \in SUBSET Requests /\ S \in SUBSET Sessions
       /\ \A o \in R : ReqKnows(o)' /\ CallKnows(o)'
       /\ \A t \in S : SessionKnows(t)'
       /\ \A o \in Requests \ R : req'[o] = req[o] /\ call'[o] = call[o]
       /\ \A t \in Sessions \ S : /\ session'[t] = session[t] /\ deducted'[t] = deducted[t]
                                  /\ payment'[t] = payment[t]
  BY <1>1, <1>8, <1>11, <1>12
<1> HIDE DEF R, S
<1>14. Knows'
  BY <1>1, <1>9, <1>10, <1>13, KnowsPreserved
<1>15. OnlyHolds'
  <2>1. ASSUME NEW i \in 1..Len(books') PROVE books'[i].kind = "HOLD"
    <3>1. i \in 1..Len(books) \/ i = Len(books) + 1
      BY <1>4, <1>7
    <3> QED BY <1>3, <1>7, <3>1 DEF IInv, OnlyHolds
  <2> QED BY <2>1 DEF OnlyHolds
<1>16. HoldsTracked'
  <2>1. ASSUME NEW t \in Sessions, NEW i \in Payments!Entries(t, {"HOLD"})'
        PROVE  \/ payment'[t].txn = i
               \/ \E o \in Requests : Payments!InCall(o)' /\ call'[o].entry = i
               \/ i \in orphaned'
    <3>1. i \in 1..Len(books') /\ books'[i].session = t /\ books'[i].kind = "HOLD"
      BY DEF Payments!Entries
    <3>2. CASE i = Len(books) + 1
      BY <1>6, <1>8, <3>2 DEF Payments!InCall
    <3>3. CASE i # Len(books) + 1
      <4>1. i \in Payments!Entries(t, {"HOLD"})
        BY <1>4, <1>7, <3>1, <3>3 DEF Payments!Entries
      <4>2. \/ payment[t].txn = i
            \/ \E o \in Requests : Payments!InCall(o) /\ call[o].entry = i
            \/ i \in orphaned
        BY <4>1 DEF IInv, HoldsTracked
      <4>3. i # 0 /\ call[r].entry = 0
        <5>1. call[r].entry = 0
          BY <1>1 DEF Knows, CallKnows
        <5> QED BY <3>1, <5>1
      <4>4. \A o \in Requests : Payments!InCall(o) /\ call[o].entry = i =>
              o # r /\ Payments!InCall(o)' /\ call'[o].entry = i
        BY <1>8, <4>3 DEF Payments!InCall
      <4> QED BY <1>1, <4>2, <4>4
    <3> QED BY <3>2, <3>3
  <2> QED BY <2>1 DEF HoldsTracked
<1> QED BY <1>14, <1>15, <1>16 DEF IInv

(* Idram is only asked for a balance.                                       *)
LEMMA Balances ==
  ASSUME IInv, NEW r \in Requests, Payments!InCall(r), Payments!IdramGetBalance(r),
         UNCHANGED svars
  PROVE  IInv'
<1>1. /\ session' = session /\ checked' = checked /\ deducted' = deducted
      /\ walletDefault' = walletDefault /\ payment' = payment /\ req' = req
      /\ orphaned' = orphaned /\ overlapped' = overlapped /\ books' = books /\ TypeOK /\ Knows
  BY DEF svars, Payments!IdramGetBalance, IInv, Knows
<1> DEFINE f == [call[r] EXCEPT !.pc = "save"]
<1>2. /\ f \in Payments!Frame /\ f.pc = "save" /\ f.entry = call[r].entry
      /\ f.op = call[r].op /\ f.session = call[r].session /\ f.row = call[r].row
  BY <1>1, CallRunning DEF Payments!Frame
<1>3. call' = [call EXCEPT ![r] = f]
  BY DEF Payments!IdramGetBalance
<1> HIDE DEF f
<1>4. /\ call' \in [Requests -> Payments!Frame \cup {Payments!Returned, Payments!Threw}]
      /\ call'[r] = f /\ \A o \in Requests \ {r} : call'[o] = call[o]
  BY <1>1, <1>2, <1>3 DEF TypeOK, Payments!TypeOK
<1>5. TypeOK'
  BY <1>1, <1>4 DEF TypeOK, Payments!TypeOK
<1>6. BooksGrow /\ Advances
  BY <1>1 DEF BooksGrow, Advances
<1>7. ReqKnows(r)'
  <2>1. call'[r] # Payments!Returned
    BY <1>2, <1>4 DEF Payments!Returned
  <2> QED BY <1>1, <2>1 DEF Knows, ReqKnows
<1>8. CallKnows(r)'
  BY <1>1, <1>2, <1>4, CallRunning DEF CallKnows
<1> DEFINE R == {r}
           S == {}
<1>9. /\ R \in SUBSET Requests /\ S \in SUBSET Sessions
      /\ \A o \in R : ReqKnows(o)' /\ CallKnows(o)'
      /\ \A t \in S : SessionKnows(t)'
      /\ \A o \in Requests \ R : req'[o] = req[o] /\ call'[o] = call[o]
      /\ \A t \in Sessions \ S : /\ session'[t] = session[t] /\ deducted'[t] = deducted[t]
                                 /\ payment'[t] = payment[t]
  BY <1>1, <1>4, <1>7, <1>8
<1> HIDE DEF R, S
<1>10. Knows'
  BY <1>1, <1>5, <1>6, <1>9, KnowsPreserved
<1>11. OnlyHolds'
  BY <1>1 DEF IInv, OnlyHolds
<1>12. HoldsTracked'
  <2>1. \A o \in Requests : Payments!InCall(o) => /\ Payments!InCall(o)'
                                                  /\ call'[o].entry = call[o].entry
    BY <1>2, <1>4 DEF Payments!InCall
  <2>2. \A t \in Sessions : Payments!Entries(t, {"HOLD"})' = Payments!Entries(t, {"HOLD"})
    BY <1>1 DEF Payments!Entries
  <2> QED BY <1>1, <2>1, <2>2 DEF IInv, HoldsTracked
<1> QED BY <1>10, <1>11, <1>12 DEF IInv

(* The payment is created when there is still none; from then on it is      *)
(* AUTHORIZED, with the hold of its call.                                   *)
LEMMA Authorizations ==
  ASSUME IInv, NEW r \in Requests, Payments!InCall(r), Payments!SaveAuthorization(r),
         UNCHANGED svars
  PROVE  IInv'
<1>1. /\ session' = session /\ checked' = checked /\ deducted' = deducted
      /\ walletDefault' = walletDefault /\ req' = req
      /\ orphaned' = orphaned /\ overlapped' = overlapped /\ books' = books /\ TypeOK /\ Knows
      /\ call' = [call EXCEPT ![r] = Payments!Returned]
  BY DEF svars, Payments!SaveAuthorization, Payments!Save, Payments!End, IInv, Knows
<1>2. PICK s \in Sessions : s = call[r].session
  BY <1>1, CallRunning
<1>3. /\ session[s].origin = "app" /\ SessionKnows(s) /\ s = req[r].session
      /\ call[r].amount \in Nat \ {0} /\ call[r].entry \in Nat
  BY <1>1, <1>2, CallRunning DEF Knows
<1>4. payment[s] = Payments!NoPayment
  BY <1>1, <1>2, CallRunning DEF Payments!SaveAuthorization
<1> DEFINE gateway == IF call[r].entry = 0 THEN "IDRAM" ELSE "ARCA"
           row == [payment[s] EXCEPT !.status = "AUTHORIZED", !.authorized = call[r].amount,
                      !.gateway = gateway, !.txn = call[r].entry]
<1>5. payment' = [payment EXCEPT ![s] = row]
  BY <1>2 DEF Payments!SaveAuthorization, Payments!Save
<1>6. gateway \in {"IDRAM", "ARCA"}
  OBVIOUS
<1> HIDE DEF gateway
<1>7. /\ row \in Payments!PaymentRow /\ row.status = "AUTHORIZED" /\ row.gateway # "WALLET"
      /\ row.txn = call[r].entry
  <2> DEFINE Rows == [status : {"NONE", "AUTHORIZED"}, gateway : {"NONE", "ARCA", "IDRAM"},
                      authorized : Nat, captured : Nat, txn : Nat]
  <2>1. payment[s] \in Rows
    BY <1>4 DEF Payments!NoPayment
  <2> QED BY <1>3, <1>6, <2>1 DEF Payments!PaymentRow
<1> HIDE DEF row
<1>8. /\ payment' \in [Sessions -> Payments!PaymentRow \cup {Payments!NoPayment}]
      /\ payment'[s] = row /\ \A t \in Sessions \ {s} : payment'[t] = payment[t]
  BY <1>1, <1>5, <1>7 DEF TypeOK, Payments!TypeOK
<1>9. /\ call' \in [Requests -> Payments!Frame \cup {Payments!Returned, Payments!Threw}]
      /\ call'[r] = Payments!Returned /\ \A o \in Requests \ {r} : call'[o] = call[o]
  BY <1>1 DEF TypeOK, Payments!TypeOK
<1>10. TypeOK'
  BY <1>1, <1>8, <1>9 DEF TypeOK, Payments!TypeOK
<1>11. BooksGrow /\ Advances
  <2>1. BooksGrow
    BY <1>1 DEF BooksGrow
  <2>2. Advances
    BY <1>1, <1>7, <1>8 DEF Advances
  <2> QED BY <2>1, <2>2
<1>12. ReqKnows(r)'
  <2>1. payment'[req[r].session].status = "AUTHORIZED"
    BY <1>3, <1>7, <1>8
  <2> QED BY <1>1, <2>1 DEF Knows, ReqKnows
<1>13. CallKnows(r)'
  BY <1>9 DEF CallKnows, Payments!InCall, Payments!Returned
<1>14. SessionKnows(s)'
  BY <1>1, <1>3, <1>7, <1>8 DEF SessionKnows
<1> DEFINE R == {r}
           S == {s}
<1>15. /\ R \in SUBSET Requests /\ S \in SUBSET Sessions
       /\ \A o \in R : ReqKnows(o)' /\ CallKnows(o)'
       /\ \A t \in S : SessionKnows(t)'
       /\ \A o \in Requests \ R : req'[o] = req[o] /\ call'[o] = call[o]
       /\ \A t \in Sessions \ S : /\ session'[t] = session[t] /\ deducted'[t] = deducted[t]
                                  /\ payment'[t] = payment[t]
  BY <1>1, <1>8, <1>9, <1>12, <1>13, <1>14
<1> HIDE DEF R, S
<1>16. Knows'
  BY <1>1, <1>10, <1>11, <1>15, KnowsPreserved
<1>17. OnlyHolds'
  BY <1>1 DEF IInv, OnlyHolds
<1>18. HoldsTracked'
  <2>1. ASSUME NEW t \in Sessions, NEW i \in Payments!Entries(t, {"HOLD"})
        PROVE  \/ payment'[t].txn = i
               \/ \E o \in Requests : Payments!InCall(o)' /\ call'[o].entry = i
               \/ i \in orphaned'
    <3>1. /\ i \in 1..Len(books) /\ books[i].session = t
          /\ \/ payment[t].txn = i
             \/ \E o \in Requests : Payments!InCall(o) /\ call[o].entry = i
             \/ i \in orphaned
      BY DEF IInv, HoldsTracked, Payments!Entries
    <3>2. CASE payment[t].txn = i
      <4>1. t # s
        BY <1>4, <3>1, <3>2 DEF Payments!NoPayment
      <4> QED BY <1>8, <3>2, <4>1
    <3>3. ASSUME NEW o \in Requests, Payments!InCall(o), call[o].entry = i
          PROVE  payment'[t].txn = i \/ (Payments!InCall(o)' /\ call'[o].entry = i)
      <4>1. CASE o = r
        <5>1. i # 0 /\ call[r].entry = i
          BY <3>1, <3>3, <4>1
        <5>2. books[i].session = call[r].session
          BY <1>1, <5>1, CallRunning
        <5>3. t = s
          BY <1>2, <3>1, <5>2
        <5> QED BY <1>7, <1>8, <5>1, <5>3
      <4>2. CASE o # r
        BY <1>9, <3>3, <4>2 DEF Payments!InCall
      <4> QED BY <4>1, <4>2
    <3> QED BY <1>1, <3>1, <3>2, <3>3
  <2>2. \A t \in Sessions : Payments!Entries(t, {"HOLD"})' = Payments!Entries(t, {"HOLD"})
    BY <1>1 DEF Payments!Entries
  <2> QED BY <2>1, <2>2 DEF HoldsTracked
<1> QED BY <1>16, <1>17, <1>18 DEF IInv

(* A call that dies leaves its hold behind, and that is on record.          *)
LEMMA CallFailures ==
  ASSUME IInv, NEW r \in Requests, Fail(r), Payments!InCall(r)
  PROVE  IInv'
<1>1. /\ session' = session /\ checked' = checked /\ deducted' = deducted
      /\ walletDefault' = walletDefault /\ payment' = payment /\ req' = req
      /\ overlapped' = overlapped /\ books' = books /\ TypeOK /\ Knows
      /\ call' = [call EXCEPT ![r] = Payments!Threw]
      /\ orphaned' = orphaned \cup ({call[r].entry} \ {0})
  BY DEF Fail, Payments!Fail, Payments!End, IInv, Knows
<1>2. /\ call' \in [Requests -> Payments!Frame \cup {Payments!Returned, Payments!Threw}]
      /\ call'[r] = Payments!Threw /\ \A o \in Requests \ {r} : call'[o] = call[o]
  BY <1>1 DEF TypeOK, Payments!TypeOK
<1>3. orphaned' \subseteq 1..Len(books')
  <2>1. call[r].entry \in 0..Len(books) /\ orphaned \subseteq 1..Len(books)
    BY <1>1, CallRunning DEF TypeOK, Payments!TypeOK
  <2>2. \A i \in 0..Len(books) : i # 0 => i \in 1..Len(books)
    BY <1>1, CallRunning
  <2> QED BY <1>1, <2>1, <2>2
<1>4. TypeOK'
  BY <1>1, <1>2, <1>3 DEF TypeOK, Payments!TypeOK
<1>5. BooksGrow /\ Advances
  BY <1>1 DEF BooksGrow, Advances
<1>6. ReqKnows(r)'
  <2>1. call'[r] # Payments!Returned
    BY <1>2 DEF Payments!Returned, Payments!Threw
  <2> QED BY <1>1, <2>1 DEF Knows, ReqKnows
<1>7. CallKnows(r)'
  BY <1>2 DEF CallKnows, Payments!InCall, Payments!Threw
<1> DEFINE R == {r}
           S == {}
<1>8. /\ R \in SUBSET Requests /\ S \in SUBSET Sessions
      /\ \A o \in R : ReqKnows(o)' /\ CallKnows(o)'
      /\ \A t \in S : SessionKnows(t)'
      /\ \A o \in Requests \ R : req'[o] = req[o] /\ call'[o] = call[o]
      /\ \A t \in Sessions \ S : /\ session'[t] = session[t] /\ deducted'[t] = deducted[t]
                                 /\ payment'[t] = payment[t]
  BY <1>1, <1>2, <1>6, <1>7
<1> HIDE DEF R, S
<1>9. Knows'
  BY <1>1, <1>4, <1>5, <1>8, KnowsPreserved
<1>10. OnlyHolds'
  BY <1>1 DEF IInv, OnlyHolds
<1>11. HoldsTracked'
  <2>1. ASSUME NEW t \in Sessions, NEW i \in Payments!Entries(t, {"HOLD"})
        PROVE  \/ payment'[t].txn = i
               \/ \E o \in Requests : Payments!InCall(o)' /\ call'[o].entry = i
               \/ i \in orphaned'
    <3>1. /\ i # 0
          /\ \/ payment[t].txn = i
             \/ \E o \in Requests : Payments!InCall(o) /\ call[o].entry = i
             \/ i \in orphaned
      BY DEF IInv, HoldsTracked, Payments!Entries
    <3>2. ASSUME NEW o \in Requests, Payments!InCall(o), call[o].entry = i
          PROVE  i \in orphaned' \/ (Payments!InCall(o)' /\ call'[o].entry = i)
      <4>1. CASE o = r
        BY <1>1, <3>1, <3>2, <4>1
      <4>2. CASE o # r
        BY <1>2, <3>2, <4>2 DEF Payments!InCall
      <4> QED BY <4>1, <4>2
    <3> QED BY <1>1, <3>1, <3>2
  <2>2. \A t \in Sessions : Payments!Entries(t, {"HOLD"})' = Payments!Entries(t, {"HOLD"})
    BY <1>1 DEF Payments!Entries
  <2> QED BY <2>1, <2>2 DEF HoldsTracked
<1> QED BY <1>9, <1>10, <1>11 DEF IInv

-----------------------------------------------------------------------------
(* Theorems                                                                *)

LEMMA InitOK ==
  ASSUME Init
  PROVE  IInv
<1>1. books = <<>> /\ Len(books) = 0 /\ orphaned = {}
  BY DEF Init, Payments!Init
<1>2. Payments!TypeOK
  BY <1>1 DEF Init, Payments!Init, Payments!TypeOK
<1>3. \A s \in Sessions : <<>> \in Seq(Costs \ {0})
  OBVIOUS
<1>4. TypeOK
  BY <1>2, <1>3 DEF Init, TypeOK
<1>5. \A r \in Requests : ReqKnows(r) /\ CallKnows(r)
  BY DEF Init, Payments!Init, ReqKnows, CallKnows, Payments!InCall, Payments!Returned
<1>6. \A s \in Sessions : SessionKnows(s)
  BY DEF Init, Payments!Init, SessionKnows, NoSession, Payments!NoPayment
<1>7. OnlyHolds /\ HoldsTracked
  BY <1>1 DEF OnlyHolds, HoldsTracked, Payments!Entries
<1> QED BY <1>4, <1>5, <1>6, <1>7 DEF IInv, Knows

LEMMA NextOK ==
  ASSUME CostsAssumption, IInv, [Next]_vars
  PROVE  IInv'
<1>1. CASE UNCHANGED vars
  <2>1. /\ session' = session /\ walletDefault' = walletDefault /\ deducted' = deducted
        /\ checked' = checked /\ req' = req /\ pvars' = pvars
    BY <1>1 DEF vars, pvars
  <2>2. TypeOK /\ TypeOK'
    BY <2>1, PaymentsRest DEF TypeOK, IInv, Knows
  <2>3. /\ \A r \in Requests : ReqKnows(r)' /\ CallKnows(r)'
        /\ \A s \in Sessions : SessionKnows(s)'
    BY <2>1, <2>2, PaymentsRest
       DEF IInv, Knows, ReqKnows, CallKnows, SessionKnows, Payments!InCall
  <2> QED BY <2>1, <2>2, <2>3, PaymentsRest DEF IInv, Knows
<1>2. CASE SwitchDefault
  BY <1>2, Switches
<1>3. ASSUME NEW s \in Sessions, CreateSession(s) \/ StartTransaction(s) PROVE IInv'
  BY <1>3, Creations
<1>4. ASSUME NEW s \in Sessions, NEW r \in Requests,
             StartSession(r, s) \/ StopSession(r, s) \/ StopTransaction(r, s)
      PROVE  IInv'
  BY <1>4, Acceptances
<1>5. ASSUME NEW r \in Requests, Step(r) PROVE IInv'
  <2>1. CASE Authorize(r) \/ Activate(r)
    BY <2>1, Starts
  <2>2. CASE ChooseStart(r) \/ ChooseStop(r)
    BY <2>2, Choices
  <2>3. CASE CheckBalance(r)
    BY <2>3, Checks
  <2>4. CASE BeginPreAuthorize(r)
    BY <2>4, PreAuthorizations
  <2>5. CASE Complete(r) \/ CompleteTransaction(r)
    BY <2>5, Completions
  <2>6. CASE Deduct(r)
    BY <2>6, Deductions
  <2>7. CASE RecordWalletPayment(r)
    BY <2>7, Records
  <2>8. CASE BeginCapture(r)
    BY <2>8, Captures
  <2>9. CASE StopPaid(r)
    BY <2>9, Endings
  <2>10. CASE PaymentStep(r)
    <3>1. Payments!PaymentStep(r) /\ UNCHANGED svars
      BY <2>10 DEF PaymentStep
    <3> QED BY <3>1, PaymentKinds, Holds, Balances, Authorizations DEF IInv, Payments!At
  <2>11. CASE Fail(r)
    BY <2>11, Endings, CallFailures
  <2> QED BY <1>5, <2>1, <2>2, <2>3, <2>4, <2>5, <2>6, <2>7, <2>8, <2>9, <2>10, <2>11 DEF Step
<1> QED BY <1>1, <1>2, <1>3, <1>4, <1>5 DEF Next

(* The invariant gives the properties of the runs.                          *)
LEMMA Consequences ==
  ASSUME IInv
  PROVE  TypeOK /\ ActiveIsBacked /\ MoneyIsTracked
<1>1. TypeOK /\ HoldsTracked /\ \A s \in Sessions : SessionKnows(s)
  BY DEF IInv, Knows
<1>2. ActiveIsBacked /\ ChargedWhenCompleted
  BY <1>1 DEF ActiveIsBacked, ChargedWhenCompleted, SessionKnows
<1>3. WalletPaymentWasDeducted
  <2>1. ASSUME NEW s \in Sessions, payment[s].gateway = "WALLET"
        PROVE  \E i \in 1..Len(deducted[s]) : deducted[s][i] = payment[s].captured
    <3>1. session[s].origin \in {"none", "app", "charger"}
      BY <1>1 DEF TypeOK, SessionRow, NoSession
    <3> QED BY <1>1, <2>1, <3>1 DEF SessionKnows, Payments!NoPayment
  <2> QED BY <2>1 DEF WalletPaymentWasDeducted
<1> QED BY <1>1, <1>2, <1>3 DEF MoneyIsTracked

(* Sessions, requests, payments and calls keep the types of the tables and  *)
(* frames they stand for.                                                   *)
THEOREM TypeCorrect ==
  ASSUME CostsAssumption
  PROVE  Spec => []TypeOK
<1>1. Init => IInv
  BY InitOK
<1>2. IInv /\ [Next]_vars => IInv'
  BY NextOK
<1>3. IInv => TypeOK
  BY Consequences
<1> QED BY <1>1, <1>2, <1>3, PTL DEF Spec

(* No ACTIVE session of the app is on credit, in startSession and           *)
(* stopSession however many of their requests overlap.                      *)
THEOREM NobodyChargesOnCredit ==
  ASSUME CostsAssumption
  PROVE  Spec => []ActiveIsBacked
<1>1. Init => IInv
  BY InitOK
<1>2. IInv /\ [Next]_vars => IInv'
  BY NextOK
<1>3. IInv => ActiveIsBacked
  BY Consequences
<1> QED BY <1>1, <1>2, <1>3, PTL DEF Spec

(* Deductions come after the end of their session and before their record,  *)
(* and no hold of preAuthorizeArcaForSession is lost track of.              *)
THEOREM MoneyFollowsTheSession ==
  ASSUME CostsAssumption
  PROVE  Spec => []MoneyIsTracked
<1>1. Init => IInv
  BY InitOK
<1>2. IInv /\ [Next]_vars => IInv'
  BY NextOK
<1>3. IInv => MoneyIsTracked
  BY Consequences
<1> QED BY <1>1, <1>2, <1>3, PTL DEF Spec

(* The life of a session never has a gateway take money: whatever is        *)
(* started, stopped, repeated or lost, ArCa and Idram are asked for holds   *)
(* only, because the sessions that get a payment of theirs (the app's) are  *)
(* not the ones that get a cost (the charger's).                            *)
THEOREM GatewaysOnlyHold ==
  ASSUME CostsAssumption
  PROVE  Spec => []OnlyHolds
<1>1. Init => IInv
  BY InitOK
<1>2. IInv /\ [Next]_vars => IInv'
  BY NextOK
<1>3. IInv => OnlyHolds
  BY DEF IInv
<1> QED BY <1>1, <1>2, <1>3, PTL DEF Spec

(* Only a start writes another status than COMPLETED, and it is never about *)
(* a session that a charger started.                                        *)
LEMMA ChargersEnd ==
  ASSUME IInv, [Next]_vars
  PROVE  ChargersEndForGood
<1> SUFFICES ASSUME NEW s \in Sessions, session[s].origin = "charger"
             PROVE  /\ session'[s].origin = "charger"
                    /\ session'[s].status \in {session[s].status, "COMPLETED"}
                    /\ session'[s].cost # session[s].cost => session'[s].status = "COMPLETED"
  BY DEF ChargersEndForGood
<1>1. session \in [Sessions -> SessionRow \cup {NoSession}] /\ session[s] \in SessionRow
  BY DEF IInv, Knows, TypeOK, NoSession
<1>2. CASE session' = session
  BY <1>2
<1>3. ASSUME NEW t \in Sessions, CreateSession(t) \/ StartTransaction(t)
      PROVE  session'[s] = session[s]
  BY <1>1, <1>3 DEF CreateSession, StartTransaction, NoSession
<1>4. ASSUME NEW r \in Requests, Authorize(r) \/ Activate(r)
      PROVE  session'[s] = session[s]
  <2>1. req[r] # Idle /\ req[r].op = "start"
    BY <1>4 DEF Authorize, Activate, At, Idle
  <2>2. session[req[r].session].origin = "app"
    BY <2>1 DEF IInv, Knows, ReqKnows
  <2> QED BY <1>1, <1>4, <2>2 DEF Authorize, Activate, SetStatus
<1>5. ASSUME NEW r \in Requests, Complete(r)
      PROVE  /\ session'[s].origin = "charger" /\ session'[s].cost = session[s].cost
             /\ session'[s].status \in {session[s].status, "COMPLETED"}
  <2>1. session' = [session EXCEPT ![req[r].session].status = "COMPLETED"]
    BY <1>5 DEF Complete, SetStatus
  <2> QED BY <1>1, <2>1 DEF SessionRow
<1>6. ASSUME NEW r \in Requests, CompleteTransaction(r)
      PROVE  /\ session'[s].origin = "charger"
             /\ \/ session'[s] = session[s]
                \/ session'[s].status = "COMPLETED"
  <2>1. session' = [session EXCEPT ![req[r].session].status = "COMPLETED",
                                   ![req[r].session].cost = req[r].cost]
    BY <1>6 DEF CompleteTransaction
  <2> QED BY <1>1, <2>1 DEF SessionRow
<1>7. \/ session' = session
      \/ \E t \in Sessions : CreateSession(t) \/ StartTransaction(t)
      \/ \E r \in Requests : \/ Authorize(r) \/ Activate(r)
                             \/ Complete(r) \/ CompleteTransaction(r)
  BY DEF Next, vars, SwitchDefault, StartSession, StopSession, StopTransaction, Step,
         ChooseStart, CheckBalance, BeginPreAuthorize, ChooseStop, Deduct,
         RecordWalletPayment, BeginCapture, StopPaid, PaymentStep, svars, Fail
<1> QED BY <1>2, <1>3, <1>4, <1>5, <1>6, <1>7

(* A session that handleStartTransaction created is never reopened, by the  *)
(* app or by the charger, and keeps its cost.                               *)
THEOREM ChargersStayEnded ==
  ASSUME CostsAssumption
  PROVE  Spec => ChargerNeverReopens
<1>1. Init => IInv
  BY InitOK
<1>2. IInv /\ [Next]_vars => IInv'
  BY NextOK
<1>3. IInv /\ [Next]_vars => [ChargersEndForGood]_vars
  BY ChargersEnd
<1> QED BY <1>1, <1>2, <1>3, PTL DEF Spec, ChargerNeverReopens

-----------------------------------------------------------------------------
(* The lifecycle, when requests come one at a time                         *)

(* What a lone request read of the session is still so when it writes.      *)
Alone(r) ==
  LET f == req[r]
      status == session[req[r].session].status
  IN
  f # Idle =>
    /\ f.op = "start" => status = IF f.pc = "authorize" THEN "PENDING" ELSE "AUTHORIZED"
    /\ f.op \in {"stop", "stopTransaction"} /\ f.pc = "complete" => status = "ACTIVE"

AloneInv == \A r \in Requests : Alone(r)

OneSlot == \A a, b \in Requests : a = b

(* A step either leaves the statuses or moves one session along the graph.  *)
LEMMA AloneStep ==
  ASSUME OneSlot, IInv, AloneInv, [Next]_vars
  PROVE  /\ AloneInv'
         /\ \/ \A s \in Sessions : session'[s].status = session[s].status
            \/ \E s \in Sessions, to \in {"PENDING", "AUTHORIZED", "ACTIVE", "COMPLETED"} :
                 /\ <<session[s].status, to>> \in
                      {<<"NONE", "PENDING">>, <<"NONE", "ACTIVE">>, <<"PENDING", "AUTHORIZED">>,
                       <<"AUTHORIZED", "ACTIVE">>, <<"ACTIVE", "COMPLETED">>}
                 /\ session'[s].status = to
                 /\ \A t \in Sessions \ {s} : session'[t].status = session[t].status
<1> DEFINE Moved(s, from, to) ==
             /\ session[s].status = from /\ session'[s].status = to
             /\ \A t \in Sessions \ {s} : session'[t].status = session[t].status
           Same == \A s \in Sessions : session'[s].status = session[s].status
           Goal == \/ Same
                   \/ \E s \in Sessions : \/ Moved(s, "NONE", "PENDING")
                                          \/ Moved(s, "NONE", "ACTIVE")
                                          \/ Moved(s, "PENDING", "AUTHORIZED")
                                          \/ Moved(s, "AUTHORIZED", "ACTIVE")
                                          \/ Moved(s, "ACTIVE", "COMPLETED")
<1>1. Knows /\ TypeOK /\ \A r \in Requests : Alone(r) /\ ReqKnows(r)
  BY DEF IInv, Knows, AloneInv
<1>2. ASSUME session' = session, req' = req PROVE AloneInv' /\ Goal
  BY <1>1, <1>2 DEF AloneInv, Alone
<1>3. ASSUME NEW s \in Sessions, CreateSession(s) \/ StartTransaction(s)
      PROVE  AloneInv' /\ Goal
  <2>1. session[s] = NoSession /\ req' = req
    BY <1>3 DEF CreateSession, StartTransaction
  <2>2. PICK row \in {[origin |-> "app", status |-> "PENDING", cost |-> 0],
                      [origin |-> "charger", status |-> "ACTIVE", cost |-> 0]} :
          session' = [session EXCEPT ![s] = row]
    BY <1>3 DEF CreateSession, StartTransaction
  <2>3. session'[s] = row /\ \A t \in Sessions \ {s} : session'[t] = session[t]
    BY <1>1, <2>2 DEF TypeOK
  <2>4. Moved(s, "NONE", "PENDING") \/ Moved(s, "NONE", "ACTIVE")
    BY <2>1, <2>2, <2>3 DEF NoSession
  <2>5. ASSUME NEW r \in Requests PROVE Alone(r)'
    <3>1. CASE req[r] = Idle
      BY <2>1, <3>1 DEF Alone
    <3>2. CASE req[r] # Idle
      <4>1. req[r].session \in Sessions /\ req[r].session # s
        BY <1>1, <2>1, <3>2, Running DEF ReqKnows, NoSession
      <4> QED BY <1>1, <2>1, <2>3, <4>1 DEF Alone
    <3> QED BY <3>1, <3>2
  <2> QED BY <2>4, <2>5 DEF AloneInv
<1>4. ASSUME NEW r \in Requests, NEW s \in Sessions,
             StartSession(r, s) \/ StopSession(r, s) \/ StopTransaction(r, s)
      PROVE  AloneInv' /\ Goal
  <2>1. session' = session /\ Same /\ SessionKnows(s)
    BY <1>1, <1>4 DEF StartSession, StopSession, StopTransaction, Knows
  <2>2. PICK op \in {"start", "stop", "stopTransaction"},
             pc \in {"authorize", "chooseStart", "complete"}, cost \in Costs \cup {0} :
          /\ req' = [req EXCEPT ![r] = [op |-> op, session |-> s, cost |-> cost, pc |-> pc]]
          /\ op = "start" => session[s].status = IF pc = "authorize" THEN "PENDING"
                                                 ELSE "AUTHORIZED"
          /\ op \in {"stop", "stopTransaction"} => session[s].status = "ACTIVE"
    <3>1. CASE StartSession(r, s)
      BY <3>1 DEF StartSession, Accept
    <3>2. CASE StopSession(r, s)
      BY <3>2 DEF StopSession, Accept
    <3>3. CASE StopTransaction(r, s)
      <4>1. session[s].status = "ACTIVE"
        BY <2>1, <3>3 DEF StopTransaction, SessionKnows
      <4> QED BY <3>3, <4>1 DEF StopTransaction, Accept
    <3> QED BY <1>4, <3>1, <3>2, <3>3
  <2> DEFINE f == [op |-> op, session |-> s, cost |-> cost, pc |-> pc]
  <2>3. f.op = op /\ f.session = s /\ f.pc = pc
    OBVIOUS
  <2> HIDE DEF f
  <2>4. req'[r] = f
    BY <1>1, <2>2 DEF TypeOK, f
  <2>5. Alone(r)'
    BY <2>1, <2>2, <2>3, <2>4 DEF Alone
  <2> QED BY <2>1, <2>5 DEF AloneInv, OneSlot
<1>5. ASSUME NEW r \in Requests, Authorize(r) \/ Activate(r) PROVE AloneInv' /\ Goal
  <2>1. req[r] # Idle /\ req[r].op = "start"
    BY <1>5 DEF Authorize, Activate, At, Idle
  <2>2. PICK s \in Sessions : s = req[r].session /\ req[r] \in Frame /\ session[s] \in SessionRow
    BY <1>1, <2>1, Running
  <2>3. CASE Authorize(r)
    <3>1. SetStatus(s, "AUTHORIZED") /\ Goto(r, "chooseStart") /\ req[r].pc = "authorize"
      BY <2>2, <2>3 DEF Authorize, At
    <3>2. /\ session'[s].status = "AUTHORIZED"
          /\ \A t \in Sessions \ {s} : session'[t] = session[t]
      BY <1>1, <2>2, <3>1, StatusWritten
    <3>3. session[s].status = "PENDING"
      BY <1>1, <2>1, <2>2, <3>1 DEF Alone
    <3>4. Moved(s, "PENDING", "AUTHORIZED")
      BY <3>2, <3>3
    <3>5. req'[r].pc = "chooseStart" /\ req'[r].session = s /\ req'[r].op = "start"
      BY <1>1, <2>1, <2>2, <3>1, GotoMoves
    <3>6. Alone(r)'
      BY <3>2, <3>5 DEF Alone
    <3> QED BY <3>4, <3>6 DEF AloneInv, OneSlot
  <2>4. CASE Activate(r)
    <3>1. SetStatus(s, "ACTIVE") /\ Finish(r) /\ req[r].pc # "authorize"
      BY <2>2, <2>4 DEF Activate, At
    <3>2. /\ session'[s].status = "ACTIVE"
          /\ \A t \in Sessions \ {s} : session'[t] = session[t]
      BY <1>1, <2>2, <3>1, StatusWritten
    <3>3. session[s].status = "AUTHORIZED"
      BY <1>1, <2>1, <2>2, <3>1 DEF Alone
    <3>4. Moved(s, "AUTHORIZED", "ACTIVE")
      BY <3>2, <3>3
    <3>5. Alone(r)'
      BY <1>1, <3>1, ReqMoves DEF Finish, Alone
    <3> QED BY <3>4, <3>5 DEF AloneInv, OneSlot
  <2> QED BY <1>5, <2>3, <2>4
<1>6. ASSUME NEW r \in Requests, Complete(r) \/ CompleteTransaction(r) PROVE AloneInv' /\ Goal
  <2>1. /\ req[r] # Idle /\ req[r].op \in {"stop", "stopTransaction"}
        /\ req[r].pc = "complete"
    BY <1>6 DEF Complete, CompleteTransaction, At, Idle
  <2>2. PICK s \in Sessions : s = req[r].session /\ req[r] \in Frame /\ session[s] \in SessionRow
    BY <1>1, <2>1, Running
  <2>3. session[s].status = "ACTIVE"
    BY <1>1, <2>1, <2>2 DEF Alone
  <2>4. /\ session'[s].status = "COMPLETED"
        /\ \A t \in Sessions \ {s} : session'[t] = session[t]
    BY <1>1, <1>6, <2>2 DEF Complete, CompleteTransaction, SetStatus, TypeOK, SessionRow
  <2>5. Moved(s, "ACTIVE", "COMPLETED")
    BY <2>3, <2>4
  <2>6. /\ req'[r].op \in {"stop", "stopTransaction"} /\ req'[r].pc # "complete"
    <3>1. CASE Complete(r)
      <4> DEFINE f == [req[r] EXCEPT !.cost = session[req[r].session].cost, !.pc = "chooseStop"]
      <4>1. f.op = req[r].op /\ f.pc = "chooseStop"
        BY <2>2 DEF Frame
      <4>2. req' = [req EXCEPT ![r] = f]
        BY <3>1 DEF Complete
      <4> HIDE DEF f
      <4>3. req'[r] = f
        BY <1>1, <4>2 DEF TypeOK
      <4> QED BY <2>1, <4>1, <4>3
    <3>2. CASE CompleteTransaction(r)
      <4>1. Goto(r, "capture")
        BY <3>2 DEF CompleteTransaction
      <4> QED BY <1>1, <2>1, <2>2, <4>1, GotoMoves
    <3> QED BY <1>6, <3>1, <3>2
  <2>7. Alone(r)'
    BY <2>6 DEF Alone
  <2> QED BY <2>5, <2>7 DEF AloneInv, OneSlot
<1>7. ASSUME NEW r \in Requests, session' = session,
             req' = req \/ Finish(r) \/ (req[r] # Idle /\ req[r].pc # "authorize"
               /\ \E pc \in {"checkBalance", "preAuthorize", "activate", "deduct", "record",
                             "capture", "paying"} : Goto(r, pc))
      PROVE  AloneInv' /\ Goal
  <2>1. CASE req' = req
    BY <1>2, <1>7, <2>1
  <2>2. CASE Finish(r)
    <3>1. Alone(r)'
      BY <1>1, <2>2, ReqMoves DEF Finish, Alone
    <3> QED BY <1>7, <3>1 DEF AloneInv, OneSlot
  <2>3. ASSUME req[r] # Idle, req[r].pc # "authorize",
               NEW pc \in {"checkBalance", "preAuthorize", "activate", "deduct", "record",
                           "capture", "paying"}, Goto(r, pc)
        PROVE  AloneInv' /\ Goal
    <3>1. req[r] \in Frame
      BY <1>1, <2>3, Running
    <3>2. /\ req'[r].pc = pc /\ req'[r].op = req[r].op /\ req'[r].session = req[r].session
      BY <1>1, <2>3, <3>1, GotoMoves
    <3>3. Alone(r)'
      BY <1>1, <1>7, <2>3, <3>2 DEF Alone
    <3> QED BY <1>7, <3>3 DEF AloneInv, OneSlot
  <2> QED BY <1>7, <2>1, <2>2, <2>3
<1>8. ASSUME NEW r \in Requests, Step(r)
      PROVE  AloneInv' /\ Goal
  <2>1. CASE Authorize(r) \/ Activate(r)
    BY <1>5, <2>1
  <2>2. CASE Complete(r) \/ CompleteTransaction(r)
    BY <1>6, <2>2
  <2>3. CASE \/ ChooseStart(r) \/ CheckBalance(r) \/ BeginPreAuthorize(r)
             \/ ChooseStop(r) \/ Deduct(r) \/ BeginCapture(r)
    <3>1. session' = session /\ req[r] # Idle /\ req[r].pc # "authorize"
      BY <2>3 DEF ChooseStart, CheckBalance, BeginPreAuthorize, ChooseStop, Deduct,
                  BeginCapture, At, Idle
    <3>2. \E pc \in {"checkBalance", "preAuthorize", "activate", "deduct", "record",
                     "capture", "paying"} : Goto(r, pc)
      BY <2>3 DEF ChooseStart, CheckBalance, BeginPreAuthorize, ChooseStop, Deduct,
                  BeginCapture
    <3> QED BY <1>7, <3>1, <3>2
  <2>4. CASE RecordWalletPayment(r) \/ StopPaid(r) \/ PaymentStep(r) \/ Fail(r)
    <3>1. session' = session /\ (req' = req \/ Finish(r))
      BY <2>4 DEF RecordWalletPayment, StopPaid, PaymentStep, svars, Fail
    <3> QED BY <1>7, <3>1
  <2> QED BY <1>8, <2>1, <2>2, <2>3, <2>4 DEF Step
<1>9. AloneInv' /\ Goal
  <2>1. UNCHANGED vars \/ SwitchDefault => session' = session /\ req' = req
    BY DEF vars, SwitchDefault
  <2> HIDE DEF Goal
  <2> QED BY <2>1, <1>2, <1>3, <1>4, <1>8 DEF Next
<1> QED BY <1>9

(* "Validates that one state transition is allowed by the lifecycle graph": *)
(* with one request at a time, whatever of it fails, the status columns     *)
(* implement SESSION_STATE_TRANSITIONS, step by step.                       *)
THEOREM OneAtATimeImplementsLifecycle ==
  ASSUME CostsAssumption, OneSlot
  PROVE  Spec => ImplementsLifecycle
<1> DEFINE status == [s \in Sessions |-> session[s].status]
<1>1. Init => IInv /\ AloneInv /\ Lifecycle!Init
  <2>1. Init => AloneInv
    BY DEF Init, AloneInv, Alone
  <2>2. Init => Lifecycle!Init
    BY DEF Init, Lifecycle!Init, NoSession
  <2> QED BY <2>1, <2>2, InitOK
<1>2. IInv /\ AloneInv /\ [Next]_vars => IInv' /\ AloneInv'
  BY NextOK, AloneStep
<1>3. IInv /\ AloneInv /\ [Next]_vars => [Lifecycle!Next]_status
  <2> SUFFICES ASSUME IInv, AloneInv, [Next]_vars PROVE Lifecycle!Next \/ status' = status
    OBVIOUS
  <2>1. CASE \A s \in Sessions : session'[s].status = session[s].status
    BY <2>1
  <2>2. ASSUME NEW s \in Sessions, NEW to \in {"PENDING", "AUTHORIZED", "ACTIVE", "COMPLETED"},
               <<session[s].status, to>> \in
                  {<<"NONE", "PENDING">>, <<"NONE", "ACTIVE">>, <<"PENDING", "AUTHORIZED">>,
                   <<"AUTHORIZED", "ACTIVE">>, <<"ACTIVE", "COMPLETED">>},
               session'[s].status = to,
               \A t \in Sessions \ {s} : session'[t].status = session[t].status
        PROVE  Lifecycle!Next
    <3>1. to \in Lifecycle!Transitions[session[s].status]
      BY <2>2 DEF Lifecycle!Transitions
    <3>2. status' = [status EXCEPT ![s] = to]
      BY <2>2
    <3>3. to \in Lifecycle!Transitions[status[s]]
      BY <3>1
    <3> QED BY <3>2, <3>3 DEF Lifecycle!Next, Lifecycle!Move
  <2> QED BY <2>1, <2>2, AloneStep
<1> QED BY <1>1, <1>2, <1>3, PTL DEF Spec, ImplementsLifecycle, Lifecycle!Spec
=============================================================================
