-------------------------- MODULE ChargingSession --------------------------
(***************************************************************************)
(* The life of a charging session: sessions.service.ts (the app creates,   *)
(* starts and stops it) and ocpp.transactions.service.ts (the charger      *)
(* starts and stops it), with the payments they make on the way: the calls *)
(* of SessionPayments, and the user's LiloCharge wallet when it is the     *)
(* default payment method.                                                 *)
(*                                                                         *)
(* Every request reads the session first and writes it later, by id and    *)
(* without a condition: between two awaits of one request the others run.  *)
(* The wallet's own transactions are module Wallet; here a deduction is    *)
(* one step that the wallet may refuse.                                    *)
(***************************************************************************)
EXTENDS Integers, Sequences, FiniteSets

CONSTANTS
  Sessions,    \* sessions of one user
  Requests,    \* slots for requests that are in flight at the same time
  Costs,       \* what calculateFinalCost may return, in AMD; 0 is its fallback
  HoldAmount,  \* amount of a pre-authorization
  MaxEntries   \* bound: gateway operations over a behaviour

CostsAssumption == Costs \subseteq Nat /\ HoldAmount \in Nat \ {0}

VARIABLES
  session,        \* sessions: who created the row, its status and its total cost
  walletDefault,  \* the user's default payment method is the LiloCharge wallet
  deducted,       \* wallet deductions, by session
  checked,        \* history: sessions whose start passed the wallet check
  req,            \* req[r]: the request that slot r is running
  payment, books, orphaned, overlapped, call   \* SessionPayments

pvars == <<payment, books, orphaned, overlapped, call>>
svars == <<session, walletDefault, deducted, checked, req>>
vars == <<session, walletDefault, deducted, checked, req,
          payment, books, orphaned, overlapped, call>>

Payments == INSTANCE SessionPayments WITH Amounts <- Costs

NoSession == [origin |-> "none", status |-> "NONE", cost |-> 0]

\* Rows created by the charger are the ones with a transactionId.
SessionRow == [origin : {"app", "charger"},
               status : {"PENDING", "AUTHORIZED", "ACTIVE", "COMPLETED"}, cost : Costs \cup {0}]

Frame == [op : {"start", "stop", "stopTransaction"}, session : Sessions,
          cost : Costs \cup {0},
          pc : {"authorize", "chooseStart", "checkBalance", "preAuthorize", "activate",
                "complete", "chooseStop", "deduct", "record", "capture", "paying"}]

Idle == [pc |-> "idle"]

TypeOK ==
  /\ session \in [Sessions -> SessionRow \cup {NoSession}]
  /\ walletDefault \in BOOLEAN
  /\ deducted \in [Sessions -> Seq(Costs \ {0})]
  /\ checked \subseteq Sessions
  /\ req \in [Requests -> Frame \cup {Idle}]
  /\ Payments!TypeOK

Init ==
  /\ session = [s \in Sessions |-> NoSession]
  /\ walletDefault = FALSE
  /\ deducted = [s \in Sessions |-> <<>>]
  /\ checked = {}
  /\ req = [r \in Requests |-> Idle]
  /\ Payments!Init

-----------------------------------------------------------------------------
(* Steps shared by the handlers                                            *)

At(r, op, pc) == req[r].pc = pc /\ req[r].op = op

Accept(r, op, s, pc, cost) ==
  /\ req[r] = Idle
  /\ req' = [req EXCEPT ![r] = [op |-> op, session |-> s, cost |-> cost, pc |-> pc]]

Goto(r, pc) == req' = [req EXCEPT ![r].pc = pc]

Finish(r) == req' = [req EXCEPT ![r] = Idle]

SetStatus(s, to) == session' = [session EXCEPT ![s].status = to]

-----------------------------------------------------------------------------
(* The session rows, and the user's choice of payment method               *)

CreateSession(s) ==
  /\ session[s] = NoSession
  /\ session' = [session EXCEPT ![s] = [origin |-> "app", status |-> "PENDING", cost |-> 0]]
  /\ UNCHANGED <<walletDefault, deducted, checked, req, pvars>>

\* handleStartTransaction, once the connector and the user are found.
StartTransaction(s) ==
  /\ session[s] = NoSession
  /\ session' = [session EXCEPT ![s] = [origin |-> "charger", status |-> "ACTIVE", cost |-> 0]]
  /\ UNCHANGED <<walletDefault, deducted, checked, req, pvars>>

\* setWalletAsPaymentMethod, or a card exchanged to be the default instead.
SwitchDefault ==
  /\ walletDefault' = ~walletDefault
  /\ UNCHANGED <<session, deducted, checked, req, pvars>>

-----------------------------------------------------------------------------
(* startSession                                                            *)

\* Mutant: the status that the request read is not checked.
StartSessionUnchecked(r, s) ==
  /\ session[s] # NoSession
  /\ Accept(r, "start", s,
            IF session[s].status = "PENDING" THEN "authorize" ELSE "chooseStart", 0)
  /\ UNCHANGED <<session, walletDefault, deducted, checked, pvars>>

\* The request is refused on the spot unless the row may still become ACTIVE.
StartSession(r, s) ==
  /\ session[s].status \in {"PENDING", "AUTHORIZED"}
  /\ Accept(r, "start", s,
            IF session[s].status = "PENDING" THEN "authorize" ELSE "chooseStart", 0)
  /\ UNCHANGED <<session, walletDefault, deducted, checked, pvars>>

Authorize(r) ==
  /\ At(r, "start", "authorize")
  /\ SetStatus(req[r].session, "AUTHORIZED")
  /\ Goto(r, "chooseStart")
  /\ UNCHANGED <<walletDefault, deducted, checked, pvars>>

ChooseStart(r) ==
  /\ At(r, "start", "chooseStart")
  /\ Goto(r, IF walletDefault THEN "checkBalance" ELSE "preAuthorize")
  /\ UNCHANGED <<session, walletDefault, deducted, checked, pvars>>

\* checkSufficientBalance; a balance below the minimum is refused: Fail.
CheckBalance(r) ==
  /\ At(r, "start", "checkBalance")
  /\ checked' = checked \cup {req[r].session}
  /\ Goto(r, "activate")
  /\ UNCHANGED <<session, walletDefault, deducted, pvars>>

BeginPreAuthorize(r) ==
  /\ At(r, "start", "preAuthorize")
  /\ Payments!PreAuthorize(r, req[r].session)
  /\ Goto(r, "paying")
  /\ UNCHANGED <<session, walletDefault, deducted, checked>>

\* Mutant: startSession does not wait for its pre-authorization.
ActivateUnpaid(r) ==
  /\ At(r, "start", "activate") \/ At(r, "start", "paying")
  /\ SetStatus(req[r].session, "ACTIVE")
  /\ Finish(r)
  /\ UNCHANGED <<walletDefault, deducted, checked, pvars>>

\* The notification that follows changes nothing, whether it is sent or not.
Activate(r) ==
  /\ \/ At(r, "start", "activate")
     \/ At(r, "start", "paying") /\ call[r] = Payments!Returned
  /\ SetStatus(req[r].session, "ACTIVE")
  /\ Finish(r)
  /\ UNCHANGED <<walletDefault, deducted, checked, pvars>>

-----------------------------------------------------------------------------
(* stopSession                                                             *)

StopSession(r, s) ==
  /\ session[s].status = "ACTIVE"
  /\ Accept(r, "stop", s, "complete", 0)
  /\ UNCHANGED <<session, walletDefault, deducted, checked, pvars>>

\* The update returns the row: the cost the user will pay is read here.
Complete(r) ==
  LET s == req[r].session IN
  /\ At(r, "stop", "complete")
  /\ SetStatus(s, "COMPLETED")
  /\ req' = [req EXCEPT ![r].cost = session[s].cost, ![r].pc = "chooseStop"]
  /\ UNCHANGED <<walletDefault, deducted, checked, pvars>>

\* Mutant: the wallet payment is recorded, the wallet is not charged.
ChooseStopRecordOnly(r) ==
  /\ At(r, "stop", "chooseStop")
  /\ Goto(r, IF walletDefault THEN "record" ELSE "capture")
  /\ UNCHANGED <<session, walletDefault, deducted, checked, pvars>>

ChooseStop(r) ==
  /\ At(r, "stop", "chooseStop")
  /\ Goto(r, IF walletDefault THEN "deduct" ELSE "capture")
  /\ UNCHANGED <<session, walletDefault, deducted, checked, pvars>>

\* Mutant: a deduction of nothing is let through.
DeductNothing(r) ==
  /\ At(r, "stop", "deduct")
  /\ deducted' = [deducted EXCEPT ![req[r].session] = Append(@, req[r].cost)]
  /\ Goto(r, "record")
  /\ UNCHANGED <<session, walletDefault, checked, pvars>>

\* deductBalance; a zero amount or a poor wallet is refused: Fail.
Deduct(r) ==
  /\ At(r, "stop", "deduct")
  /\ req[r].cost > 0
  /\ deducted' = [deducted EXCEPT ![req[r].session] = Append(@, req[r].cost)]
  /\ Goto(r, "record")
  /\ UNCHANGED <<session, walletDefault, checked, pvars>>

(* createWalletPaymentRecord looks the wallet method up once more, and the  *)
(* row must be the session's first: either may fail after the deduction.    *)
RecordWalletPayment(r) ==
  LET s == req[r].session IN
  /\ At(r, "stop", "record")
  /\ walletDefault
  /\ payment[s] = Payments!NoPayment
  /\ payment' = [payment EXCEPT ![s] =
                   [status |-> "CAPTURED", gateway |-> "WALLET", authorized |-> req[r].cost,
                    captured |-> req[r].cost, txn |-> 0]]
  /\ Finish(r)
  /\ UNCHANGED <<session, walletDefault, deducted, checked, books, orphaned, overlapped, call>>

-----------------------------------------------------------------------------
(* handleStopTransaction                                                   *)

(* The session is found by its transaction id.  When it is COMPLETED        *)
(* already nothing more happens; otherwise the cost is computed from the    *)
(* meter values and the tariffs of this moment.                             *)
StopTransaction(r, s) ==
  /\ session[s].origin = "charger"
  /\ session[s].status # "COMPLETED"
  /\ \E cost \in Costs : Accept(r, "stopTransaction", s, "complete", cost)
  /\ UNCHANGED <<session, walletDefault, deducted, checked, pvars>>

CompleteTransaction(r) ==
  /\ At(r, "stopTransaction", "complete")
  /\ session' = [session EXCEPT ![req[r].session].status = "COMPLETED",
                                ![req[r].session].cost = req[r].cost]
  /\ Goto(r, "capture")
  /\ UNCHANGED <<walletDefault, deducted, checked, pvars>>

-----------------------------------------------------------------------------
(* The capture that ends both kinds of stop                                *)

BeginCapture(r) ==
  /\ req[r].pc = "capture"
  /\ Payments!Capture(r, req[r].session, req[r].cost)
  /\ Goto(r, "paying")
  /\ UNCHANGED <<session, walletDefault, deducted, checked>>

\* The stop is answered; a charger's is answered whatever the capture did.
StopPaid(r) ==
  /\ req[r].pc = "paying" /\ req[r].op # "start"
  /\ call[r] = Payments!Returned
  /\ Finish(r)
  /\ UNCHANGED <<session, walletDefault, deducted, checked, pvars>>

-----------------------------------------------------------------------------

PaymentStep(r) ==
  /\ Payments!PaymentStep(r)
  /\ UNCHANGED svars

(* Any await may throw, or the process may die; nothing is undone.  While a *)
(* payments call is running it is the call that fails; a call that threw    *)
(* then takes the request with it.                                          *)
Fail(r) ==
  /\ req[r] # Idle
  /\ IF Payments!InCall(r)
     THEN Payments!Fail(r) /\ UNCHANGED req
     ELSE Finish(r) /\ UNCHANGED pvars
  /\ UNCHANGED <<session, walletDefault, deducted, checked>>

Step(r) ==
  \/ Authorize(r) \/ ChooseStart(r) \/ CheckBalance(r) \/ BeginPreAuthorize(r) \/ Activate(r)
  \/ Complete(r) \/ ChooseStop(r) \/ Deduct(r) \/ RecordWalletPayment(r)
  \/ CompleteTransaction(r) \/ BeginCapture(r) \/ StopPaid(r)
  \/ PaymentStep(r)
  \/ Fail(r)

Next ==
  \/ SwitchDefault
  \/ \E s \in Sessions :
       \/ CreateSession(s)
       \/ StartTransaction(s)
       \/ \E r \in Requests : StartSession(r, s) \/ StopSession(r, s) \/ StopTransaction(r, s)
  \/ \E r \in Requests : Step(r)

Spec == Init /\ [][Next]_vars

-----------------------------------------------------------------------------
(* Properties                                                              *)

(* Nobody charges on credit: an ACTIVE session that came from the app has   *)
(* an authorized payment, or passed the wallet check, however its start     *)
(* requests overlapped with each other and with a stop.                     *)
ActiveIsBacked ==
  \A s \in Sessions : session[s].origin = "app" /\ session[s].status = "ACTIVE" =>
    payment[s].status = "AUTHORIZED" \/ s \in checked

(* A session that a charger started ends once and for all, although the app *)
(* and the charger may stop it at the same time: its status is written only *)
(* to COMPLETED, and its cost is never lost again.                          *)
ChargersEndForGood ==
  \A s \in Sessions : session[s].origin = "charger" =>
    /\ session'[s].origin = "charger"
    /\ session'[s].status \in {session[s].status, "COMPLETED"}
    /\ session'[s].cost # session[s].cost => session'[s].status = "COMPLETED"
ChargerNeverReopens == [][ChargersEndForGood]_vars

(* The wallet is charged for a session only once that session is over, and  *)
(* it stays over.                                                           *)
ChargedWhenCompleted ==
  \A s \in Sessions : deducted[s] # <<>> => session[s].status = "COMPLETED"

(* A payment recorded against the wallet was really deducted from it, and   *)
(* in that amount: the record never runs ahead of the money.                *)
WalletPaymentWasDeducted ==
  \A s \in Sessions : payment[s].gateway = "WALLET" =>
    \E i \in 1..Len(deducted[s]) : deducted[s][i] = payment[s].captured

(* Two starts of one session may both hold money on the card, but no hold   *)
(* is lost track of: it is on the payment row, in a running call, or was    *)
(* made by a call that failed afterwards (the second row is refused).       *)
HoldsTracked ==
  \A s \in Sessions : \A e \in Payments!Entries(s, {"HOLD"}) :
    \/ payment[s].txn = e
    \/ \E r \in Requests : Payments!InCall(r) /\ call[r].entry = e
    \/ e \in orphaned

(* The money of a session follows its life: deductions and their records,   *)
(* and the holds of its starts.                                             *)
MoneyIsTracked == ChargedWhenCompleted /\ WalletPaymentWasDeducted /\ HoldsTracked

\* The graph of SESSION_STATE_TRANSITIONS, over the rows' status columns.
Lifecycle == INSTANCE SessionLifecycle WITH status <- [s \in Sessions |-> session[s].status]

(* "Validates that one state transition is allowed by the lifecycle graph": *)
(* sessions move along the graph only.  The check is made on the row that   *)
(* the request read, so this holds when requests do not overlap.            *)
ImplementsLifecycle == Lifecycle!Spec

(* "Capture after session": once a stop's capture has returned without an   *)
(* error, the cost of the session has been captured.                        *)
StopCollectsCost ==
  \A r \in Requests :
    req[r].pc = "paying" /\ req[r].op # "start" /\ call[r] = Payments!Returned =>
      payment[req[r].session].captured = req[r].cost

=============================================================================
