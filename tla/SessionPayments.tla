-------------------------- MODULE SessionPayments --------------------------
(***************************************************************************)
(* payments.service.ts: the one payment row of a charging session and the  *)
(* calls that move it: pre-authorization, capture and refund.  Each call   *)
(* reads the row, talks to the gateway that the row (or the user's payment *)
(* method) names, and then writes the row by id, whatever happened to it   *)
(* in between.  The gateways' own books are kept as a log, because what    *)
(* the row claims and what the gateway did are two different things.       *)
(*                                                                         *)
(* Calls come from a pool of slots; who calls is left open here (any call, *)
(* at any time) and fixed in ChargingSession.                              *)
(***************************************************************************)
EXTENDS Integers, Sequences, FiniteSets

CONSTANTS
  Sessions,    \* charging sessions; payments.sessionId is unique
  Requests,    \* slots for calls that are in flight at the same time
  Amounts,     \* amounts a capture is asked for, in AMD
  HoldAmount,  \* ARCA_PREAUTH_AMOUNT_AMD, IDRAM_PREAUTH_AMOUNT_AMD
  MaxEntries   \* bound: gateway operations over a behaviour

ASSUME PaymentAmounts == Amounts \subseteq Nat /\ HoldAmount \in Nat \ {0}
ASSUME EntriesBound == MaxEntries \in Nat

VARIABLES
  payment,     \* payments, by session
  books,       \* what ArCa and Idram carried out, in order
  orphaned,    \* history: entries whose call died before the row was written
  overlapped,  \* history: sessions that had two calls in flight together
  call         \* call[r]: the payments call that slot r is in

pvars == <<payment, books, orphaned, overlapped, call>>

NoPayment == [status |-> "NONE", gateway |-> "NONE", authorized |-> 0, captured |-> 0, txn |-> 0]

\* gatewayTransactionId is the number of the entry that opened it; 0 is null.
PaymentRow == [status : {"AUTHORIZED", "CAPTURED", "REFUNDED"},
               gateway : {"ARCA", "IDRAM", "WALLET"},
               authorized : Nat, captured : Nat, txn : Nat]

Entry == [kind : {"HOLD", "CAPTURE", "DEBIT", "REFUND"}, session : Sessions,
          amount : Nat \ {0}, txn : Nat]

\* row: the payment as the call found it; entry: what the gateway did for it.
Frame == [op : {"preAuthorize", "capture", "refund"}, pc : {"gateway", "save"},
          session : Sessions, amount : Nat \ {0},
          row : PaymentRow \cup {NoPayment}, entry : Nat]

Returned == [pc |-> "returned"]
Threw == [pc |-> "threw"]

TypeOK ==
  /\ payment \in [Sessions -> PaymentRow \cup {NoPayment}]
  /\ books \in Seq(Entry)
  /\ orphaned \subseteq 1..Len(books)
  /\ overlapped \subseteq Sessions
  /\ call \in [Requests -> Frame \cup {Returned, Threw}]

Init ==
  /\ payment = [s \in Sessions |-> NoPayment]
  /\ books = <<>>
  /\ orphaned = {}
  /\ overlapped = {}
  /\ call = [r \in Requests |-> Returned]

-----------------------------------------------------------------------------
(* Steps shared by the three calls                                         *)

InCall(r) == call[r].pc \in {"gateway", "save"}

At(r, op, pc) == call[r].pc = pc /\ call[r].op = op

Open(r, op, s, amount, pc) ==
  /\ call' = [call EXCEPT ![r] = [op |-> op, pc |-> pc, session |-> s, amount |-> amount,
                                  row |-> payment[s], entry |-> 0]]
  /\ overlapped' = IF \E o \in Requests : InCall(o) /\ call[o].session = s
                   THEN overlapped \cup {s} ELSE overlapped

End(r, outcome) ==
  /\ call' = [call EXCEPT ![r] = outcome]
  /\ UNCHANGED overlapped

\* The gateway carries the operation out and answers with a transaction.
Execute(r, kind, txn) ==
  /\ Len(books) < MaxEntries
  /\ books' = Append(books, [kind |-> kind, session |-> call[r].session,
                             amount |-> call[r].amount, txn |-> txn])
  /\ call' = [call EXCEPT ![r].pc = "save", ![r].entry = Len(books) + 1]
  /\ UNCHANGED <<payment, orphaned, overlapped>>

\* payment.update, by id: the columns the call names, on the row as it is now.
Save(r, row) ==
  /\ payment' = [payment EXCEPT ![call[r].session] = row]
  /\ End(r, Returned)
  /\ UNCHANGED <<books, orphaned>>

(* The call throws or never returns: no usable payment method, a refusal,   *)
(* an unreachable gateway, a lost answer, a refused write, the death of the *)
(* process.  What the gateway already did stays done.                       *)
Fail(r) ==
  /\ InCall(r)
  /\ End(r, Threw)
  /\ orphaned' = orphaned \cup ({call[r].entry} \ {0})
  /\ UNCHANGED <<payment, books>>

-----------------------------------------------------------------------------
(* preAuthorizeArcaForSession                                              *)

\* Mutant: a payment that is already authorized is authorized again.
PreAuthorizeAgain(r, s) ==
  /\ ~InCall(r)
  /\ IF payment[s].status = "CAPTURED"
     THEN End(r, Returned)
     ELSE Open(r, "preAuthorize", s, HoldAmount, "gateway")
  /\ UNCHANGED <<payment, books, orphaned>>

PreAuthorize(r, s) ==
  /\ ~InCall(r)
  /\ IF payment[s].status \in {"AUTHORIZED", "CAPTURED"}
     THEN End(r, Returned)
     ELSE Open(r, "preAuthorize", s, HoldAmount, "gateway")
  /\ UNCHANGED <<payment, books, orphaned>>

\* A card (ArCa, Apple Pay, Google Pay): ArCa holds the amount.
ArcaPreAuthorize(r) ==
  /\ At(r, "preAuthorize", "gateway")
  /\ Execute(r, "HOLD", 0)

\* Idram: the balance is looked at, nothing is held.
IdramGetBalance(r) ==
  /\ At(r, "preAuthorize", "gateway")
  /\ call' = [call EXCEPT ![r].pc = "save"]
  /\ UNCHANGED <<payment, books, orphaned, overlapped>>

\* Mutant: the row keeps the transaction of its previous life.
SaveAuthorizationKeepsTxn(r) ==
  LET s == call[r].session IN
  /\ At(r, "preAuthorize", "save")
  /\ call[r].row = NoPayment => payment[s] = NoPayment
  /\ Save(r, [payment[s] EXCEPT !.status = "AUTHORIZED", !.authorized = call[r].amount,
                                !.gateway = IF call[r].entry = 0 THEN "IDRAM" ELSE "ARCA"])

(* The row is created when the call found none (a second creation breaks on *)
(* the unique index: Fail) and updated otherwise; capturedAmount is left as *)
(* it was.                                                                  *)
SaveAuthorization(r) ==
  LET s == call[r].session IN
  /\ At(r, "preAuthorize", "save")
  /\ call[r].row = NoPayment => payment[s] = NoPayment
  /\ Save(r, [payment[s] EXCEPT !.status = "AUTHORIZED", !.authorized = call[r].amount,
                                !.gateway = IF call[r].entry = 0 THEN "IDRAM" ELSE "ARCA",
                                !.txn = call[r].entry])

-----------------------------------------------------------------------------
(* captureAuthorizedPaymentForSession                                      *)

\* Mutant: a repeated capture is not recognised.
NothingToCaptureForgetful(s, amount) ==
  \/ amount = 0
  \/ payment[s].status \in {"NONE", "REFUNDED"}

NothingToCapture(s, amount) ==
  \/ amount = 0
  \/ payment[s].status \in {"NONE", "REFUNDED"}
  \/ payment[s].status = "CAPTURED" /\ payment[s].captured = amount

\* captureForGateway throws before it reaches a gateway.
CannotCapture(row) == row.gateway = "WALLET" \/ (row.gateway = "ARCA" /\ row.txn = 0)

Capture(r, s, amount) ==
  /\ ~InCall(r)
  /\ IF NothingToCapture(s, amount) THEN End(r, Returned)
     ELSE IF CannotCapture(payment[s]) THEN End(r, Threw)
     ELSE Open(r, "capture", s, amount, "gateway")
  /\ UNCHANGED <<payment, books, orphaned>>

ArcaCapture(r) ==
  /\ At(r, "capture", "gateway")
  /\ call[r].row.gateway = "ARCA"
  /\ Execute(r, "CAPTURE", call[r].row.txn)

IdramDebit(r) ==
  /\ At(r, "capture", "gateway")
  /\ call[r].row.gateway = "IDRAM"
  /\ Execute(r, "DEBIT", 0)

\* Mutant: the capture is written before the gateway has been asked.
SaveCaptureEarly(r) ==
  LET row == payment[call[r].session] IN
  /\ call[r].pc \in {"gateway", "save"} /\ call[r].op = "capture"
  /\ Save(r, [row EXCEPT !.status = "CAPTURED", !.captured = call[r].amount])

\* Only a debit has a transaction of its own to be stored.
SaveCapture(r) ==
  LET row == payment[call[r].session] IN
  /\ At(r, "capture", "save")
  /\ Save(r, [row EXCEPT !.status = "CAPTURED", !.captured = call[r].amount,
                         !.txn = IF books[call[r].entry].kind = "DEBIT"
                                 THEN call[r].entry ELSE @])

-----------------------------------------------------------------------------
(* refundPaymentForSessionFailure                                          *)

\* Mutant: only captured money is given back.
RefundAmountCaptured(row) == row.captured

\* resolveRefundAmount
RefundAmount(row) == IF row.captured > 0 THEN row.captured ELSE row.authorized

\* Mutant: no Idram payment is ever given back.
NothingToReturnIdram(row) == row.gateway = "IDRAM"

\* An Idram payment that was only authorized has nothing to give back.
NothingToReturn(row) ==
  row.gateway = "IDRAM" /\ row.txn = 0 /\ row.status = "AUTHORIZED"

Refund(r, s) ==
  /\ ~InCall(r)
  /\ IF payment[s].status \in {"NONE", "REFUNDED"} THEN End(r, Returned)
     ELSE IF NothingToReturn(payment[s])
     THEN Open(r, "refund", s, RefundAmount(payment[s]), "save")
     ELSE IF payment[s].gateway = "WALLET" \/ payment[s].txn = 0 THEN End(r, Threw)
     ELSE Open(r, "refund", s, RefundAmount(payment[s]), "gateway")
  /\ UNCHANGED <<payment, books, orphaned>>

GatewayRefund(r) ==
  /\ At(r, "refund", "gateway")
  /\ Execute(r, "REFUND", call[r].row.txn)

SaveRefund(r) ==
  /\ At(r, "refund", "save")
  /\ Save(r, [payment[call[r].session] EXCEPT !.status = "REFUNDED"])

-----------------------------------------------------------------------------

PaymentStep(r) ==
  \/ ArcaPreAuthorize(r) \/ IdramGetBalance(r) \/ SaveAuthorization(r)
  \/ ArcaCapture(r) \/ IdramDebit(r) \/ SaveCapture(r)
  \/ GatewayRefund(r) \/ SaveRefund(r)

Next ==
  \E r \in Requests :
    \/ \E s \in Sessions :
         \/ PreAuthorize(r, s)
         \/ \E amount \in Amounts : Capture(r, s, amount)
         \/ Refund(r, s)
    \/ PaymentStep(r)
    \/ Fail(r)

Spec == Init /\ [][Next]_pvars

-----------------------------------------------------------------------------
(* Properties                                                              *)

Entries(s, kinds) == {e \in 1..Len(books) : books[e].session = s /\ books[e].kind \in kinds}

\* Whether the gateway gave back what it did under transaction t.
GivenBack(t) == \E e \in 1..Len(books) : books[e].kind = "REFUND" /\ books[e].txn = t

(* A row that says AUTHORIZED is backed: by a hold of exactly that amount   *)
(* for that very session when a card was used, by no transaction at all     *)
(* when Idram was.  Captures and refunds that were overtaken by a new       *)
(* authorization do not break this.                                         *)
AuthorizedIsBacked ==
  \A s \in Sessions : payment[s].status = "AUTHORIZED" =>
    IF payment[s].gateway = "ARCA"
    THEN /\ payment[s].txn \in 1..Len(books)
         /\ books[payment[s].txn] = [kind |-> "HOLD", session |-> s,
                                     amount |-> payment[s].authorized, txn |-> 0]
    ELSE payment[s].txn = 0

(* The database never claims money that no gateway took: capturedAmount was *)
(* taken for that session, however calls overlapped, failed or were         *)
(* repeated.                                                                *)
CapturedWasTaken ==
  \A s \in Sessions : payment[s].gateway # "WALLET" /\ payment[s].captured > 0 =>
    \E e \in Entries(s, {"CAPTURE", "DEBIT"}) : books[e].amount = payment[s].captured

\* A row never claims more than a gateway did: neither a hold nor a capture.
RowsAreBacked == AuthorizedIsBacked /\ CapturedWasTaken

\* Every amount that was taken for a session is one and the same: its cost.
SameCost(s) ==
  \A d, e \in Entries(s, {"CAPTURE", "DEBIT"}) : books[d].amount = books[e].amount

(* Repeating the capture of a session's cost takes the money once, unless   *)
(* two calls overlapped, a refund came in between or a call died after the  *)
(* gateway had acted.  (A capture of another cost is a new payment to       *)
(* captureAuthorizedPaymentForSession, and takes that one too.)             *)
RetriesTakeOnce ==
  \A s \in Sessions \ overlapped : SameCost(s) =>
    Cardinality(Entries(s, {"CAPTURE", "DEBIT"}) \ orphaned)
      <= 1 + Cardinality(Entries(s, {"REFUND"}))

\* The transaction a refund names to have an entry's amount given back.
RefundKey(e) == IF books[e].kind = "DEBIT" THEN e ELSE books[e].txn

(* REFUNDED means that the gateway was asked to give back every amount it   *)
(* took for the session's cost, unless calls overlapped or died half way.   *)
(* (Of two costs debited by Idram the row would know the last one only.)    *)
RefundedIsSettled ==
  \A s \in Sessions \ overlapped : payment[s].status = "REFUNDED" /\ SameCost(s) =>
    \A e \in Entries(s, {"CAPTURE", "DEBIT"}) \ orphaned : GivenBack(RefundKey(e))

(* No hold on a card is lost: its transaction is on the row, still in a     *)
(* call, given back, or orphaned by a call that died.                       *)
HoldsAccounted ==
  \A s \in Sessions \ overlapped : \A e \in Entries(s, {"HOLD"}) :
    \/ payment[s].txn = e
    \/ \E r \in Requests : InCall(r) /\ call[r].entry = e
    \/ e \in orphaned
    \/ GivenBack(e)

(* Nor is money forgotten that a gateway has: what a refunded session paid  *)
(* was asked back, and every hold is on its way or on record.               *)
MoneyIsSettled == RefundedIsSettled /\ HoldsAccounted

=============================================================================
