----------------------- MODULE SessionPaymentsProofs -----------------------
(***************************************************************************)
(* Proofs about SessionPayments, for every set of sessions, slots and      *)
(* amounts and for books of any length.                                    *)
(***************************************************************************)
EXTENDS SessionPayments, FiniteSetTheorems, TLAPS

On(r, s) == InCall(r) /\ call[r].session = s

-----------------------------------------------------------------------------
(* What a call and a row know of the gateways' books                       *)

(* What is between a call's read of the row and its write: the entry it has *)
(* in the books is the operation it asked for, on the row it found.         *)
CallKnows(r) ==
  LET c == call[r]
      b == books[c.entry]
  IN
  InCall(r) =>
    /\ c.entry \in 0..Len(books)
    /\ c.pc = "gateway" => c.entry = 0
    /\ c.entry # 0 => b.session = c.session /\ b.amount = c.amount
    /\ c.op = "preAuthorize" =>
         /\ c.row.status \in {"NONE", "REFUNDED"}
         /\ c.entry # 0 => b.kind = "HOLD" /\ b.txn = 0
    /\ c.op = "capture" =>
         /\ c.row.status \in {"AUTHORIZED", "CAPTURED"}
         /\ c.row.status = "CAPTURED" => c.row.captured # c.amount
         /\ c.pc = "save" => c.entry # 0
         /\ c.entry # 0 =>
              \/ c.row.gateway = "IDRAM" /\ b.kind = "DEBIT"
              \/ c.row.gateway = "ARCA" /\ b.kind = "CAPTURE" /\ b.txn = c.row.txn
    /\ c.op = "refund" =>
         /\ c.row.status \in {"AUTHORIZED", "CAPTURED"}
         /\ c.pc = "save" /\ c.entry = 0 => NothingToReturn(c.row)
         /\ c.entry # 0 => b.kind = "REFUND" /\ b.txn = c.row.txn

(* A row that exists was authorized once, and only a debit of Idram has its *)
(* transaction on an Idram row.                                             *)
RowKnows(s) ==
  LET p == payment[s] IN
  p # NoPayment =>
    /\ p.gateway # "WALLET"
    /\ p.authorized > 0
    /\ p.txn \in 0..Len(books)
    /\ p.gateway = "IDRAM" /\ p.txn # 0 => books[p.txn].kind = "DEBIT"
    /\ p.status = "CAPTURED" => p.captured > 0

CallsInv ==
  /\ \A r \in Requests : CallKnows(r)
  /\ \A s \in Sessions : RowKnows(s)
  /\ \A r \in Requests : InCall(r) /\ call[r].op # "preAuthorize"
                           => payment[call[r].session] # NoPayment

-----------------------------------------------------------------------------
(* The kinds of step                                                       *)

\* A call that is answered at once.
Answers(r) ==
  /\ ~InCall(r)
  /\ \E outcome \in {Returned, Threw} : call' = [call EXCEPT ![r] = outcome]
  /\ UNCHANGED <<payment, books, orphaned, overlapped>>

\* A call that sets out with the row it found.
Opens(r) ==
  /\ ~InCall(r)
  /\ \E f \in Frame :
       /\ call' = [call EXCEPT ![r] = f]
       /\ f.row = payment[f.session] /\ f.entry = 0
       /\ overlapped' = IF \E o \in Requests : On(o, f.session)
                        THEN overlapped \cup {f.session} ELSE overlapped
       /\ \/ /\ f.op = "preAuthorize" /\ f.pc = "gateway"
             /\ f.row.status \in {"NONE", "REFUNDED"}
          \/ /\ f.op = "capture" /\ f.pc = "gateway"
             /\ f.row.status \in {"AUTHORIZED", "CAPTURED"}
             /\ f.row.status = "CAPTURED" => f.row.captured # f.amount
          \/ /\ f.op = "refund"
             /\ f.row.status \in {"AUTHORIZED", "CAPTURED"}
             /\ f.pc = "save" => NothingToReturn(f.row)
  /\ UNCHANGED <<payment, books, orphaned>>

\* A call whose operation the gateway carries out.
Executes(r) ==
  /\ InCall(r) /\ call[r].pc = "gateway"
  /\ \/ call[r].op = "preAuthorize" /\ Execute(r, "HOLD", 0)
     \/ /\ call[r].op = "capture" /\ call[r].row.gateway = "ARCA"
        /\ Execute(r, "CAPTURE", call[r].row.txn)
     \/ call[r].op = "capture" /\ call[r].row.gateway = "IDRAM" /\ Execute(r, "DEBIT", 0)
     \/ call[r].op = "refund" /\ Execute(r, "REFUND", call[r].row.txn)

\* A call that writes the row and returns.
Saves(r) ==
  /\ InCall(r) /\ call[r].pc = "save"
  /\ SaveAuthorization(r) \/ SaveCapture(r) \/ SaveRefund(r)

StepOf(r) ==
  Answers(r) \/ Opens(r) \/ IdramGetBalance(r) \/ Executes(r) \/ Saves(r) \/ Fail(r)

(* A slot that is in a call holds the frame of one.                         *)
LEMMA InCallFrame ==
  ASSUME TypeOK, NEW r \in Requests, InCall(r)
  PROVE  /\ call[r] \in Frame
         /\ call[r].session \in Sessions
         /\ call[r].amount \in Nat \ {0}
         /\ call[r].entry \in Nat
         /\ call[r].row \in PaymentRow \cup {NoPayment}
         /\ call[r].op \in {"preAuthorize", "capture", "refund"}
<1>1. call[r] \in Frame
  BY DEF TypeOK, InCall, Returned, Threw
<1> QED BY <1>1 DEF Frame

(* Only one slot moves in a step.                                           *)
LEMMA OneSlot ==
  ASSUME TypeOK, NEW r \in Requests, NEW f, call' = [call EXCEPT ![r] = f]
  PROVE  call'[r] = f /\ \A o \in Requests : o # r => call'[o] = call[o]
BY DEF TypeOK

\* A row is there, with the fields of one, or it is NoPayment.
LEMMA RowFields ==
  ASSUME TypeOK, NEW s \in Sessions
  PROVE  /\ payment[s] = NoPayment \/ payment[s] \in PaymentRow
         /\ payment[s].captured \in Nat /\ payment[s].authorized \in Nat
         /\ payment[s].txn \in Nat
         /\ payment[s].status \in {"NONE", "AUTHORIZED", "CAPTURED", "REFUNDED"}
         /\ payment[s].status = "NONE" <=> payment[s] = NoPayment
         /\ payment[s].gateway \in {"NONE", "ARCA", "IDRAM", "WALLET"}
         /\ payment[s] # NoPayment => payment[s].gateway # "NONE"
<1>1. payment[s] = NoPayment \/ payment[s] \in PaymentRow
  BY DEF TypeOK
<1>2. CASE payment[s] = NoPayment
  BY <1>2 DEF NoPayment
<1>3. CASE payment[s] \in PaymentRow
  BY <1>3 DEF PaymentRow, NoPayment
<1> QED BY <1>1, <1>2, <1>3

(* Every step of payments.service.ts is one of six kinds.                   *)
LEMMA StepKinds ==
  ASSUME TypeOK, CallsInv, NEW r \in Requests,
         \/ \E s \in Sessions :
              \/ PreAuthorize(r, s)
              \/ \E amount \in Amounts : Capture(r, s, amount)
              \/ Refund(r, s)
         \/ PaymentStep(r)
         \/ Fail(r)
  PROVE  StepOf(r)
<1>o. ASSUME NEW op \in {"preAuthorize", "capture", "refund"}, NEW s \in Sessions,
             NEW amount \in Nat \ {0}, NEW pc \in {"gateway", "save"},
             ~InCall(r), Open(r, op, s, amount, pc), UNCHANGED <<payment, books, orphaned>>,
             \/ op = "preAuthorize" /\ pc = "gateway" /\ payment[s].status \in {"NONE", "REFUNDED"}
             \/ /\ op = "capture" /\ pc = "gateway"
                /\ payment[s].status \in {"AUTHORIZED", "CAPTURED"}
                /\ payment[s].status = "CAPTURED" => payment[s].captured # amount
             \/ /\ op = "refund" /\ payment[s].status \in {"AUTHORIZED", "CAPTURED"}
                /\ pc = "save" => NothingToReturn(payment[s])
      PROVE  Opens(r)
  <2> DEFINE f == [op |-> op, pc |-> pc, session |-> s, amount |-> amount,
                   row |-> payment[s], entry |-> 0]
  <2>1. f \in Frame
    BY RowFields DEF Frame
  <2>2. call' = [call EXCEPT ![r] = f]
    BY <1>o DEF Open
  <2>3. overlapped' = IF \E o \in Requests : On(o, f.session)
                      THEN overlapped \cup {f.session} ELSE overlapped
    BY <1>o DEF Open, On
  <2> QED BY <1>o, <2>1, <2>2, <2>3 DEF Opens
<1>1. ASSUME NEW s \in Sessions, PreAuthorize(r, s) PROVE Answers(r) \/ Opens(r)
  <2>1. CASE payment[s].status \in {"AUTHORIZED", "CAPTURED"}
    BY <1>1, <2>1 DEF PreAuthorize, End, Answers
  <2>2. CASE payment[s].status \notin {"AUTHORIZED", "CAPTURED"}
    BY <1>1, <1>o, <2>2, RowFields, PaymentAmounts DEF PreAuthorize
  <2> QED BY <2>1, <2>2
<1>2. ASSUME NEW s \in Sessions, NEW amount \in Amounts, Capture(r, s, amount)
      PROVE  Answers(r) \/ Opens(r)
  <2>1. CASE NothingToCapture(s, amount) \/ CannotCapture(payment[s])
    BY <1>2, <2>1 DEF Capture, End, Answers
  <2>2. CASE ~NothingToCapture(s, amount) /\ ~CannotCapture(payment[s])
    <3>1. /\ amount \in Nat \ {0} /\ payment[s].status \in {"AUTHORIZED", "CAPTURED"}
          /\ payment[s].status = "CAPTURED" => payment[s].captured # amount
      BY <2>2, RowFields, PaymentAmounts DEF NothingToCapture
    <3> QED BY <1>2, <1>o, <2>2, <3>1 DEF Capture
  <2> QED BY <2>1, <2>2
<1>3. ASSUME NEW s \in Sessions, Refund(r, s) PROVE Answers(r) \/ Opens(r)
  <2> DEFINE opened == /\ payment[s].status \notin {"NONE", "REFUNDED"}
                       /\ \/ NothingToReturn(payment[s])
                          \/ ~(payment[s].gateway = "WALLET" \/ payment[s].txn = 0)
  <2>1. CASE ~opened
    BY <1>3, <2>1 DEF Refund, End, Answers
  <2>2. CASE opened
    <3>1. RefundAmount(payment[s]) \in Nat \ {0}
      BY <2>2, RowFields DEF RefundAmount, CallsInv, RowKnows
    <3>2. payment[s].status \in {"AUTHORIZED", "CAPTURED"}
      BY <2>2, RowFields
    <3> QED BY <1>3, <1>o, <2>2, <3>1, <3>2 DEF Refund
  <2> QED BY <2>1, <2>2
<1>4. ASSUME PaymentStep(r) PROVE IdramGetBalance(r) \/ Executes(r) \/ Saves(r)
  BY <1>4 DEF PaymentStep, ArcaPreAuthorize, ArcaCapture, IdramDebit, GatewayRefund,
              Executes, Saves, SaveAuthorization, SaveCapture, SaveRefund, At, InCall
<1> QED BY <1>1, <1>2, <1>3, <1>4 DEF StepOf

(* What the gateway's operation leaves behind: one more entry, for the very *)
(* session, amount and row of the call, and the call about to write.        *)
LEMMA ExecuteShape ==
  ASSUME TypeOK, NEW r \in Requests, Executes(r)
  PROVE  /\ books \in Seq(Entry) /\ Len(books) \in Nat
         /\ books' \in Seq(Entry) /\ Len(books') = Len(books) + 1
         /\ \A i \in 1..Len(books) : books'[i] = books[i]
         /\ books'[Len(books')].session = call[r].session
         /\ books'[Len(books')].amount = call[r].amount
         /\ \/ /\ call[r].op = "preAuthorize"
               /\ books'[Len(books')].kind = "HOLD" /\ books'[Len(books')].txn = 0
            \/ /\ call[r].op = "capture" /\ call[r].row.gateway = "ARCA"
               /\ books'[Len(books')].kind = "CAPTURE"
               /\ books'[Len(books')].txn = call[r].row.txn
            \/ /\ call[r].op = "capture" /\ call[r].row.gateway = "IDRAM"
               /\ books'[Len(books')].kind = "DEBIT"
            \/ /\ call[r].op = "refund" /\ books'[Len(books')].kind = "REFUND"
               /\ books'[Len(books')].txn = call[r].row.txn
         /\ call' \in [Requests -> Frame \cup {Returned, Threw}]
         /\ \A o \in Requests : o # r => call'[o] = call[o]
         /\ call'[r].pc = "save" /\ call'[r].entry = Len(books')
         /\ call'[r].op = call[r].op /\ call'[r].session = call[r].session
         /\ call'[r].amount = call[r].amount /\ call'[r].row = call[r].row
         /\ UNCHANGED <<payment, orphaned, overlapped>>
<1>1. /\ call[r] \in Frame /\ call[r].session \in Sessions
      /\ call[r].amount \in Nat \ {0} /\ call[r].row.txn \in Nat
  BY InCallFrame DEF Executes, PaymentRow, NoPayment
<1>2. PICK kind \in {"HOLD", "CAPTURE", "DEBIT", "REFUND"}, txn \in Nat :
        /\ Execute(r, kind, txn)
        /\ \/ call[r].op = "preAuthorize" /\ kind = "HOLD" /\ txn = 0
           \/ /\ call[r].op = "capture" /\ call[r].row.gateway = "ARCA"
              /\ kind = "CAPTURE" /\ txn = call[r].row.txn
           \/ call[r].op = "capture" /\ call[r].row.gateway = "IDRAM" /\ kind = "DEBIT"
           \/ call[r].op = "refund" /\ kind = "REFUND" /\ txn = call[r].row.txn
  BY <1>1 DEF Executes
<1> DEFINE e == [kind |-> kind, session |-> call[r].session,
                 amount |-> call[r].amount, txn |-> txn]
           f == [call[r] EXCEPT !.pc = "save", !.entry = Len(books) + 1]
<1>3. e \in Entry /\ books \in Seq(Entry) /\ Len(books) \in Nat
  BY <1>1 DEF Entry, TypeOK
<1>4. books' = Append(books, e) /\ UNCHANGED <<payment, orphaned, overlapped>>
  BY <1>2 DEF Execute
<1>5. call' = [call EXCEPT ![r] = f]
  BY <1>2 DEF Execute
<1>6. /\ f \in Frame /\ f.pc = "save" /\ f.entry = Len(books) + 1
      /\ f.op = call[r].op /\ f.session = call[r].session
      /\ f.amount = call[r].amount /\ f.row = call[r].row
  <2>1. Len(books) + 1 \in Nat
    BY <1>3
  <2> QED BY <1>1, <2>1 DEF Frame
<1>7. /\ e.session = call[r].session /\ e.amount = call[r].amount
      /\ e.kind = kind /\ e.txn = txn
  OBVIOUS
<1> HIDE DEF e, f
<1>8. /\ books' \in Seq(Entry) /\ Len(books') = Len(books) + 1
      /\ \A i \in 1..Len(books) : books'[i] = books[i]
      /\ books'[Len(books')] = e
  BY <1>3, <1>4
<1>9. /\ call' \in [Requests -> Frame \cup {Returned, Threw}]
      /\ call'[r] = f /\ \A o \in Requests : o # r => call'[o] = call[o]
  BY <1>5, <1>6 DEF TypeOK
<1> QED BY <1>2, <1>3, <1>4, <1>6, <1>7, <1>8, <1>9

(* What a write by id leaves behind: the row as the call means it, and the  *)
(* call's slot free.                                                        *)
LEMMA SaveShape ==
  ASSUME TypeOK, CallsInv, NEW r \in Requests, Saves(r)
  PROVE  LET s == call[r].session IN
         /\ UNCHANGED <<books, orphaned, overlapped>>
         /\ call' = [call EXCEPT ![r] = Returned]
         /\ \A t \in Sessions : t # s => payment'[t] = payment[t]
         /\ payment' \in [Sessions -> PaymentRow \cup {NoPayment}]
         /\ payment'[s] \in PaymentRow
         /\ \/ /\ call[r].op = "preAuthorize"
               /\ payment'[s].status = "AUTHORIZED"
               /\ payment'[s].authorized = call[r].amount
               /\ payment'[s].captured = payment[s].captured
               /\ payment'[s].txn = call[r].entry
               /\ payment'[s].gateway = IF call[r].entry = 0 THEN "IDRAM" ELSE "ARCA"
            \/ /\ call[r].op = "capture"
               /\ payment'[s].status = "CAPTURED"
               /\ payment'[s].captured = call[r].amount
               /\ payment'[s].authorized = payment[s].authorized
               /\ payment'[s].gateway = payment[s].gateway
               /\ payment'[s].txn = IF books[call[r].entry].kind = "DEBIT"
                                    THEN call[r].entry ELSE payment[s].txn
            \/ /\ call[r].op = "refund"
               /\ payment'[s].status = "REFUNDED"
               /\ payment'[s].captured = payment[s].captured
               /\ payment'[s].authorized = payment[s].authorized
               /\ payment'[s].gateway = payment[s].gateway
               /\ payment'[s].txn = payment[s].txn
<1> DEFINE s == call[r].session
<1>1. /\ call[r] \in Frame /\ s \in Sessions /\ InCall(r)
      /\ call[r].amount \in Nat \ {0} /\ call[r].entry \in Nat
  BY InCallFrame DEF Saves
<1>2. payment \in [Sessions -> PaymentRow \cup {NoPayment}]
  BY DEF TypeOK
<1>3. call[r].op # "preAuthorize" => payment[s] \in PaymentRow
  BY <1>1, <1>2 DEF CallsInv
<1>k. ASSUME NEW row \in PaymentRow, Save(r, row)
      PROVE  /\ UNCHANGED <<books, orphaned, overlapped>>
             /\ call' = [call EXCEPT ![r] = Returned]
             /\ \A t \in Sessions : t # s => payment'[t] = payment[t]
             /\ payment' \in [Sessions -> PaymentRow \cup {NoPayment}]
             /\ payment'[s] = row
  BY <1>1, <1>2, <1>k DEF Save, End
<1>4. CASE SaveAuthorization(r)
  <2> DEFINE gateway == IF call[r].entry = 0 THEN "IDRAM" ELSE "ARCA"
             row == [payment[s] EXCEPT !.status = "AUTHORIZED", !.authorized = call[r].amount,
                        !.gateway = gateway, !.txn = call[r].entry]
  <2>1. Save(r, row) /\ call[r].op = "preAuthorize"
    BY <1>4 DEF SaveAuthorization, At
  <2>2. /\ gateway = IF call[r].entry = 0 THEN "IDRAM" ELSE "ARCA"
        /\ gateway \in {"ARCA", "IDRAM"}
    OBVIOUS
  <2> HIDE DEF gateway
  <2>3. /\ row \in PaymentRow /\ row.status = "AUTHORIZED" /\ row.txn = call[r].entry
        /\ row.authorized = call[r].amount /\ row.captured = payment[s].captured
        /\ row.gateway = gateway
    <3> DEFINE Rows == [status : {"NONE", "AUTHORIZED", "CAPTURED", "REFUNDED"},
                        gateway : {"NONE", "ARCA", "IDRAM", "WALLET"},
                        authorized : Nat, captured : Nat, txn : Nat]
    <3>1. NoPayment \in Rows /\ PaymentRow \subseteq Rows
      BY DEF NoPayment, PaymentRow
    <3>2. payment[s] \in Rows
      BY <1>1, <1>2, <3>1
    <3> QED BY <1>1, <2>2, <3>2 DEF PaymentRow
  <2> HIDE DEF row
  <2> QED BY <1>k, <2>1, <2>2, <2>3
<1>5. CASE SaveCapture(r)
  <2> DEFINE row == [payment[s] EXCEPT !.status = "CAPTURED", !.captured = call[r].amount,
                        !.txn = IF books[call[r].entry].kind = "DEBIT"
                                THEN call[r].entry ELSE @]
  <2>1. Save(r, row) /\ call[r].op = "capture"
    BY <1>5 DEF SaveCapture, At
  <2>2. /\ row \in PaymentRow /\ row.status = "CAPTURED" /\ row.captured = call[r].amount
        /\ row.authorized = payment[s].authorized /\ row.gateway = payment[s].gateway
        /\ row.txn = IF books[call[r].entry].kind = "DEBIT"
                     THEN call[r].entry ELSE payment[s].txn
    BY <1>1, <1>3, <2>1 DEF PaymentRow
  <2> HIDE DEF row
  <2> QED BY <1>k, <2>1, <2>2
<1>6. CASE SaveRefund(r)
  <2> DEFINE row == [payment[s] EXCEPT !.status = "REFUNDED"]
  <2>1. Save(r, row) /\ call[r].op = "refund"
    BY <1>6 DEF SaveRefund, At
  <2>2. /\ row \in PaymentRow /\ row.status = "REFUNDED" /\ row.captured = payment[s].captured
        /\ row.authorized = payment[s].authorized /\ row.gateway = payment[s].gateway
        /\ row.txn = payment[s].txn
    BY <1>1, <1>3, <2>1 DEF PaymentRow
  <2> QED BY <1>k, <2>1, <2>2
<1> QED BY <1>4, <1>5, <1>6 DEF Saves

-----------------------------------------------------------------------------
(* The types, and what calls and rows know                                 *)

\* The books only ever grow.
BooksGrow ==
  /\ Len(books) \in Nat /\ Len(books') \in Nat /\ Len(books) <= Len(books')
  /\ \A i \in 1..Len(books) : books'[i] = books[i]

LEMMA KnowsKept ==
  ASSUME NEW r \in Requests, CallKnows(r), call'[r] = call[r], BooksGrow
  PROVE  CallKnows(r)'
<1>1. InCall(r) => call[r].entry = 0 \/ call[r].entry \in 1..Len(books)
  BY DEF CallKnows, BooksGrow
<1>2. InCall(r)' <=> InCall(r)
  BY DEF InCall
<1>3. InCall(r) => call[r].entry \in 0..Len(books')
  BY DEF CallKnows, BooksGrow
<1> QED BY <1>1, <1>2, <1>3 DEF CallKnows, BooksGrow

LEMMA RowKept ==
  ASSUME NEW s \in Sessions, RowKnows(s), payment'[s] = payment[s], BooksGrow
  PROVE  RowKnows(s)'
<1>1. payment[s] # NoPayment => payment[s].txn = 0 \/ payment[s].txn \in 1..Len(books)
  BY DEF RowKnows, BooksGrow
<1> QED BY <1>1 DEF RowKnows, BooksGrow

LEMMA InitCalls == Init => TypeOK /\ CallsInv
<1> SUFFICES ASSUME Init PROVE TypeOK /\ CallsInv
  OBVIOUS
<1>1. /\ books \in Seq(Entry) /\ orphaned = {} /\ overlapped = {}
      /\ \A s \in Sessions : payment[s] = NoPayment
      /\ \A r \in Requests : ~InCall(r)
  BY DEF Init, InCall, Returned
<1>2. TypeOK
  BY <1>1 DEF Init, TypeOK
<1> QED BY <1>1, <1>2 DEF CallsInv, CallKnows, RowKnows

(* A slot that changes while rows and books stay.                           *)
LEMMA SlotCalls ==
  ASSUME TypeOK, CallsInv, NEW r \in Requests, NEW f \in Frame \cup {Returned, Threw},
         call' = [call EXCEPT ![r] = f], UNCHANGED <<payment, books>>,
         orphaned' \subseteq 1..Len(books), overlapped' \subseteq Sessions,
         CallKnows(r)',
         InCall(r)' /\ f.op # "preAuthorize" => payment[f.session] # NoPayment
  PROVE  TypeOK' /\ CallsInv'
<1>1. call'[r] = f /\ \A o \in Requests : o # r => call'[o] = call[o]
  BY OneSlot
<1>2. BooksGrow
  BY DEF BooksGrow, TypeOK
<1>3. \A o \in Requests : CallKnows(o)'
  BY <1>1, <1>2, KnowsKept DEF CallsInv
<1>4. \A s \in Sessions : RowKnows(s)'
  BY <1>2, RowKept DEF CallsInv
<1>5. ASSUME NEW o \in Requests, InCall(o)', call'[o].op # "preAuthorize"
      PROVE  payment'[call'[o].session] # NoPayment
  BY <1>1, <1>5 DEF CallsInv, InCall
<1>6. TypeOK'
  BY DEF TypeOK
<1>7. CallsInv'
  BY <1>3, <1>4, <1>5 DEF CallsInv
<1> QED BY <1>6, <1>7

LEMMA NextCalls == TypeOK /\ CallsInv /\ [Next]_pvars => TypeOK' /\ CallsInv'
<1> SUFFICES ASSUME TypeOK, CallsInv, [Next]_pvars PROVE TypeOK' /\ CallsInv'
  OBVIOUS
<1>t. /\ orphaned \subseteq 1..Len(books) /\ overlapped \subseteq Sessions
      /\ books \in Seq(Entry) /\ Len(books) \in Nat
      /\ call \in [Requests -> Frame \cup {Returned, Threw}]
      /\ payment \in [Sessions -> PaymentRow \cup {NoPayment}]
  BY DEF TypeOK
<1>1. ASSUME NEW r \in Requests, Answers(r) PROVE TypeOK' /\ CallsInv'
  <2>1. PICK outcome \in {Returned, Threw} : call' = [call EXCEPT ![r] = outcome]
    BY <1>1 DEF Answers
  <2>2. ~InCall(r)'
    BY <1>t, <2>1 DEF InCall, Returned, Threw
  <2>3. CallKnows(r)'
    BY <2>2 DEF CallKnows
  <2> QED BY <1>1, <1>t, <2>1, <2>2, <2>3, SlotCalls DEF Answers
<1>2. ASSUME NEW r \in Requests, Opens(r) PROVE TypeOK' /\ CallsInv'
  <2>1. PICK f \in Frame :
          /\ call' = [call EXCEPT ![r] = f]
          /\ f.row = payment[f.session] /\ f.entry = 0
          /\ overlapped' = IF \E o \in Requests : On(o, f.session)
                           THEN overlapped \cup {f.session} ELSE overlapped
          /\ \/ /\ f.op = "preAuthorize" /\ f.pc = "gateway"
                /\ f.row.status \in {"NONE", "REFUNDED"}
             \/ /\ f.op = "capture" /\ f.pc = "gateway"
                /\ f.row.status \in {"AUTHORIZED", "CAPTURED"}
                /\ f.row.status = "CAPTURED" => f.row.captured # f.amount
             \/ /\ f.op = "refund"
                /\ f.row.status \in {"AUTHORIZED", "CAPTURED"}
                /\ f.pc = "save" => NothingToReturn(f.row)
    BY <1>2 DEF Opens
  <2>2. f.session \in Sessions
    BY DEF Frame
  <2>3. call'[r] = f /\ UNCHANGED <<payment, books, orphaned>>
    BY <1>2, <1>t, <2>1 DEF Opens
  <2>4. CallKnows(r)'
    BY <1>t, <2>1, <2>3 DEF CallKnows
  <2>5. f.op # "preAuthorize" => payment[f.session] # NoPayment
    BY <2>1, <2>2, RowFields
  <2>6. overlapped' \subseteq Sessions
    BY <1>t, <2>1, <2>2
  <2> QED BY <1>t, <2>1, <2>3, <2>4, <2>5, <2>6, SlotCalls
<1>3. ASSUME NEW r \in Requests, IdramGetBalance(r) PROVE TypeOK' /\ CallsInv'
  <2>1. InCall(r) /\ call[r].op = "preAuthorize" /\ call[r].pc = "gateway"
    BY <1>3 DEF IdramGetBalance, At, InCall
  <2>2. call[r] \in Frame
    BY <2>1, InCallFrame
  <2> DEFINE f == [call[r] EXCEPT !.pc = "save"]
  <2>3. /\ f \in Frame /\ f.op = call[r].op /\ f.entry = call[r].entry
        /\ f.row = call[r].row /\ f.session = call[r].session
    BY <2>2 DEF Frame
  <2>4. call' = [call EXCEPT ![r] = f] /\ UNCHANGED <<payment, books, orphaned, overlapped>>
    BY <1>3 DEF IdramGetBalance
  <2> HIDE DEF f
  <2>5. call'[r] = f
    BY <1>t, <2>4
  <2>6. CallKnows(r)'
    <3>1. call[r].entry = 0 /\ call[r].row.status \in {"NONE", "REFUNDED"}
      BY <2>1 DEF CallsInv, CallKnows
    <3> QED BY <1>t, <2>1, <2>3, <2>4, <2>5, <3>1 DEF CallKnows
  <2> QED BY <1>t, <2>1, <2>3, <2>4, <2>6, SlotCalls
<1>4. ASSUME NEW r \in Requests, Executes(r) PROVE TypeOK' /\ CallsInv'
  <2> USE <1>4
  <2>1. InCall(r)
    BY DEF Executes
  <2>2. BooksGrow
    BY <1>t, ExecuteShape DEF BooksGrow
  <2>3. CallKnows(r)'
    <3>1. CallKnows(r)
      BY DEF CallsInv
    <3>2. call'[r].entry \in 0..Len(books') /\ Len(books') # 0
      BY ExecuteShape
    <3> HIDE <1>4
    <3>3. /\ books'[Len(books')].session = call'[r].session
          /\ books'[Len(books')].amount = call'[r].amount
          /\ call'[r].entry = Len(books') /\ call'[r].pc = "save"
          /\ call'[r].op = call[r].op /\ call'[r].row = call[r].row
          /\ call'[r].amount = call[r].amount
      BY <1>4, ExecuteShape
    <3>4. \/ /\ call[r].op = "preAuthorize"
             /\ books'[Len(books')].kind = "HOLD" /\ books'[Len(books')].txn = 0
          \/ /\ call[r].op = "capture" /\ call[r].row.gateway = "ARCA"
             /\ books'[Len(books')].kind = "CAPTURE"
             /\ books'[Len(books')].txn = call[r].row.txn
          \/ /\ call[r].op = "capture" /\ call[r].row.gateway = "IDRAM"
             /\ books'[Len(books')].kind = "DEBIT"
          \/ /\ call[r].op = "refund" /\ books'[Len(books')].kind = "REFUND"
             /\ books'[Len(books')].txn = call[r].row.txn
      BY <1>4, ExecuteShape
    <3> QED BY <2>1, <3>1, <3>2, <3>3, <3>4 DEF CallKnows
  <2>4. \A o \in Requests : CallKnows(o)'
    BY <2>2, <2>3, ExecuteShape, KnowsKept DEF CallsInv
  <2>5. \A s \in Sessions : RowKnows(s)'
    BY <2>2, ExecuteShape, RowKept DEF CallsInv
  <2>6. ASSUME NEW o \in Requests, InCall(o)', call'[o].op # "preAuthorize"
        PROVE  payment'[call'[o].session] # NoPayment
    BY <2>1, <2>6, ExecuteShape DEF CallsInv, InCall
  <2>7. TypeOK'
    <3>1. 1..Len(books) \subseteq 1..Len(books')
      BY <2>2 DEF BooksGrow
    <3>2. orphaned' \subseteq 1..Len(books')
      BY <1>t, <3>1, ExecuteShape
    <3> QED BY <1>t, <3>2, ExecuteShape DEF TypeOK
  <2> QED BY <2>4, <2>5, <2>6, <2>7 DEF CallsInv
<1>5. ASSUME NEW r \in Requests, Saves(r) PROVE TypeOK' /\ CallsInv'
  <2> PICK s \in Sessions : s = call[r].session
    BY <1>5, InCallFrame DEF Saves
  <2>1. InCall(r) /\ call[r].amount \in Nat \ {0}
    BY <1>5, InCallFrame DEF Saves
  <2>2. CallKnows(r) /\ RowKnows(s)
    BY <2>1 DEF CallsInv
  <2>3. /\ UNCHANGED <<books, orphaned, overlapped>>
        /\ call'[r] = Returned /\ \A o \in Requests : o # r => call'[o] = call[o]
        /\ \A t \in Sessions : t # s => payment'[t] = payment[t]
        /\ payment'[s] \in PaymentRow /\ payment'[s] # NoPayment
    BY <1>5, SaveShape, OneSlot DEF PaymentRow, NoPayment
  <2>4. BooksGrow
    BY <1>t, <2>3 DEF BooksGrow
  <2>5. \A o \in Requests : CallKnows(o)'
    <3>1. CallKnows(r)'
      BY <2>3 DEF CallKnows, InCall, Returned
    <3> QED BY <2>3, <2>4, <3>1, KnowsKept DEF CallsInv
  <2>6. RowKnows(s)'
    <3>1. CASE call[r].op = "preAuthorize"
      <4>1. /\ payment'[s].authorized = call[r].amount
            /\ payment'[s].txn = call[r].entry
            /\ payment'[s].gateway = IF call[r].entry = 0 THEN "IDRAM" ELSE "ARCA"
        BY <1>5, <3>1, SaveShape
      <4>2. call[r].entry \in 0..Len(books) /\ books' = books
        BY <2>1, <2>2, <2>3 DEF CallKnows
      <4>3. payment'[s].status # "CAPTURED"
        BY <1>5, <3>1, SaveShape
      <4> QED BY <2>1, <4>1, <4>2, <4>3 DEF RowKnows
    <3>2. CASE call[r].op # "preAuthorize"
      <4>1. payment[s] # NoPayment
        BY <2>1, <3>2 DEF CallsInv
      <4>2. /\ payment'[s].gateway = payment[s].gateway
            /\ payment'[s].authorized = payment[s].authorized
            /\ \/ payment'[s].txn = payment[s].txn
               \/ payment'[s].txn = call[r].entry /\ books[call[r].entry].kind = "DEBIT"
        BY <1>5, <3>2, SaveShape
      <4>3. call[r].entry \in 0..Len(books) /\ books' = books
        BY <2>1, <2>2, <2>3 DEF CallKnows
      <4>4. /\ payment[s].gateway # "WALLET" /\ payment[s].authorized > 0
            /\ payment[s].txn \in 0..Len(books)
            /\ payment[s].gateway = "IDRAM" /\ payment[s].txn # 0
                 => books[payment[s].txn].kind = "DEBIT"
        BY <2>2, <4>1 DEF RowKnows
      <4>5. payment'[s].status = "CAPTURED" => payment'[s].captured > 0
        BY <1>5, <2>1, <3>2, SaveShape
      <4> QED BY <4>2, <4>3, <4>4, <4>5 DEF RowKnows
    <3> QED BY <3>1, <3>2
  <2>7. ASSUME NEW t \in Sessions PROVE RowKnows(t)'
    <3>1. CASE t = s
      BY <2>6, <3>1
    <3>2. CASE t # s
      BY <2>3, <2>4, <3>2, RowKept DEF CallsInv
    <3> QED BY <3>1, <3>2
  <2>8. ASSUME NEW o \in Requests, InCall(o)', call'[o].op # "preAuthorize"
        PROVE  payment'[call'[o].session] # NoPayment
    <3>1. o # r
      BY <2>3, <2>8 DEF InCall, Returned
    <3>2. InCall(o) /\ payment[call[o].session] # NoPayment /\ call'[o] = call[o]
      BY <2>3, <2>8, <3>1 DEF CallsInv, InCall
    <3>3. call[o].session \in Sessions
      BY <3>2, InCallFrame
    <3> QED BY <2>3, <3>2, <3>3
  <2>9. TypeOK'
    <3>1. payment' \in [Sessions -> PaymentRow \cup {NoPayment}]
      BY <1>5, SaveShape
    <3>2. call' \in [Requests -> Frame \cup {Returned, Threw}]
      BY <1>5, <1>t, SaveShape
    <3> QED BY <1>t, <2>3, <3>1, <3>2 DEF TypeOK
  <2> QED BY <2>5, <2>7, <2>8, <2>9 DEF CallsInv
<1>6. ASSUME NEW r \in Requests, Fail(r) PROVE TypeOK' /\ CallsInv'
  <2>1. CallKnows(r) /\ InCall(r)
    BY <1>6 DEF CallsInv, Fail
  <2>2. orphaned' \subseteq 1..Len(books)
    <3>1. call[r].entry = 0 \/ call[r].entry \in 1..Len(books)
      BY <1>t, <2>1 DEF CallKnows
    <3> QED BY <1>6, <1>t, <3>1 DEF Fail
  <2>3. /\ call' = [call EXCEPT ![r] = Threw] /\ call'[r] = Threw
        /\ UNCHANGED <<payment, books, overlapped>>
    BY <1>6, <1>t DEF Fail, End
  <2>4. ~InCall(r)'
    BY <2>3 DEF InCall, Threw
  <2>5. CallKnows(r)'
    BY <2>4 DEF CallKnows
  <2> QED BY <1>t, <2>2, <2>3, <2>4, <2>5, SlotCalls
<1>7. CASE UNCHANGED pvars
  <2>1. TypeOK'
    BY <1>7 DEF pvars, TypeOK
  <2>2. CallsInv'
    BY <1>7 DEF pvars, CallsInv, CallKnows, RowKnows, InCall
  <2> QED BY <2>1, <2>2
<1> QED BY <1>1, <1>2, <1>3, <1>4, <1>5, <1>6, <1>7, StepKinds DEF Next, StepOf

(* However the calls of payments.service.ts overlap and die, rows, entries  *)
(* and the frames of running calls are what their types say: no amount of   *)
(* nothing is refunded and no payment is written that was never authorized. *)
THEOREM TypeCorrect == Spec => []TypeOK
  BY InitCalls, NextCalls, PTL DEF Spec

-----------------------------------------------------------------------------
(* What a row claims, a gateway did                                        *)

RowBacked(s) ==
  /\ payment[s].status = "AUTHORIZED" =>
       IF payment[s].gateway = "ARCA"
       THEN /\ payment[s].txn \in 1..Len(books)
            /\ books[payment[s].txn] = [kind |-> "HOLD", session |-> s,
                                        amount |-> payment[s].authorized, txn |-> 0]
       ELSE payment[s].txn = 0
  /\ payment[s].gateway # "WALLET" /\ payment[s].captured > 0 =>
       \E e \in Entries(s, {"CAPTURE", "DEBIT"}) : books[e].amount = payment[s].captured

LEMMA BackedByRow == RowsAreBacked <=> \A s \in Sessions : RowBacked(s)
BY DEF RowsAreBacked, AuthorizedIsBacked, CapturedWasTaken, RowBacked

\* Entries are never struck out of the books.
LEMMA EntriesStay ==
  ASSUME BooksGrow, NEW s \in Sessions, NEW kinds, NEW e \in Entries(s, kinds)
  PROVE  e \in Entries(s, kinds)' /\ books'[e] = books[e]
BY DEF BooksGrow, Entries

LEMMA BackedKept ==
  ASSUME NEW s \in Sessions, RowBacked(s), payment'[s] = payment[s], BooksGrow
  PROVE  RowBacked(s)'
<1>1. payment[s].txn \in 1..Len(books)
        => /\ payment[s].txn \in 1..Len(books')
           /\ books'[payment[s].txn] = books[payment[s].txn]
  BY DEF BooksGrow
<1>2. ASSUME NEW e \in Entries(s, {"CAPTURE", "DEBIT"})
      PROVE  e \in Entries(s, {"CAPTURE", "DEBIT"})' /\ books'[e] = books[e]
  BY EntriesStay
<1> QED BY <1>1, <1>2 DEF RowBacked

(* Every step but a write leaves every row, and only the gateway's own      *)
(* steps touch the books.                                                   *)
LEMMA BooksOnlyGrow ==
  ASSUME TypeOK, CallsInv, NEW r \in Requests,
         StepOf(r)
  PROVE  /\ BooksGrow
         /\ ~Executes(r) => UNCHANGED books
         /\ ~Saves(r) => UNCHANGED payment
<1>t. books \in Seq(Entry) /\ Len(books) \in Nat
  BY DEF TypeOK
<1>1. CASE Executes(r)
  BY <1>t, <1>1, ExecuteShape DEF BooksGrow
<1>2. CASE Saves(r)
  <2>1. UNCHANGED books
    BY <1>2, SaveShape
  <2> QED BY <1>t, <1>2, <2>1 DEF BooksGrow
<1>3. CASE Answers(r) \/ Opens(r) \/ IdramGetBalance(r) \/ Fail(r)
  <2>1. UNCHANGED <<books, payment>>
    BY <1>3 DEF Answers, Opens, IdramGetBalance, Fail
  <2> QED BY <1>t, <2>1 DEF BooksGrow
<1> QED BY <1>1, <1>2, <1>3 DEF StepOf

(* A write leaves a row that is backed.                                     *)
LEMMA SaveBacked ==
  ASSUME TypeOK, CallsInv, RowsAreBacked, NEW r \in Requests, Saves(r),
         NEW s \in Sessions, s = call[r].session
  PROVE  RowBacked(s)'
<1>1. /\ InCall(r) /\ call[r].pc = "save" /\ call[r].amount \in Nat \ {0}
      /\ books' = books /\ books \in Seq(Entry) /\ Len(books) \in Nat
      /\ CallKnows(r) /\ RowBacked(s) /\ RowKnows(s)
  BY SaveShape, InCallFrame, BackedByRow DEF Saves, TypeOK, CallsInv
<1>2. call[r].entry # 0 => call[r].entry \in 1..Len(books) /\ books[call[r].entry] \in Entry
  BY <1>1 DEF CallKnows
<1>3. \A kinds : Entries(s, kinds)' = Entries(s, kinds)
  BY <1>1 DEF Entries
<1>4. CASE call[r].op = "preAuthorize"
  <2>1. /\ payment'[s].status = "AUTHORIZED" /\ payment'[s].authorized = call[r].amount
        /\ payment'[s].captured = payment[s].captured /\ payment'[s].txn = call[r].entry
        /\ payment'[s].gateway = IF call[r].entry = 0 THEN "IDRAM" ELSE "ARCA"
    BY <1>4, SaveShape
  <2>2. CASE call[r].entry = 0
    <3>1. payment[s].gateway # "WALLET"
      BY <1>1 DEF RowKnows, NoPayment
    <3> QED BY <1>1, <1>3, <2>1, <2>2, <3>1 DEF RowBacked
  <2>3. CASE call[r].entry # 0
    <3>1. books[call[r].entry] = [kind |-> "HOLD", session |-> s,
                                  amount |-> call[r].amount, txn |-> 0]
      BY <1>1, <1>2, <1>4, <2>3 DEF CallKnows, Entry
    <3>2. payment[s].gateway # "WALLET"
      BY <1>1 DEF RowKnows, NoPayment
    <3> QED BY <1>1, <1>2, <1>3, <2>1, <2>3, <3>1, <3>2 DEF RowBacked
  <2> QED BY <2>2, <2>3
<1>5. CASE call[r].op = "capture"
  <2>1. payment'[s].status = "CAPTURED" /\ payment'[s].captured = call[r].amount
    BY <1>5, SaveShape
  <2>2. /\ call[r].entry \in Entries(s, {"CAPTURE", "DEBIT"})
        /\ books[call[r].entry].amount = call[r].amount
    BY <1>1, <1>2, <1>5 DEF CallKnows, Entries
  <2> QED BY <1>1, <1>3, <2>1, <2>2 DEF RowBacked
<1>6. CASE call[r].op = "refund"
  <2>1. /\ payment'[s].status = "REFUNDED" /\ payment'[s].captured = payment[s].captured
        /\ payment'[s].gateway = payment[s].gateway
    BY <1>6, SaveShape
  <2> QED BY <1>1, <1>3, <2>1 DEF RowBacked
<1> QED BY <1>1, <1>4, <1>5, <1>6, InCallFrame

LEMMA NextBacked ==
  TypeOK /\ CallsInv /\ RowsAreBacked /\ [Next]_pvars => RowsAreBacked'
<1> SUFFICES ASSUME TypeOK, CallsInv, RowsAreBacked, [Next]_pvars, NEW s \in Sessions
             PROVE  RowBacked(s)'
  BY DEF RowsAreBacked, AuthorizedIsBacked, CapturedWasTaken, RowBacked
<1>1. RowBacked(s)
  BY BackedByRow
<1>2. ASSUME NEW r \in Requests,
             StepOf(r)
      PROVE  RowBacked(s)'
  <2>1. CASE Saves(r) /\ s = call[r].session
    BY <2>1, SaveBacked
  <2>2. CASE ~(Saves(r) /\ s = call[r].session)
    <3>1. payment'[s] = payment[s]
      BY <1>2, <2>2, SaveShape, BooksOnlyGrow
    <3> QED BY <1>1, <1>2, <3>1, BackedKept, BooksOnlyGrow
  <2> QED BY <2>1, <2>2
<1>3. CASE UNCHANGED pvars
  BY <1>1, <1>3 DEF pvars, RowBacked, Entries
<1> QED BY <1>2, <1>3, StepKinds DEF Next

(* However calls overlap, fail or are repeated, a payment row never claims  *)
(* a hold that ArCa does not have for that session and amount, nor money    *)
(* that no gateway took.                                                    *)
THEOREM RowsClaimWhatWasDone == Spec => []RowsAreBacked
<1>1. Init => RowsAreBacked
  BY DEF Init, NoPayment, RowsAreBacked, AuthorizedIsBacked, CapturedWasTaken
<1> QED BY <1>1, InitCalls, NextCalls, NextBacked, PTL DEF Spec

-----------------------------------------------------------------------------
(* One call at a time on a session                                         *)

(* As long as no two calls on a session were in flight together, a call     *)
(* still sees the row it read, and what it did is not given up yet.         *)
Alone(s) ==
  \A r \in Requests : On(r, s) =>
    /\ call[r].row = payment[s]
    /\ call[r].entry \notin orphaned
    /\ \A o \in Requests : On(o, s) => o = r

AloneInv == \A s \in Sessions \ overlapped : Alone(s)

(* A step of a call on another session is not seen from this one.           *)
LEMMA Elsewhere ==
  ASSUME TypeOK, CallsInv, NEW r \in Requests, StepOf(r), NEW s \in Sessions,
         ~On(r, s), ~On(r, s)'
  PROVE  /\ payment'[s] = payment[s]
         /\ \A kinds : Entries(s, kinds)' = Entries(s, kinds)
         /\ \A kinds : \A e \in Entries(s, kinds) :
              books'[e] = books[e] /\ (e \in orphaned' <=> e \in orphaned)
         /\ \A o \in Requests : On(o, s)' <=> On(o, s)
         /\ \A o \in Requests : On(o, s) => call'[o] = call[o]
<1>t. /\ books \in Seq(Entry) /\ Len(books) \in Nat
      /\ call \in [Requests -> Frame \cup {Returned, Threw}]
  BY DEF TypeOK
<1>g. BooksGrow
  BY BooksOnlyGrow
<1>1. \A o \in Requests : o # r => call'[o] = call[o]
  <2>1. CASE Executes(r)
    BY <2>1, ExecuteShape
  <2>2. CASE Saves(r)
    BY <2>2, SaveShape, OneSlot
  <2>3. CASE Answers(r) \/ Opens(r) \/ IdramGetBalance(r) \/ Fail(r)
    BY <1>t, <2>3 DEF Answers, Opens, IdramGetBalance, Fail, End
  <2> QED BY <2>1, <2>2, <2>3 DEF StepOf
<1>2. ASSUME NEW o \in Requests
      PROVE  (On(o, s)' <=> On(o, s)) /\ (On(o, s) => call'[o] = call[o])
  BY <1>1 DEF On, InCall
<1>3. payment'[s] = payment[s]
  <2>1. CASE Saves(r)
    BY <2>1, SaveShape DEF Saves, On
  <2>2. CASE ~Saves(r)
    BY <2>2, BooksOnlyGrow
  <2> QED BY <2>1, <2>2
<1>4. ASSUME NEW kinds PROVE Entries(s, kinds)' = Entries(s, kinds)
  <2>1. CASE Executes(r)
    <3>1. /\ Len(books') = Len(books) + 1 /\ books'[Len(books')].session # s
          /\ \A i \in 1..Len(books) : books'[i] = books[i]
      BY <2>1, ExecuteShape DEF On, Executes
    <3> QED BY <1>t, <3>1 DEF Entries
  <2>2. CASE ~Executes(r)
    BY <2>2, BooksOnlyGrow DEF Entries
  <2> QED BY <2>1, <2>2
<1>5. ASSUME NEW kinds, NEW e \in Entries(s, kinds)
      PROVE  books'[e] = books[e] /\ (e \in orphaned' <=> e \in orphaned)
  <2>1. books'[e] = books[e]
    BY <1>g, EntriesStay
  <2>2. CASE Fail(r)
    <3>1. orphaned' = orphaned \cup ({call[r].entry} \ {0}) /\ InCall(r) /\ CallKnows(r)
      BY <2>2 DEF Fail, CallsInv
    <3>2. call[r].entry # 0 => books[call[r].entry].session # s
      BY <3>1 DEF CallKnows, On
    <3>3. books[e].session = s
      BY DEF Entries
    <3> QED BY <2>1, <3>1, <3>2, <3>3
  <2>3. CASE ~Fail(r)
    <3>1. UNCHANGED orphaned
      BY <2>3, ExecuteShape, SaveShape DEF StepOf, Answers, Opens, IdramGetBalance
    <3> QED BY <2>1, <3>1
  <2> QED BY <2>2, <2>3
<1> QED BY <1>2, <1>3, <1>4, <1>5

\* A session that had calls in flight together is remembered.
LEMMA OverlapStays ==
  ASSUME TypeOK, CallsInv, NEW r \in Requests, StepOf(r)
  PROVE  overlapped \subseteq overlapped'
<1>1. CASE Opens(r)
  BY <1>1 DEF Opens
<1>2. CASE ~Opens(r)
  BY <1>2, ExecuteShape, SaveShape DEF StepOf, Answers, IdramGetBalance, Fail, End
<1> QED BY <1>1, <1>2

(* The slot of a step on a session that never had two calls: alone before   *)
(* and alone after.                                                         *)
LEMMA Here ==
  ASSUME TypeOK, CallsInv, AloneInv, NEW r \in Requests, StepOf(r),
         NEW s \in Sessions \ overlapped', On(r, s) \/ On(r, s)'
  PROVE  /\ s \notin overlapped
         /\ \A o \in Requests : o # r => ~On(o, s) /\ ~On(o, s)' /\ call'[o] = call[o]
         /\ Opens(r) => ~On(r, s)
         /\ ~Opens(r) => On(r, s) /\ call[r].row = payment[s] /\ call[r].entry \notin orphaned
         /\ Saves(r) \/ Fail(r) => ~On(r, s)'
<1>t. call \in [Requests -> Frame \cup {Returned, Threw}]
  BY DEF TypeOK
<1>1. s \notin overlapped
  BY OverlapStays
<1>2. Alone(s)
  BY <1>1 DEF AloneInv
<1>3. \A o \in Requests : o # r => call'[o] = call[o]
  <2>1. CASE Executes(r)
    BY <2>1, ExecuteShape
  <2>2. CASE Saves(r)
    BY <2>2, SaveShape, OneSlot
  <2>3. CASE Answers(r) \/ Opens(r) \/ IdramGetBalance(r) \/ Fail(r)
    BY <1>t, <2>3 DEF Answers, Opens, IdramGetBalance, Fail, End
  <2> QED BY <2>1, <2>2, <2>3 DEF StepOf
<1>4. Opens(r) => ~InCall(r)
  BY DEF Opens
<1>5. ASSUME Saves(r) \/ Fail(r) PROVE ~InCall(r)'
  BY <1>5, <1>t, SaveShape DEF Fail, End, InCall, Returned, Threw
<1>6. ASSUME ~Opens(r) PROVE On(r, s)
  <2>1. CASE Answers(r)
    BY <1>t, <2>1 DEF Answers, On, InCall, Returned, Threw
  <2>2. CASE IdramGetBalance(r)
    <3>1. InCall(r) /\ call[r] \in Frame
      BY <2>2, InCallFrame DEF IdramGetBalance, At, InCall
    <3>2. call'[r].session = call[r].session
      BY <1>t, <2>2, <3>1 DEF IdramGetBalance, Frame
    <3> QED BY <3>1, <3>2 DEF On
  <2>3. CASE Executes(r)
    BY <2>3, ExecuteShape DEF On, Executes
  <2>4. CASE Saves(r) \/ Fail(r)
    BY <1>5, <2>4 DEF On
  <2> QED BY <1>6, <2>1, <2>2, <2>3, <2>4 DEF StepOf
<1>7. ASSUME NEW o \in Requests, o # r PROVE ~On(o, s)
  <2>1. CASE On(r, s)
    BY <1>2, <1>7, <2>1 DEF Alone
  <2>2. CASE ~On(r, s)
    <3>1. Opens(r)
      BY <1>6, <2>2
    <3>2. PICK f \in Frame :
            /\ call' = [call EXCEPT ![r] = f]
            /\ overlapped' = IF \E q \in Requests : On(q, f.session)
                             THEN overlapped \cup {f.session} ELSE overlapped
      BY <3>1 DEF Opens
    <3>3. f.session = s
      BY <1>t, <2>2, <3>2 DEF On
    <3> QED BY <3>2, <3>3
  <2> QED BY <2>1, <2>2
<1>8. ASSUME NEW o \in Requests, o # r PROVE ~On(o, s)'
  BY <1>3, <1>7, <1>8 DEF On, InCall
<1> QED BY <1>1, <1>2, <1>3, <1>4, <1>5, <1>6, <1>7, <1>8 DEF Alone, On

\* The entry of a call is one of its session, or there is none yet.
LEMMA OwnEntry ==
  ASSUME TypeOK, CallsInv, NEW r \in Requests, NEW s \in Sessions, On(r, s)
  PROVE  /\ call[r].entry # 0 => call[r].entry \in Entries(s, {books[call[r].entry].kind})
         /\ 0 \notin orphaned
<1>1. /\ InCall(r) /\ CallKnows(r) /\ call[r].session = s
      /\ Len(books) \in Nat /\ orphaned \subseteq 1..Len(books)
  BY DEF On, CallsInv, TypeOK
<1>2. call[r].entry # 0 => call[r].entry \in 1..Len(books) /\ books[call[r].entry].session = s
  BY <1>1 DEF CallKnows
<1> QED BY <1>1, <1>2 DEF Entries

LEMMA NextAlone ==
  ASSUME TypeOK, CallsInv, AloneInv, TypeOK', CallsInv', [Next]_pvars
  PROVE  AloneInv'
<1>1. ASSUME NEW r \in Requests, StepOf(r), NEW s \in Sessions \ overlapped'
      PROVE  Alone(s)'
  <2>s. s \notin overlapped /\ Alone(s)
    BY <1>1, OverlapStays DEF AloneInv
  <2>1. CASE On(r, s) \/ On(r, s)'
    <3>1. \A o \in Requests : o # r => ~On(o, s)'
      BY <1>1, <2>1, Here
    <3>2. ASSUME On(r, s)' PROVE call'[r].row = payment'[s] /\ call'[r].entry \notin orphaned'
      <4>t. /\ call \in [Requests -> Frame \cup {Returned, Threw}]
            /\ Len(books) \in Nat /\ orphaned \subseteq 1..Len(books)
        BY DEF TypeOK
      <4>1. CASE Opens(r)
        BY <3>2, <4>1, <4>t DEF Opens, On
      <4>2. CASE Executes(r)
        <5>1. call[r].row = payment[s]
          BY <1>1, <2>1, <4>2, Here DEF Executes, Opens
        <5> QED BY <4>2, <4>t, <5>1, ExecuteShape
      <4>3. CASE IdramGetBalance(r)
        <5>1. call[r].row = payment[s] /\ call[r].entry \notin orphaned /\ InCall(r)
          BY <1>1, <2>1, <4>3, Here DEF IdramGetBalance, At, Opens, InCall
        <5>2. call[r] \in Frame
          BY <5>1, InCallFrame
        <5>3. call'[r].row = call[r].row /\ call'[r].entry = call[r].entry
          BY <4>3, <4>t, <5>2 DEF IdramGetBalance, Frame
        <5> QED BY <4>3, <5>1, <5>3 DEF IdramGetBalance
      <4>4. CASE Answers(r)
        BY <3>2, <4>4, <4>t DEF Answers, On, InCall, Returned, Threw
      <4>5. CASE Saves(r) \/ Fail(r)
        BY <1>1, <2>1, <3>2, <4>5, Here
      <4> QED BY <1>1, <4>1, <4>2, <4>3, <4>4, <4>5 DEF StepOf
    <3> QED BY <3>1, <3>2 DEF Alone
  <2>2. CASE ~On(r, s) /\ ~On(r, s)'
    <3>1. /\ payment'[s] = payment[s]
          /\ \A o \in Requests : On(o, s)' <=> On(o, s)
          /\ \A o \in Requests : On(o, s) => call'[o] = call[o]
      BY <1>1, <2>2, Elsewhere
    <3>2. ASSUME NEW o \in Requests, On(o, s) PROVE call[o].entry \notin orphaned'
      <4>1. CASE call[o].entry = 0
        <5>1. orphaned' \subseteq 1..Len(books') /\ Len(books') \in Nat
          BY DEF TypeOK
        <5> QED BY <4>1, <5>1
      <4>2. CASE call[o].entry # 0
        <5>1. call[o].entry \in Entries(s, {books[call[o].entry].kind})
          BY <3>2, <4>2, OwnEntry
        <5> QED BY <1>1, <2>2, <2>s, <3>2, <5>1, Elsewhere DEF Alone
      <4> QED BY <4>1, <4>2
    <3> QED BY <2>s, <3>1, <3>2 DEF Alone
  <2> QED BY <2>1, <2>2
<1>2. CASE UNCHANGED pvars
  BY <1>2 DEF pvars, AloneInv, Alone, On, InCall
<1> QED BY <1>1, <1>2, StepKinds DEF Next, AloneInv

-----------------------------------------------------------------------------
(* A repeated capture takes the money once                                 *)

Takes(s) == Entries(s, {"CAPTURE", "DEBIT"})

\* A call on the session that has yet to write what the gateway did.
Saving(s, op) == \E r \in Requests : On(r, s) /\ At(r, op, "save")

\* The session's money is with us: it is on the row or about to be.
Outstanding(s) ==
  \/ Saving(s, "capture")
  \/ payment[s].status = "CAPTURED" /\ ~Saving(s, "refund")

(* What is taken for one cost is given back before it is taken again.       *)
Once(s) ==
  LET taken == Cardinality(Takes(s) \ orphaned)
      returned == Cardinality(Entries(s, {"REFUND"}))
  IN SameCost(s) =>
       /\ taken <= returned + 1
       /\ ~Outstanding(s) => taken <= returned

OnceInv == \A s \in Sessions \ overlapped : Once(s)

LEMMA EntriesFinite ==
  ASSUME TypeOK, NEW s, NEW kinds
  PROVE  /\ IsFiniteSet(Entries(s, kinds)) /\ Cardinality(Entries(s, kinds)) \in Nat
         /\ \A T : /\ IsFiniteSet(Entries(s, kinds) \ T)
                  /\ Cardinality(Entries(s, kinds) \ T) \in Nat
<1>1. IsFiniteSet(1..Len(books))
  BY FS_Interval DEF TypeOK
<1>2. Entries(s, kinds) \subseteq 1..Len(books)
  BY DEF Entries
<1>3. \A T : Entries(s, kinds) \ T \subseteq 1..Len(books)
  BY <1>2
<1> QED BY <1>1, <1>2, <1>3, FS_Subset, FS_CardinalityType

\* Amounts that differ once differ for good.
LEMMA SameCostBefore ==
  ASSUME BooksGrow, NEW s \in Sessions, SameCost(s)'
  PROVE  SameCost(s)
<1> SUFFICES ASSUME NEW d \in Takes(s), NEW e \in Takes(s)
             PROVE  books[d].amount = books[e].amount
  BY DEF SameCost, Takes
<1>1. /\ d \in Takes(s)' /\ books'[d] = books[d]
      /\ e \in Takes(s)' /\ books'[e] = books[e]
  BY EntriesStay DEF Takes
<1> QED BY <1>1 DEF SameCost, Takes

(* The books of a session after the gateway acted for a call on it.         *)
LEMMA ExecuteHere ==
  ASSUME TypeOK, CallsInv, NEW r \in Requests, Executes(r),
         NEW s \in Sessions, On(r, s), NEW kinds
  PROVE  /\ Entries(s, kinds)' = IF books'[Len(books')].kind \in kinds
                                THEN Entries(s, kinds) \cup {Len(books')}
                                ELSE Entries(s, kinds)
         /\ Len(books') \notin Entries(s, kinds) /\ Len(books') \notin orphaned
<1>1. /\ Len(books) \in Nat /\ Len(books') = Len(books) + 1
      /\ books'[Len(books')].session = s
      /\ \A i \in 1..Len(books) : books'[i] = books[i]
      /\ orphaned \subseteq 1..Len(books)
  BY ExecuteShape DEF On, TypeOK
<1> QED BY <1>1 DEF Entries

(* What a step elsewhere leaves of a session's own view.                    *)
LEMMA ElsewhereSaving ==
  ASSUME TypeOK, CallsInv, NEW r \in Requests, StepOf(r), NEW s \in Sessions,
         ~On(r, s), ~On(r, s)'
  PROVE  /\ \A op : Saving(s, op)' <=> Saving(s, op)
         /\ (Takes(s) \ orphaned)' = Takes(s) \ orphaned
<1>1. /\ \A o \in Requests : On(o, s)' <=> On(o, s)
      /\ \A o \in Requests : On(o, s) => call'[o] = call[o]
      /\ Takes(s)' = Takes(s)
      /\ \A e \in Takes(s) : e \in orphaned' <=> e \in orphaned
  BY Elsewhere DEF Takes
<1>2. ASSUME NEW op PROVE Saving(s, op)' <=> Saving(s, op)
  BY <1>1 DEF Saving, At
<1> QED BY <1>1, <1>2

(* With one slot at work, a session is being written iff that slot writes.  *)
LEMMA SavingHere ==
  ASSUME TypeOK, CallsInv, AloneInv, NEW r \in Requests, StepOf(r),
         NEW s \in Sessions \ overlapped', On(r, s) \/ On(r, s)', NEW op
  PROVE  /\ Saving(s, op) <=> On(r, s) /\ At(r, op, "save")
         /\ Saving(s, op)' <=> On(r, s)' /\ At(r, op, "save")'
<1>1. \A o \in Requests : o # r => ~On(o, s) /\ ~On(o, s)'
  BY Here
<1>2. Saving(s, op) <=> On(r, s) /\ At(r, op, "save")
  BY <1>1 DEF Saving
<1>3. Saving(s, op)' <=> On(r, s)' /\ At(r, op, "save")'
  BY <1>1 DEF Saving, At
<1> QED BY <1>2, <1>3

LEMMA ExecuteOnce ==
  ASSUME TypeOK, CallsInv, RowsAreBacked, AloneInv, NEW r \in Requests, Executes(r),
         NEW s \in Sessions \ overlapped', On(r, s), Once(s), SameCost(s)'
  PROVE  Once(s)'
<1> DEFINE new == Len(books')
           kept == Takes(s) \ orphaned
           returns == Entries(s, {"REFUND"})
<1>s. StepOf(r) /\ BooksGrow /\ ~Opens(r)
  BY BooksOnlyGrow DEF StepOf, Executes, Opens
<1>1. SameCost(s) /\ call[r].row = payment[s] /\ CallKnows(r) /\ InCall(r)
  BY <1>s, SameCostBefore, Here DEF CallsInv, Executes
<1>2. /\ Takes(s)' = IF books'[new].kind \in {"CAPTURE", "DEBIT"}
                    THEN Takes(s) \cup {new} ELSE Takes(s)
      /\ returns' = IF books'[new].kind \in {"REFUND"} THEN returns \cup {new} ELSE returns
      /\ new \notin Takes(s) /\ new \notin returns /\ new \notin orphaned
  BY ExecuteHere DEF Takes
<1>3. UNCHANGED <<orphaned, payment>>
  BY ExecuteShape
<1>4. /\ IsFiniteSet(kept) /\ Cardinality(kept) \in Nat
      /\ IsFiniteSet(returns) /\ Cardinality(returns) \in Nat
  BY EntriesFinite DEF Takes
<1>5. /\ Cardinality(kept) <= Cardinality(returns) + 1
      /\ ~Outstanding(s) => Cardinality(kept) <= Cardinality(returns)
  BY <1>1 DEF Once
<1>6. /\ ~Saving(s, "capture") /\ ~Saving(s, "refund")
      /\ \A op : Saving(s, op)' <=> call[r].op = op
  <2>1. call[r].pc = "gateway" /\ call'[r].pc = "save" /\ call'[r].op = call[r].op /\ On(r, s)'
    BY ExecuteShape DEF Executes, On, InCall
  <2> QED BY <1>s, <2>1, SavingHere DEF At
<1>7. CASE call[r].op = "preAuthorize"
  <2>1. books'[new].kind = "HOLD"
    BY <1>7, ExecuteShape
  <2>2. (kept' = kept) /\ (returns' = returns)
    BY <1>2, <1>3, <2>1
  <2>3. Outstanding(s)' <=> Outstanding(s)
    BY <1>3, <1>6, <1>7 DEF Outstanding
  <2> QED BY <1>5, <2>2, <2>3 DEF Once
<1>8. CASE call[r].op = "capture"
  <2>1. books'[new].kind \in {"CAPTURE", "DEBIT"} /\ books'[new].amount = call[r].amount
    BY <1>8, ExecuteShape
  <2>2. (kept' = kept \cup {new}) /\ (returns' = returns) /\ new \notin kept
    BY <1>2, <1>3, <2>1
  <2>3. payment[s].status # "CAPTURED"
    <3> SUFFICES ASSUME payment[s].status = "CAPTURED" PROVE FALSE
      OBVIOUS
    <3>1. payment[s].captured # call[r].amount
      BY <1>1, <1>8 DEF CallKnows
    <3>2. payment[s].gateway # "WALLET" /\ payment[s].captured > 0
      BY RowFields DEF CallsInv, RowKnows
    <3>3. PICK d \in Takes(s) : books[d].amount = payment[s].captured
      BY <3>2, BackedByRow DEF RowBacked, Takes
    <3>4. d \in Takes(s)' /\ books'[d] = books[d] /\ new \in Takes(s)'
      BY <1>2, <1>s, <2>1, EntriesStay DEF Takes
    <3> QED BY <2>1, <3>1, <3>3, <3>4 DEF SameCost, Takes
  <2>4. ~Outstanding(s) /\ Outstanding(s)'
    BY <1>6, <1>8, <2>3 DEF Outstanding
  <2>5. Cardinality(kept') = Cardinality(kept) + 1
    BY <1>4, <2>2, FS_AddElement
  <2> QED BY <1>4, <1>5, <2>2, <2>4, <2>5 DEF Once
<1>9. CASE call[r].op = "refund"
  <2>1. books'[new].kind = "REFUND"
    BY <1>9, ExecuteShape
  <2>2. (kept' = kept) /\ (returns' = returns \cup {new}) /\ new \notin returns
    BY <1>2, <1>3, <2>1
  <2>3. Cardinality(returns') = Cardinality(returns) + 1
    BY <1>4, <2>2, FS_AddElement
  <2>4. /\ Cardinality(kept') <= Cardinality(returns')
        /\ Cardinality(kept') \in Nat /\ Cardinality(returns') \in Nat
    <3> HIDE DEF kept, returns
    <3> QED BY <1>4, <1>5, <2>2, <2>3
  <2> QED BY <2>4 DEF Once
<1> QED BY <1>1, <1>7, <1>8, <1>9, InCallFrame

LEMMA FailOnce ==
  ASSUME TypeOK, CallsInv, AloneInv, NEW r \in Requests, Fail(r),
         NEW s \in Sessions \ overlapped', On(r, s), Once(s), SameCost(s)'
  PROVE  Once(s)'
<1> DEFINE kept == Takes(s) \ orphaned
           returns == Entries(s, {"REFUND"})
           entry == call[r].entry
<1>s. StepOf(r) /\ BooksGrow /\ ~Opens(r)
  BY BooksOnlyGrow DEF StepOf, Fail, Opens
<1>1. /\ SameCost(s) /\ call[r].row = payment[s] /\ entry \notin orphaned
      /\ CallKnows(r) /\ InCall(r)
  BY <1>s, SameCostBefore, Here DEF CallsInv, Fail
<1>2. /\ Takes(s)' = Takes(s) /\ returns' = returns
      /\ orphaned' = orphaned \cup ({entry} \ {0}) /\ UNCHANGED <<payment, books>>
  BY DEF Fail, Takes, Entries
<1>3. /\ IsFiniteSet(kept) /\ Cardinality(kept) \in Nat /\ Cardinality(returns) \in Nat
  BY EntriesFinite DEF Takes
<1>4. /\ Cardinality(kept) <= Cardinality(returns) + 1
      /\ ~Outstanding(s) => Cardinality(kept) <= Cardinality(returns)
  BY <1>1 DEF Once
<1>5. Outstanding(s)' <=> payment[s].status = "CAPTURED"
  BY <1>2, <1>s, SavingHere, Here DEF Outstanding
<1>6. CASE Saving(s, "capture")
  <2>1. call[r].op = "capture" /\ call[r].pc = "save"
    BY <1>6, <1>s, SavingHere DEF At
  <2>2. entry \in Takes(s) /\ entry # 0
    BY <1>1, <2>1, OwnEntry DEF CallKnows, Takes, Entries
  <2>3. entry \in kept /\ (kept' = kept \ {entry})
    BY <1>1, <1>2, <2>2
  <2>4. Cardinality(kept') = Cardinality(kept) - 1
    <3> HIDE DEF kept, entry
    <3>1. Cardinality(kept \ {entry}) = Cardinality(kept) - 1
      BY <1>3, <2>3, FS_RemoveElement
    <3> QED BY <2>3, <3>1
  <2> QED BY <1>2, <1>3, <1>4, <2>4 DEF Once
<1>7. CASE ~Saving(s, "capture")
  <2>1. Outstanding(s) => Outstanding(s)'
    BY <1>5, <1>7 DEF Outstanding
  <2>2. kept' \subseteq kept
    BY <1>2
  <2>3. Cardinality(kept') <= Cardinality(kept) /\ Cardinality(kept') \in Nat
    BY <1>3, <2>2, FS_Subset, FS_CardinalityType
  <2> QED BY <1>2, <1>3, <1>4, <2>1, <2>3 DEF Once
<1> QED BY <1>6, <1>7

LEMMA NextOnce ==
  ASSUME TypeOK, CallsInv, RowsAreBacked, AloneInv, OnceInv, [Next]_pvars
  PROVE  OnceInv'
<1>1. ASSUME NEW r \in Requests, StepOf(r), NEW s \in Sessions \ overlapped', SameCost(s)'
      PROVE  Once(s)'
  <2>s. s \notin overlapped /\ Once(s)
    BY <1>1, OverlapStays DEF OnceInv
  <2>c. SameCost(s)
    BY <1>1, BooksOnlyGrow, SameCostBefore
  <2>1. CASE ~On(r, s) /\ ~On(r, s)'
    <3>1. /\ payment'[s] = payment[s]
          /\ Entries(s, {"REFUND"})' = Entries(s, {"REFUND"})
          /\ (Takes(s) \ orphaned)' = Takes(s) \ orphaned
          /\ \A op : Saving(s, op)' <=> Saving(s, op)
      BY <1>1, <2>1, Elsewhere, ElsewhereSaving
    <3> QED BY <2>s, <2>c, <3>1 DEF Once, Outstanding
  <2>2. CASE (On(r, s) \/ On(r, s)') /\ ~Executes(r) /\ ~Fail(r)
    <3>1. UNCHANGED <<books, orphaned>>
      BY <1>1, <2>2, SaveShape DEF StepOf, Answers, Opens, IdramGetBalance
    <3>2. /\ (Takes(s) \ orphaned)' = Takes(s) \ orphaned
          /\ Entries(s, {"REFUND"})' = Entries(s, {"REFUND"})
      BY <3>1 DEF Takes, Entries
    <3>3. Outstanding(s) => Outstanding(s)'
      <4>t. call \in [Requests -> Frame \cup {Returned, Threw}]
        BY DEF TypeOK
      <4>1. CASE Opens(r)
        <5>1. ~Saving(s, "capture") /\ payment' = payment
          BY <1>1, <2>2, <4>1, Here, SavingHere DEF Opens
        <5>2. Saving(s, "refund")' => payment[s].status # "CAPTURED"
          BY <1>1, <2>2, <4>1, <4>t, SavingHere DEF Opens, On, At, NothingToReturn
        <5> QED BY <5>1, <5>2 DEF Outstanding
      <4>2. CASE IdramGetBalance(r)
        <5>1. InCall(r) /\ call[r].op = "preAuthorize" /\ call[r] \in Frame
          BY <4>2, InCallFrame DEF IdramGetBalance, At, InCall
        <5>2. call'[r].op = "preAuthorize" /\ payment' = payment
          BY <4>2, <4>t, <5>1 DEF IdramGetBalance, Frame
        <5>3. ~Saving(s, "capture") /\ ~Saving(s, "refund")'
          BY <1>1, <2>2, <5>1, <5>2, SavingHere DEF At
        <5> QED BY <5>2, <5>3 DEF Outstanding
      <4>3. CASE Answers(r)
        BY <2>2, <4>3, <4>t DEF Answers, On, InCall, Returned, Threw
      <4>4. CASE Saves(r)
        <5>1. On(r, s) /\ ~On(r, s)' /\ call[r].row = payment[s] /\ CallKnows(r)
          BY <1>1, <2>2, <4>4, Here DEF Opens, Saves, CallsInv
        <5>2. ~Saving(s, "refund")' /\ InCall(r) /\ call[r].pc = "save"
          BY <1>1, <2>2, <4>4, <5>1, SavingHere DEF Saves
        <5>3. CASE call[r].op = "preAuthorize"
          <6>1. ~Saving(s, "capture") /\ payment[s].status # "CAPTURED"
            BY <1>1, <2>2, <5>1, <5>2, <5>3, SavingHere DEF At, CallKnows
          <6> QED BY <6>1 DEF Outstanding
        <5>4. CASE call[r].op = "capture"
          <6>1. payment'[s].status = "CAPTURED"
            BY <4>4, <5>1, <5>4, SaveShape DEF On
          <6> QED BY <5>2, <6>1 DEF Outstanding
        <5>5. CASE call[r].op = "refund"
          <6>1. ~Saving(s, "capture") /\ Saving(s, "refund")
            BY <1>1, <2>2, <5>1, <5>2, <5>5, SavingHere DEF At
          <6> QED BY <6>1 DEF Outstanding
        <5> QED BY <5>2, <5>3, <5>4, <5>5, InCallFrame
      <4> QED BY <1>1, <2>2, <4>1, <4>2, <4>3, <4>4 DEF StepOf
    <3>4. Cardinality(Entries(s, {"REFUND"})) \in Nat /\ Cardinality(Takes(s) \ orphaned) \in Nat
      BY EntriesFinite DEF Takes
    <3> QED BY <2>s, <2>c, <3>2, <3>3, <3>4 DEF Once
  <2>3. CASE On(r, s) /\ Executes(r)
    BY <1>1, <2>3, <2>s, ExecuteOnce
  <2>4. CASE On(r, s) /\ Fail(r)
    BY <1>1, <2>4, <2>s, FailOnce
  <2>5. (On(r, s) \/ On(r, s)') /\ (Executes(r) \/ Fail(r)) => On(r, s)
    BY <1>1, Here DEF Executes, Fail, Opens
  <2> QED BY <2>1, <2>2, <2>3, <2>4, <2>5
<1>2. CASE UNCHANGED pvars
  <2> SUFFICES ASSUME NEW s \in Sessions \ overlapped PROVE Once(s)'
    BY <1>2 DEF OnceInv, pvars
  <2>1. \A kinds : Entries(s, kinds)' = Entries(s, kinds)
    BY <1>2 DEF pvars, Entries
  <2>2. Outstanding(s)' <=> Outstanding(s)
    BY <1>2 DEF pvars, Outstanding, Saving, On, At, InCall
  <2>3. SameCost(s)' <=> SameCost(s)
    BY <1>2, <2>1 DEF pvars, SameCost
  <2>4. (Takes(s) \ orphaned)' = Takes(s) \ orphaned
    BY <1>2, <2>1 DEF pvars, Takes
  <2> QED BY <2>1, <2>2, <2>3, <2>4 DEF OnceInv, Once
<1> QED BY <1>1, <1>2, StepKinds DEF Next, OnceInv, Once

(* Repeating captureAuthorizedPaymentForSession with a session's cost takes *)
(* the money once more only after it was given back, for any number of      *)
(* retries, refunds and new authorizations, as long as no two calls on the  *)
(* session overlapped and none died with the money in hand.                 *)
THEOREM TakenOnce == Spec => []RetriesTakeOnce
<1>1. Init => RowsAreBacked /\ AloneInv /\ OnceInv
  <2> SUFFICES ASSUME Init PROVE RowsAreBacked /\ AloneInv /\ OnceInv
    OBVIOUS
  <2>1. RowsAreBacked
    BY DEF Init, NoPayment, RowsAreBacked, AuthorizedIsBacked, CapturedWasTaken
  <2>2. \A r \in Requests : ~InCall(r)
    BY DEF Init, InCall, Returned
  <2>3. \A s, kinds : Entries(s, kinds) = {}
    BY DEF Init, Entries
  <2>4. \A s : Cardinality(Takes(s) \ orphaned) = 0 /\ Cardinality(Entries(s, {"REFUND"})) = 0
    BY <2>3, FS_EmptySet DEF Takes
  <2> QED BY <2>1, <2>2, <2>4 DEF AloneInv, Alone, On, OnceInv, Once
<1>2. TypeOK /\ OnceInv => RetriesTakeOnce
  <2> SUFFICES ASSUME TypeOK, OnceInv, NEW s \in Sessions \ overlapped, SameCost(s)
               PROVE  Cardinality(Takes(s) \ orphaned)
                        <= 1 + Cardinality(Entries(s, {"REFUND"}))
    BY DEF RetriesTakeOnce, Takes
  <2>1. Cardinality(Takes(s) \ orphaned) \in Nat /\ Cardinality(Entries(s, {"REFUND"})) \in Nat
    BY EntriesFinite DEF Takes
  <2> QED BY <2>1 DEF OnceInv, Once
<1> QED
  BY <1>1, <1>2, InitCalls, NextCalls, NextBacked, NextAlone, NextOnce, PTL DEF Spec

-----------------------------------------------------------------------------
(* Money and holds are not forgotten                                       *)

\* A refunded row's own transaction was given back.
RefundStands(s) ==
  payment[s].status = "REFUNDED" /\ payment[s].txn # 0 => GivenBack(payment[s].txn)

HoldKept(s, e) ==
  \/ payment[s].txn = e
  \/ \E r \in Requests : On(r, s) /\ call[r].entry = e
  \/ e \in orphaned
  \/ GivenBack(e)

TakeKept(s, e) ==
  \/ GivenBack(RefundKey(e))
  \/ payment[s].status = "CAPTURED" /\ payment[s].txn = RefundKey(e)
  \/ \E r \in Requests : On(r, s) /\ At(r, "capture", "save") /\ call[r].entry = e

(* Between calls, what a gateway has of a session is on its row or was      *)
(* given back; in between, the call that is about to write knows of it.     *)
Settled(s) ==
  /\ RefundStands(s)
  /\ \A e \in Entries(s, {"HOLD"}) : HoldKept(s, e)
  /\ SameCost(s) => \A e \in Takes(s) \ orphaned : TakeKept(s, e)

SettledInv == \A s \in Sessions \ overlapped : Settled(s)

LEMMA GivenBackStays ==
  ASSUME BooksGrow, NEW t, GivenBack(t)
  PROVE  GivenBack(t)'
BY DEF BooksGrow, GivenBack

(* A take stays with its row or its refund while neither is touched.        *)
LEMMA TakeStays ==
  ASSUME BooksGrow, NEW s \in Sessions, NEW e \in Takes(s), TakeKept(s, e),
         payment'[s] = payment[s],
         \A r \in Requests : On(r, s) /\ At(r, "capture", "save")
                             => On(r, s)' /\ call'[r] = call[r]
  PROVE  TakeKept(s, e)'
<1>1. books'[e] = books[e]
  BY EntriesStay DEF Takes
<1>2. RefundKey(e)' = RefundKey(e)
  BY <1>1 DEF RefundKey
<1>3. ASSUME GivenBack(RefundKey(e)) PROVE GivenBack(RefundKey(e))'
  <2> PICK t : t = RefundKey(e)
    OBVIOUS
  <2>1. GivenBack(t)'
    BY <1>3, GivenBackStays
  <2> QED BY <1>2, <2>1 DEF GivenBack
<1> QED BY <1>2, <1>3 DEF TakeKept, At

(* So does a hold.                                                          *)
LEMMA HoldStays ==
  ASSUME BooksGrow, NEW s \in Sessions, NEW e \in Entries(s, {"HOLD"}), HoldKept(s, e),
         payment'[s] = payment[s], orphaned \subseteq orphaned',
         \A r \in Requests : On(r, s) /\ call[r].entry = e
                             => On(r, s)' /\ call'[r].entry = e
  PROVE  HoldKept(s, e)'
<1>1. GivenBack(e) => GivenBack(e)'
  BY GivenBackStays
<1> QED BY <1>1 DEF HoldKept

LEMMA RefundStays ==
  ASSUME BooksGrow, NEW s \in Sessions, RefundStands(s), payment'[s] = payment[s]
  PROVE  RefundStands(s)'
<1> PICK t : t = payment[s].txn
  OBVIOUS
<1>1. GivenBack(t) => GivenBack(t)'
  BY GivenBackStays
<1> QED BY <1>1 DEF RefundStands, GivenBack

(* A write is where all of it changes hands.                                *)
LEMMA SaveSettled ==
  ASSUME TypeOK, CallsInv, RowsAreBacked, AloneInv, NEW r \in Requests, Saves(r),
         NEW s \in Sessions \ overlapped', On(r, s), Settled(s)
  PROVE  Settled(s)'
<1> DEFINE entry == call[r].entry
<1>s. StepOf(r) /\ BooksGrow /\ ~Opens(r) /\ UNCHANGED <<books, orphaned>>
  BY BooksOnlyGrow, SaveShape DEF StepOf, Saves, Opens
<1>1. /\ InCall(r) /\ call[r].pc = "save" /\ call[r].row = payment[s]
      /\ CallKnows(r) /\ RowKnows(s) /\ entry \in 0..Len(books) /\ Len(books) \in Nat
      /\ call[r].session = s
  BY <1>s, Here DEF Saves, CallsInv, CallKnows, TypeOK, On
<1>2. /\ \A kinds : Entries(s, kinds)' = Entries(s, kinds)
      /\ (Takes(s) \ orphaned)' = Takes(s) \ orphaned
      /\ SameCost(s)' <=> SameCost(s)
      /\ \A e : RefundKey(e)' = RefundKey(e)
      /\ \A t : GivenBack(t)' <=> GivenBack(t)
  BY <1>s DEF Entries, Takes, SameCost, RefundKey, GivenBack
<1>3. \A o \in Requests : On(o, s) => o = r
  BY <1>s, Here
<1>4. ASSUME NEW e \in Entries(s, {"HOLD"}) PROVE e \in 1..Len(books) /\ books[e].kind = "HOLD"
  BY DEF Entries
<1>5. CASE call[r].op = "preAuthorize"
  <2>1. payment'[s].status = "AUTHORIZED" /\ payment'[s].txn = entry
    BY <1>1, <1>5, SaveShape
  <2>2. payment[s].status \in {"NONE", "REFUNDED"}
    BY <1>1, <1>5 DEF CallKnows
  <2>3. RefundStands(s)'
    BY <2>1 DEF RefundStands
  <2>4. ASSUME NEW e \in Entries(s, {"HOLD"}) PROVE HoldKept(s, e)'
    <3>1. HoldKept(s, e) /\ e # 0
      BY <1>4, <1>1 DEF Settled
    <3>2. payment[s].txn = e => GivenBack(e)
      BY <2>2, <3>1, RowFields DEF Settled, RefundStands, NoPayment
    <3> QED BY <1>2, <1>3, <1>s, <2>1, <3>1, <3>2 DEF HoldKept
  <2>5. ASSUME NEW e \in Takes(s) \ orphaned, SameCost(s) PROVE TakeKept(s, e)'
    <3>1. TakeKept(s, e)
      BY <2>5 DEF Settled
    <3>2. GivenBack(RefundKey(e))
      BY <1>3, <1>5, <2>2, <3>1 DEF TakeKept, At
    <3>3. RefundKey(e)' = RefundKey(e) /\ books' = books
      BY <1>2, <1>s
    <3> QED BY <3>2, <3>3 DEF TakeKept, GivenBack
  <2> QED BY <1>2, <2>3, <2>4, <2>5 DEF Settled
<1>6. CASE call[r].op = "capture"
  <2>1. /\ payment'[s].status = "CAPTURED"
        /\ payment'[s].txn = IF books[entry].kind = "DEBIT" THEN entry ELSE payment[s].txn
    BY <1>1, <1>6, SaveShape
  <2>2. /\ entry \in 1..Len(books) /\ books[entry].kind \in {"CAPTURE", "DEBIT"}
        /\ books[entry].session = s /\ books[entry].amount = call[r].amount
        /\ \/ payment[s].gateway = "IDRAM" /\ books[entry].kind = "DEBIT"
           \/ books[entry].kind = "CAPTURE" /\ books[entry].txn = payment[s].txn
    BY <1>1, <1>6 DEF CallKnows
  <2>3. RefundStands(s)'
    BY <2>1 DEF RefundStands
  <2>4. ASSUME NEW e \in Entries(s, {"HOLD"}) PROVE HoldKept(s, e)'
    <3>1. HoldKept(s, e) /\ e # entry /\ e # 0
      BY <1>4, <1>1, <2>2 DEF Settled
    <3>2. payment[s].txn = e => payment'[s].txn = e
      <4> SUFFICES ASSUME payment[s].txn = e PROVE books[entry].kind # "DEBIT"
        BY <2>1
      <4>1. payment[s] # NoPayment
        BY <3>1 DEF NoPayment
      <4> QED BY <1>1, <1>4, <2>2, <3>1, <4>1 DEF RowKnows
    <3> QED BY <1>2, <1>3, <1>s, <3>1, <3>2 DEF HoldKept
  <2>5. ASSUME NEW e \in Takes(s) \ orphaned, SameCost(s) PROVE TakeKept(s, e)'
    <3>1. TakeKept(s, e) /\ RefundKey(e)' = RefundKey(e) /\ books' = books
      BY <1>2, <1>s, <2>5 DEF Settled
    <3>2. CASE e = entry
      <4>1. payment'[s].txn = RefundKey(e)
        BY <2>1, <2>2, <3>2 DEF RefundKey
      <4> QED BY <2>1, <3>1, <4>1 DEF TakeKept
    <3>3. CASE e # entry
      <4>1. payment[s].status # "CAPTURED"
        <5> SUFFICES ASSUME payment[s].status = "CAPTURED" PROVE FALSE
          OBVIOUS
        <5>1. payment[s].captured # call[r].amount
          BY <1>1, <1>6 DEF CallKnows
        <5>2. payment[s].gateway # "WALLET" /\ payment[s].captured > 0
          BY <1>1, RowFields DEF RowKnows
        <5>3. PICK d \in Takes(s) : books[d].amount = payment[s].captured
          BY <5>2, BackedByRow DEF RowBacked, Takes
        <5>4. entry \in Takes(s)
          BY <2>2 DEF Takes, Entries
        <5> QED BY <2>2, <2>5, <5>1, <5>3, <5>4 DEF SameCost, Takes
      <4>2. GivenBack(RefundKey(e))
        BY <1>3, <3>1, <3>3, <4>1 DEF TakeKept
      <4> QED BY <3>1, <4>2 DEF TakeKept, GivenBack
    <3> QED BY <3>2, <3>3
  <2> QED BY <1>2, <2>3, <2>4, <2>5 DEF Settled
<1>7. CASE call[r].op = "refund"
  <2>1. payment'[s].status = "REFUNDED" /\ payment'[s].txn = payment[s].txn
    BY <1>1, <1>7, SaveShape
  <2>2. CASE entry = 0
    <3>1. payment[s].txn = 0 /\ payment[s].status = "AUTHORIZED"
      BY <1>1, <1>7, <2>2 DEF CallKnows, NothingToReturn
    <3>2. RefundStands(s)'
      BY <2>1, <3>1 DEF RefundStands
    <3>3. ASSUME NEW e \in Entries(s, {"HOLD"}) PROVE HoldKept(s, e)'
      <4>1. HoldKept(s, e) /\ e # 0
        BY <1>4, <1>1 DEF Settled
      <4> QED BY <1>2, <1>3, <1>s, <2>2, <3>1, <4>1 DEF HoldKept
    <3>4. ASSUME NEW e \in Takes(s) \ orphaned, SameCost(s) PROVE TakeKept(s, e)'
      <4>1. TakeKept(s, e) /\ RefundKey(e)' = RefundKey(e) /\ books' = books
        BY <1>2, <1>s, <3>4 DEF Settled
      <4>2. GivenBack(RefundKey(e))
        BY <1>3, <1>7, <3>1, <4>1 DEF TakeKept, At
      <4> QED BY <4>1, <4>2 DEF TakeKept, GivenBack
    <3> QED BY <1>2, <3>2, <3>3, <3>4 DEF Settled
  <2>3. CASE entry # 0
    <3>1. books[entry].kind = "REFUND" /\ books[entry].txn = payment[s].txn
      BY <1>1, <1>7, <2>3 DEF CallKnows
    <3>2. GivenBack(payment[s].txn) /\ entry \in 1..Len(books)
      BY <1>1, <2>3, <3>1 DEF GivenBack
    <3>3. RefundStands(s)'
      BY <1>s, <2>1, <3>2 DEF RefundStands, GivenBack
    <3>4. ASSUME NEW e \in Entries(s, {"HOLD"}) PROVE HoldKept(s, e)'
      <4>1. HoldKept(s, e) /\ e # entry
        BY <1>4, <3>1 DEF Settled
      <4> QED BY <1>2, <1>3, <1>s, <2>1, <4>1 DEF HoldKept
    <3>5. ASSUME NEW e \in Takes(s) \ orphaned, SameCost(s) PROVE TakeKept(s, e)'
      <4>1. TakeKept(s, e) /\ RefundKey(e)' = RefundKey(e) /\ books' = books
        BY <1>2, <1>s, <3>5 DEF Settled
      <4>2. GivenBack(RefundKey(e))
        BY <1>3, <1>7, <3>2, <4>1 DEF TakeKept, At
      <4> QED BY <4>1, <4>2 DEF TakeKept, GivenBack
    <3> QED BY <1>2, <3>3, <3>4, <3>5 DEF Settled
  <2> QED BY <2>2, <2>3
<1> QED BY <1>1, <1>5, <1>6, <1>7, InCallFrame

(* The gateway's operation: the new entry is known to the call.             *)
LEMMA ExecuteSettled ==
  ASSUME TypeOK, CallsInv, AloneInv, NEW r \in Requests, Executes(r),
         NEW s \in Sessions \ overlapped', On(r, s), Settled(s)
  PROVE  Settled(s)'
<1> DEFINE new == Len(books')
<1>s. StepOf(r) /\ BooksGrow /\ ~Opens(r) /\ UNCHANGED <<payment, orphaned>>
  BY BooksOnlyGrow, ExecuteShape DEF StepOf, Executes, Opens
<1>1. /\ InCall(r) /\ call[r].pc = "gateway" /\ call[r].entry = 0
      /\ call'[r].entry = new /\ On(r, s)' /\ call'[r].pc = "save"
      /\ call'[r].op = call[r].op
      /\ \A o \in Requests : On(o, s) => o = r
  BY <1>s, Here, ExecuteShape DEF Executes, CallsInv, CallKnows, On, InCall
<1>2. ASSUME NEW kinds
      PROVE  Entries(s, kinds)' = IF books'[new].kind \in kinds
                                  THEN Entries(s, kinds) \cup {new} ELSE Entries(s, kinds)
  BY ExecuteHere
<1>3. RefundStands(s)'
  BY <1>s, RefundStays DEF Settled
<1>4. ASSUME NEW e \in Entries(s, {"HOLD"})' PROVE HoldKept(s, e)'
  <2>1. CASE e = new
    BY <1>1, <2>1 DEF HoldKept
  <2>2. CASE e # new
    <3>1. e \in Entries(s, {"HOLD"}) /\ HoldKept(s, e) /\ e # 0
      <4>1. e \in Entries(s, {"HOLD"})
        BY <1>2, <2>2
      <4>2. HoldKept(s, e)
        BY <4>1 DEF Settled
      <4>3. e # 0
        BY <4>1 DEF Entries
      <4> QED BY <4>1, <4>2, <4>3
    <3> QED BY <1>s, <1>1, <3>1, HoldStays
  <2> QED BY <2>1, <2>2
<1>5. ASSUME NEW e \in (Takes(s) \ orphaned)', SameCost(s)' PROVE TakeKept(s, e)'
  <2>1. CASE e = new
    <3>1. books'[new].kind \in {"CAPTURE", "DEBIT"}
      BY <1>5, <2>1 DEF Takes, Entries
    <3>2. call[r].op = "capture"
      BY <3>1, ExecuteShape
    <3> QED BY <1>1, <2>1, <3>2 DEF TakeKept, At
  <2>2. CASE e # new
    <3>1. e \in Takes(s) \ orphaned /\ SameCost(s)
      BY <1>s, <1>2, <1>5, <2>2, SameCostBefore DEF Takes
    <3>2. TakeKept(s, e)
      BY <3>1 DEF Settled
    <3>3. \A o \in Requests : ~(On(o, s) /\ At(o, "capture", "save"))
      BY <1>1 DEF At
    <3> QED BY <1>s, <3>1, <3>2, <3>3, TakeStays
  <2> QED BY <2>1, <2>2
<1> QED BY <1>3, <1>4, <1>5 DEF Settled

LEMMA NextSettled ==
  ASSUME TypeOK, CallsInv, RowsAreBacked, AloneInv, SettledInv, [Next]_pvars
  PROVE  SettledInv'
<1>1. ASSUME NEW r \in Requests, StepOf(r), NEW s \in Sessions \ overlapped'
      PROVE  Settled(s)'
  <2>s. s \notin overlapped /\ Settled(s) /\ BooksGrow
    BY <1>1, OverlapStays, BooksOnlyGrow DEF SettledInv
  <2>t. /\ call \in [Requests -> Frame \cup {Returned, Threw}]
        /\ orphaned \subseteq 1..Len(books) /\ Len(books) \in Nat
    BY DEF TypeOK
  <2>1. CASE ~On(r, s) /\ ~On(r, s)'
    <3>1. /\ payment'[s] = payment[s]
          /\ \A kinds : Entries(s, kinds)' = Entries(s, kinds)
          /\ \A o \in Requests : On(o, s) => On(o, s)' /\ call'[o] = call[o]
      BY <1>1, <2>1, Elsewhere
    <3>2. RefundStands(s)'
      BY <2>s, <3>1, RefundStays DEF Settled
    <3>3. ASSUME NEW e \in Entries(s, {"HOLD"}) PROVE HoldKept(s, e)'
      <4>1. HoldKept(s, e) /\ (e \in orphaned' <=> e \in orphaned)
        BY <1>1, <2>1, <2>s, Elsewhere DEF Settled
      <4>2. GivenBack(e) => GivenBack(e)'
        BY <2>s, GivenBackStays
      <4> QED BY <3>1, <4>1, <4>2 DEF HoldKept
    <3>4. ASSUME NEW e \in Takes(s) \ orphaned, SameCost(s)' PROVE TakeKept(s, e)'
      <4>1. TakeKept(s, e)
        BY <2>s, <3>4, SameCostBefore DEF Settled
      <4> QED BY <2>s, <3>1, <4>1, TakeStays
    <3>5. (Takes(s) \ orphaned)' = Takes(s) \ orphaned
      BY <1>1, <2>1, ElsewhereSaving
    <3> QED BY <3>1, <3>2, <3>3, <3>4, <3>5 DEF Settled
  <2>2. CASE On(r, s) /\ Saves(r)
    BY <1>1, <2>2, <2>s, SaveSettled
  <2>3. CASE On(r, s) /\ Executes(r)
    BY <1>1, <2>3, <2>s, ExecuteSettled
  <2>4. CASE (On(r, s) \/ On(r, s)') /\ ~Saves(r) /\ ~Executes(r)
    <3>1. /\ UNCHANGED <<payment, books>> /\ orphaned \subseteq orphaned'
          /\ \A o \in Requests : On(o, s) => o = r
      BY <1>1, <2>4, Here DEF StepOf, Answers, Opens, IdramGetBalance, Fail
    <3>2. \A kinds : Entries(s, kinds)' = Entries(s, kinds)
      BY <3>1 DEF Entries
    <3>3. ASSUME ~Fail(r), NEW e \in 1..Len(books), On(r, s), call[r].entry = e
          PROVE  FALSE
      <4>1. IdramGetBalance(r)
        BY <1>1, <2>4, <3>3, Here DEF StepOf, Answers, Opens, On
      <4>2. CallKnows(r) /\ InCall(r) /\ call[r].pc = "gateway"
        BY <4>1 DEF CallsInv, IdramGetBalance, At, InCall
      <4> QED BY <3>3, <4>2 DEF CallKnows
    <3>4. RefundStands(s)'
      BY <2>s, <3>1, RefundStays DEF Settled
    <3>5. ASSUME NEW e \in Entries(s, {"HOLD"}) PROVE HoldKept(s, e)'
      <4>1. HoldKept(s, e) /\ e \in 1..Len(books)
        BY <2>s DEF Settled, Entries
      <4>2. CASE On(r, s) /\ call[r].entry = e
        <5>1. e \in orphaned'
          BY <2>t, <3>3, <4>1, <4>2 DEF Fail
        <5> QED BY <5>1 DEF HoldKept
      <4>3. CASE ~(On(r, s) /\ call[r].entry = e)
        BY <2>s, <3>1, <4>1, <4>3, HoldStays
      <4> QED BY <4>2, <4>3
    <3>6. ASSUME NEW e \in Takes(s) \ orphaned', SameCost(s)' PROVE TakeKept(s, e)'
      <4>1. TakeKept(s, e) /\ e \in 1..Len(books)
        BY <2>s, <3>1, <3>6, SameCostBefore DEF Settled, Takes, Entries
      <4>2. CASE On(r, s) /\ call[r].entry = e
        BY <2>t, <3>3, <3>6, <4>1, <4>2 DEF Fail
      <4>3. CASE ~(On(r, s) /\ call[r].entry = e)
        <5>1. RefundKey(e)' = RefundKey(e) /\ \A t : GivenBack(t)' <=> GivenBack(t)
          BY <3>1 DEF RefundKey, GivenBack
        <5> QED BY <3>1, <4>1, <4>3, <5>1 DEF TakeKept, GivenBack
      <4> QED BY <4>2, <4>3
    <3> QED BY <3>2, <3>4, <3>5, <3>6 DEF Settled, Takes
  <2>5. (On(r, s) \/ On(r, s)') /\ (Saves(r) \/ Executes(r)) => On(r, s)
    BY <1>1, Here DEF Saves, Executes, Opens
  <2> QED BY <2>1, <2>2, <2>3, <2>4, <2>5
<1>2. CASE UNCHANGED pvars
  <2> SUFFICES ASSUME NEW s \in Sessions \ overlapped PROVE Settled(s)'
    BY <1>2 DEF SettledInv, pvars
  <2>1. Settled(s) /\ UNCHANGED <<payment, books, orphaned, call>>
    BY <1>2 DEF SettledInv, pvars
  <2>2. \A kinds : Entries(s, kinds)' = Entries(s, kinds)
    BY <2>1 DEF Entries
  <2>3. /\ \A t : GivenBack(t)' <=> GivenBack(t)
        /\ \A e : RefundKey(e)' = RefundKey(e)
        /\ \A r : On(r, s)' <=> On(r, s)
    BY <2>1 DEF GivenBack, RefundKey, On, InCall
  <2>4. RefundStands(s)'
    BY <2>1 DEF Settled, RefundStands, GivenBack
  <2>5. \A e : HoldKept(s, e) => HoldKept(s, e)'
    BY <2>1, <2>3 DEF HoldKept
  <2>6. \A e : TakeKept(s, e) => TakeKept(s, e)'
    BY <2>1, <2>3 DEF TakeKept, GivenBack, RefundKey, At
  <2>7. SameCost(s)' <=> SameCost(s)
    BY <2>1, <2>2 DEF SameCost
  <2> QED BY <2>1, <2>2, <2>4, <2>5, <2>6, <2>7 DEF Settled, Takes
<1> QED BY <1>1, <1>2, StepKinds DEF Next, SettledInv

(* Every hold of ArCa on a card is on its row, with a running call, given   *)
(* back or left by a call that died, and a row that says REFUNDED had all   *)
(* of its session's cost asked back: refundPaymentForSessionFailure leaves  *)
(* nothing behind, as long as calls on the session do not overlap.          *)
THEOREM NothingForgotten == Spec => []MoneyIsSettled
<1>1. Init => RowsAreBacked /\ AloneInv /\ SettledInv
  <2> SUFFICES ASSUME Init PROVE RowsAreBacked /\ AloneInv /\ SettledInv
    OBVIOUS
  <2>1. RowsAreBacked
    BY DEF Init, NoPayment, RowsAreBacked, AuthorizedIsBacked, CapturedWasTaken
  <2>2. \A r \in Requests : ~InCall(r)
    BY DEF Init, InCall, Returned
  <2>3. \A s, kinds : Entries(s, kinds) = {}
    BY DEF Init, Entries
  <2>4. \A s \in Sessions : RefundStands(s)
    BY DEF Init, NoPayment, RefundStands
  <2> QED BY <2>1, <2>2, <2>3, <2>4 DEF AloneInv, Alone, On, SettledInv, Settled, Takes
<1>2. TypeOK /\ CallsInv /\ AloneInv /\ SettledInv => MoneyIsSettled
  <2> SUFFICES ASSUME TypeOK, CallsInv, AloneInv, SettledInv PROVE MoneyIsSettled
    OBVIOUS
  <2>1. HoldsAccounted
    BY DEF HoldsAccounted, SettledInv, Settled, HoldKept, On
  <2>2. RefundedIsSettled
    <3> SUFFICES ASSUME NEW s \in Sessions \ overlapped, payment[s].status = "REFUNDED",
                        SameCost(s), NEW e \in Takes(s) \ orphaned
                 PROVE  GivenBack(RefundKey(e))
      BY DEF RefundedIsSettled, Takes
    <3>1. TakeKept(s, e)
      BY DEF SettledInv, Settled
    <3>2. ASSUME NEW r \in Requests, On(r, s), At(r, "capture", "save") PROVE FALSE
      <4>1. call[r].row.status = "REFUNDED" /\ CallKnows(r) /\ InCall(r)
        BY <3>2 DEF AloneInv, Alone, CallsInv, On
      <4> QED BY <3>2, <4>1 DEF CallKnows, At
    <3> QED BY <3>1, <3>2 DEF TakeKept
  <2> QED BY <2>1, <2>2 DEF MoneyIsSettled
<1> QED
  BY <1>1, <1>2, InitCalls, NextCalls, NextBacked, NextAlone, NextSettled, PTL DEF Spec

=============================================================================
