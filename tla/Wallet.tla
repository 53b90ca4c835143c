------------------------------- MODULE Wallet -------------------------------
(***************************************************************************)
(* wallet.service.ts: the wallet of one user (every query is keyed by the  *)
(* wallet, so wallets do not interact).  Each request runs one operation,  *)
(* top-up, deduction or refund; every await of the operation is a point    *)
(* where the other requests may run, and where the request may die.        *)
(*                                                                         *)
(* The database transactions run at PostgreSQL's default isolation, READ   *)
(* COMMITTED: findUnique inside $transaction takes no lock, and update     *)
(* writes an absolute balance.  The update's row lock is held until the    *)
(* commit, so another transaction sees the old balance until then and the  *)
(* new one after: the update, the insert and the commit are one step.      *)
(***************************************************************************)
EXTENDS Integers, Sequences

CONSTANTS
  Requests,    \* slots for requests that are in flight at the same time
  Operations,  \* which of the three operations are called, named by their rows
  Amounts,     \* amounts of the requests, in AMD
  MaxInt,      \* largest value of the wallets.balance column, a 32-bit Int
  MaxCharges,  \* bound: gateway transactions over a behaviour
  MaxRows      \* bound: wallet transactions over a behaviour

\* Amounts of zero and below are refused before the first await.
ASSUME AmountsAssumption == Amounts \subseteq Nat \ {0}
ASSUME OperationsAssumption == Operations \subseteq {"TOP_UP", "DEDUCTION", "REFUND"}
ASSUME BoundsAssumption == MaxInt \in Nat /\ MaxCharges \in Nat /\ MaxRows \in Nat

VARIABLES
  balance,     \* wallets.balance
  rows,        \* wallet_transactions, in commit order
  exists,      \* the wallet row has been created
  charges,     \* ArCa's and Idram's own books: transaction number -> charge
  abandoned,   \* history: charges whose request died before its row was written
  req          \* req[r]: the operation that slot r is running

vars == <<balance, rows, exists, charges, abandoned, req>>

RowTypes == {"TOP_UP", "DEDUCTION", "REFUND"}

WalletRow == [type : RowTypes, amount : Amounts, before : Int, after : Int, charge : Nat]

Charge == [amount : Amounts, state : {"HELD", "CAPTURED"}]

Frame == [type : RowTypes, amount : Amounts, seen : Int, charge : Nat,
          pc : {"create", "charge", "capture", "txRead", "txCommit"}]

IdleFrame == [type |-> "NONE", amount |-> 0, seen |-> 0, charge |-> 0, pc |-> "idle"]

TypeOK ==
  /\ balance \in Int
  /\ rows \in Seq(WalletRow)
  /\ exists \in BOOLEAN
  /\ charges \in Seq(Charge)
  /\ abandoned \subseteq 1..Len(charges)
  /\ req \in [Requests -> Frame \cup {IdleFrame}]
  /\ \A r \in Requests : req[r].charge \in 0..Len(charges)

Init ==
  /\ balance = 0
  /\ rows = <<>>
  /\ exists = FALSE
  /\ charges = <<>>
  /\ abandoned = {}
  /\ req = [r \in Requests |-> IdleFrame]

-----------------------------------------------------------------------------
(* Steps shared by the three operations                                    *)

\* Where an operation goes once it holds its wallet: only a top-up is paid
\* for at a gateway first.
AfterWallet(type) == IF type = "TOP_UP" THEN "charge" ELSE "txRead"

Goto(r, pc) == req' = [req EXCEPT ![r].pc = pc]

\* Mutant: the slot keeps the operation's data.
FinishKeepsData(r) == Goto(r, "idle")

Finish(r) == req' = [req EXCEPT ![r] = IdleFrame]

\* Mutant: the gateway's transaction id is not stored with a top-up.
PendingRowNoCharge(r) ==
  LET f == req[r] IN
  [type   |-> f.type, amount |-> f.amount, before |-> f.seen,
   after  |-> IF f.type = "DEDUCTION" THEN f.seen - f.amount ELSE f.seen + f.amount,
   charge |-> 0]

\* Mutant: a refund is booked as a second deduction.
PendingRowRefundDebits(r) ==
  LET f == req[r] IN
  [type   |-> f.type, amount |-> f.amount, before |-> f.seen,
   after  |-> IF f.type = "TOP_UP" THEN f.seen + f.amount ELSE f.seen - f.amount,
   charge |-> f.charge]

\* The row that the open database transaction of r is about to write.
PendingRow(r) ==
  LET f == req[r] IN
  [type   |-> f.type, amount |-> f.amount, before |-> f.seen,
   after  |-> IF f.type = "DEDUCTION" THEN f.seen - f.amount ELSE f.seen + f.amount,
   charge |-> f.charge]

\* deductBalance's check of the wallet it was handed.
Affords(type, amount, known) == type = "DEDUCTION" => known >= amount

(* getOrCreateWallet's findUnique.  A deduction that the found balance does *)
(* not cover is refused on the spot and leaves nothing behind.              *)
FindWallet(r, type, amount) ==
  /\ req[r] = IdleFrame
  /\ exists => Affords(type, amount, balance)
  /\ req' = [req EXCEPT ![r] =
               [type |-> type, amount |-> amount, seen |-> 0, charge |-> 0,
                pc |-> IF exists THEN AfterWallet(type) ELSE "create"]]
  /\ UNCHANGED <<balance, rows, exists, charges, abandoned>>

(* getOrCreateWallet's create.  When another request created the row first, *)
(* the unique index on userId refuses this one: that is Fail(r).  A fresh   *)
(* wallet holds nothing, so a deduction is refused after creating it.       *)
CreateWallet(r) ==
  /\ req[r].pc = "create"
  /\ ~exists
  /\ exists' = TRUE
  /\ IF Affords(req[r].type, req[r].amount, 0)
     THEN Goto(r, AfterWallet(req[r].type))
     ELSE Finish(r)
  /\ UNCHANGED <<balance, rows, charges, abandoned>>

\* Mutant: only the balance found outside the transaction is checked.
TxReadUnchecked(r) ==
  /\ req[r].pc = "txRead"
  /\ req' = [req EXCEPT ![r].seen = balance, ![r].pc = "txCommit"]
  /\ UNCHANGED <<balance, rows, exists, charges, abandoned>>

\* Mutant: the read sees what another open transaction is about to write.
TxReadDirty(r) ==
  /\ req[r].pc = "txRead"
  /\ \E dirty \in {balance} \cup {PendingRow(o).after : o \in
                                   {o \in Requests : req[o].pc = "txCommit"}} :
       /\ Affords(req[r].type, req[r].amount, dirty)
       /\ req' = [req EXCEPT ![r].seen = dirty, ![r].pc = "txCommit"]
  /\ UNCHANGED <<balance, rows, exists, charges, abandoned>>

(* $transaction: findUnique.  deductBalance checks the balance again here.  *)
TxRead(r) ==
  /\ req[r].pc = "txRead"
  /\ Affords(req[r].type, req[r].amount, balance)
  /\ req' = [req EXCEPT ![r].seen = balance, ![r].pc = "txCommit"]
  /\ UNCHANGED <<balance, rows, exists, charges, abandoned>>

\* Mutant: the column is moved by a relative update, the row by the stale read.
TxCommitIncrement(r) ==
  /\ req[r].pc = "txCommit"
  /\ PendingRow(r).after <= MaxInt
  /\ Len(rows) < MaxRows
  /\ balance' = balance + PendingRow(r).after - PendingRow(r).before
  /\ rows' = Append(rows, PendingRow(r))
  /\ Finish(r)
  /\ UNCHANGED <<exists, charges, abandoned>>

\* Mutant: the row is written, the balance is not.
TxCommitRowOnly(r) ==
  /\ req[r].pc = "txCommit"
  /\ Len(rows) < MaxRows
  /\ rows' = Append(rows, PendingRow(r))
  /\ Finish(r)
  /\ UNCHANGED <<balance, exists, charges, abandoned>>

(* $transaction: update to an absolute value, insert, commit.  A balance    *)
(* that does not fit the column is refused by the database: Fail(r).        *)
TxCommit(r) ==
  /\ req[r].pc = "txCommit"
  /\ PendingRow(r).after <= MaxInt
  /\ Len(rows) < MaxRows
  /\ balance' = PendingRow(r).after
  /\ rows' = Append(rows, PendingRow(r))
  /\ Finish(r)
  /\ UNCHANGED <<exists, charges, abandoned>>

(* Any await may throw or never come back: a declined or unreachable        *)
(* gateway, a lost answer, a refused write, the death of the process.       *)
(* Nothing is undone.                                                       *)
Fail(r) ==
  /\ req[r] # IdleFrame
  /\ Finish(r)
  /\ abandoned' = IF req[r].charge = 0 THEN abandoned
                  ELSE abandoned \cup {req[r].charge}
  /\ UNCHANGED <<balance, rows, exists, charges>>

-----------------------------------------------------------------------------
(* topUp's payment                                                         *)

OpenCharge(r, state, pc) ==
  /\ req[r].pc = "charge"
  /\ Len(charges) < MaxCharges
  /\ charges' = Append(charges, [amount |-> req[r].amount, state |-> state])
  /\ req' = [req EXCEPT ![r].charge = Len(charges) + 1, ![r].pc = pc]
  /\ UNCHANGED <<balance, rows, exists, abandoned>>

\* Mutant: the held money is never captured.
ArcaPreAuthorizeOnly(r) == OpenCharge(r, "HELD", "txRead")

\* ArCa holds the money, and takes it in a second call.
ArcaPreAuthorize(r) == OpenCharge(r, "HELD", "capture")

ArcaCapture(r) ==
  /\ req[r].pc = "capture"
  /\ charges' = [charges EXCEPT ![req[r].charge].state = "CAPTURED"]
  /\ Goto(r, "txRead")
  /\ UNCHANGED <<balance, rows, exists, abandoned>>

\* Idram takes the money at once.
IdramDebit(r) == OpenCharge(r, "CAPTURED", "txRead")

-----------------------------------------------------------------------------

Step(r) ==
  \/ CreateWallet(r)
  \/ ArcaPreAuthorize(r)
  \/ ArcaCapture(r)
  \/ IdramDebit(r)
  \/ TxRead(r)
  \/ TxCommit(r)
  \/ Fail(r)

Next ==
  \E r \in Requests :
    \/ \E type \in Operations, amount \in Amounts : FindWallet(r, type, amount)
    \/ Step(r)

Spec == Init /\ [][Next]_vars

-----------------------------------------------------------------------------
(* Properties                                                              *)

\* The balance after the first n rows.
BalanceAfter(n) == IF n = 0 THEN 0 ELSE rows[n].after

(* The stored balance never goes below zero and never leaves its column,   *)
(* although deductions race with each other between the check outside the  *)
(* transaction, the check inside it and the commit.                        *)
BalanceInRange == balance \in 0..MaxInt

(* The balance column and the history never part: wallets.balance is the   *)
(* balanceAfter of the newest row, whatever requests died on the way.      *)
BalanceIsLastAfter == balance = BalanceAfter(Len(rows))

(* Every row starts from a balance that was once committed (READ COMMITTED *)
(* never shows another transaction's unfinished write), though under races *)
(* not from the newest one.                                                *)
StartsFromCommitted ==
  \A i \in 1..Len(rows) : \E n \in 0..(i - 1) : rows[i].before = BalanceAfter(n)

(* The history accounts for the balance: its newest row ends with it, and   *)
(* every row starts from what an earlier one ended with, or from nothing.   *)
HistoryExplainsBalance == BalanceIsLastAfter /\ StartsFromCommitted

(* No money from nothing: a top-up row stands for a captured gateway charge *)
(* of the same amount, and no two rows stand for the same charge.           *)
CreditsArePaid ==
  \A i \in 1..Len(rows) : rows[i].type = "TOP_UP" =>
    /\ rows[i].charge \in 1..Len(charges)
    /\ charges[rows[i].charge] = [amount |-> rows[i].amount, state |-> "CAPTURED"]
    /\ \A j \in 1..Len(rows) : rows[j].charge = rows[i].charge => j = i

(* No charge is forgotten by an interleaving: each is on a row, or with a  *)
(* request that is still running, or was abandoned by a request that died  *)
(* between the gateway and the commit.                                     *)
ChargesAccounted ==
  \A c \in 1..Len(charges) :
    \/ \E i \in 1..Len(rows) : rows[i].charge = c
    \/ \E r \in Requests : req[r].charge = c
    \/ c \in abandoned

(* "Ensures atomic balance updates with transaction history tracking": each *)
(* row starts where the previous one ended.  Two transactions that read the *)
(* same balance break it: one of the two moves is lost.                     *)
ChainUnbroken ==
  \A i \in 1..Len(rows) : rows[i].before = BalanceAfter(i - 1)

\* The promise of the class comment as a specification of its own.
Ledger == INSTANCE WalletLedger WITH ChargeIds <- 0..MaxCharges

(* When requests come one at a time the service implements the ledger that  *)
(* its comment promises, crashes, refusals and lost answers included.       *)
ImplementsLedger == Ledger!Spec

=============================================================================
