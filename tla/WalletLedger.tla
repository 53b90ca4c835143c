---------------------------- MODULE WalletLedger ----------------------------
(***************************************************************************)
(* What the wallet promises: "atomic balance updates with transaction      *)
(* history tracking" (wallet.service.ts, class comment).  A top-up, a      *)
(* deduction or a refund is one indivisible step that moves the balance    *)
(* and writes the row that explains the move.  Everything the service does *)
(* on the way there (reads, gateway calls, failures) is a stutter here.    *)
(***************************************************************************)
EXTENDS Integers, Sequences

CONSTANTS
  Amounts,   \* what one operation may move, in AMD
  MaxInt,    \* largest value of the wallets.balance column
  ChargeIds  \* numbers the gateways give to the charges behind top-ups

VARIABLES
  balance,   \* wallets.balance
  rows       \* wallet_transactions, in commit order

Post(type, change, amount, charge) ==
  /\ balance + change \in 0..MaxInt
  /\ balance' = balance + change
  /\ rows' = Append(rows, [type   |-> type,    amount |-> amount,
                           before |-> balance, after  |-> balance',
                           charge |-> charge])

TopUp(amount, charge) == Post("TOP_UP", amount, amount, charge)
Deduct(amount) == Post("DEDUCTION", -amount, amount, 0)
Refund(amount) == Post("REFUND", amount, amount, 0)

Init ==
  /\ balance = 0
  /\ rows = <<>>

Next ==
  \E amount \in Amounts :
    \/ \E charge \in ChargeIds : TopUp(amount, charge)
    \/ Deduct(amount)
    \/ Refund(amount)

Spec == Init /\ [][Next]_<<balance, rows>>

=============================================================================
