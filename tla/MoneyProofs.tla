----------------------------- MODULE MoneyProofs -----------------------------
(***************************************************************************)
(* Proofs about Wallet and about MCMoney, which extends it: what holds of  *)
(* a wallet under overlapping operations, what ChargingSessionProofs shows *)
(* of the sessions, and what holds of one call of a provider, in the       *)
(* behaviours that TLC examines together and for every value of the        *)
(* constants.                                                              *)
(***************************************************************************)
EXTENDS MCMoney, TLAPS

-----------------------------------------------------------------------------
(* The wallet                                                              *)

(* The fields of a running operation are numbers arithmetic applies to.     *)
LEMMA FrameFields ==
  ASSUME NEW f \in Frame
  PROVE  /\ f.type \in RowTypes
         /\ f.amount \in Amounts
         /\ f.amount \in Nat \ {0}
         /\ f.seen \in Int
         /\ f.charge \in Nat
BY AmountsAssumption DEF Frame

(* The row that TxCommit writes is a row.                                   *)
LEMMA PendingRowType ==
  ASSUME NEW r, req[r] \in Frame
  PROVE  /\ PendingRow(r) \in WalletRow
         /\ PendingRow(r).after \in Int
<1>1. /\ req[r].type \in RowTypes
      /\ req[r].amount \in Amounts
      /\ req[r].amount \in Nat \ {0}
      /\ req[r].seen \in Int
      /\ req[r].charge \in Nat
  BY FrameFields
<1>2. (IF req[r].type = "DEDUCTION" THEN req[r].seen - req[r].amount
       ELSE req[r].seen + req[r].amount) \in Int
  BY <1>1
<1> QED
  BY <1>1, <1>2 DEF PendingRow, WalletRow

(* What an action must show of its own slot to keep the types of all slots. *)
LEMMA SlotType ==
  ASSUME NEW r \in Requests, NEW f \in Frame \cup {IdleFrame}, TypeOK,
         req' = [req EXCEPT ![r] = f],
         Len(charges') \in Nat, Len(charges) <= Len(charges'),
         f.charge \in 0..Len(charges')
  PROVE  /\ req' \in [Requests -> Frame \cup {IdleFrame}]
         /\ \A o \in Requests : req'[o].charge \in 0..Len(charges')
<1>1. req' \in [Requests -> Frame \cup {IdleFrame}]
  BY DEF TypeOK
<1>2. ASSUME NEW o \in Requests PROVE req'[o].charge \in 0..Len(charges')
  <2>1. CASE o = r
    BY <2>1 DEF TypeOK
  <2>2. CASE o # r
    <3>1. req'[o] = req[o]
      BY <2>2 DEF TypeOK
    <3>2. req[o].charge \in 0..Len(charges) /\ Len(charges) \in Nat
      BY DEF TypeOK
    <3> QED BY <3>1, <3>2
  <2> QED BY <2>1, <2>2
<1> QED BY <1>1, <1>2

(* Types hold in every reachable state of wallet.service.ts: whatever       *)
(* overlaps or dies, a slot is either free or inside one of its operations. *)
LEMMA InitTypeOK == Init => TypeOK
<1> SUFFICES ASSUME Init PROVE TypeOK
  OBVIOUS
<1>1. rows \in Seq(WalletRow) /\ charges \in Seq(Charge)
  BY DEF Init
<1>2. balance \in Int /\ abandoned \subseteq 1..Len(charges)
  BY DEF Init
<1>3. exists \in BOOLEAN
  BY DEF Init
<1>4. /\ req \in [Requests -> Frame \cup {IdleFrame}]
      /\ \A r \in Requests : req[r].charge \in 0..Len(charges)
  BY DEF Init, IdleFrame
<1> QED
  BY <1>1, <1>2, <1>3, <1>4 DEF TypeOK

(* One step keeps the types: the step of the induction for TypeCorrect.     *)
LEMMA NextTypeOK == TypeOK /\ [Next]_vars => TypeOK'
<1> SUFFICES ASSUME TypeOK, [Next]_vars PROVE TypeOK'
  OBVIOUS
<1>t. /\ balance \in Int
      /\ rows \in Seq(WalletRow)
      /\ exists \in BOOLEAN
      /\ charges \in Seq(Charge) /\ Len(charges) \in Nat
      /\ abandoned \subseteq 1..Len(charges)
      /\ req \in [Requests -> Frame \cup {IdleFrame}]
      /\ \A r \in Requests : req[r].charge \in 0..Len(charges)
  BY DEF TypeOK
<1>i. IdleFrame.pc = "idle" /\ IdleFrame.charge = 0
  BY DEF IdleFrame
<1>1. ASSUME NEW r \in Requests, NEW type \in Operations, NEW amount \in Amounts,
             FindWallet(r, type, amount)
      PROVE  TypeOK'
  <2> DEFINE f == [type |-> type, amount |-> amount, seen |-> 0, charge |-> 0,
                   pc |-> IF exists THEN AfterWallet(type) ELSE "create"]
  <2>1. f \in Frame /\ f.charge = 0
    BY OperationsAssumption DEF Frame, RowTypes, AfterWallet
  <2>2. req' = [req EXCEPT ![r] = f] /\ UNCHANGED <<balance, rows, exists, charges, abandoned>>
    BY <1>1 DEF FindWallet
  <2> HIDE DEF f
  <2>3. /\ req' \in [Requests -> Frame \cup {IdleFrame}]
        /\ \A o \in Requests : req'[o].charge \in 0..Len(charges')
    BY <1>t, <2>1, <2>2, SlotType
  <2> QED BY <1>t, <2>2, <2>3 DEF TypeOK
<1>2. ASSUME NEW r \in Requests, CreateWallet(r) PROVE TypeOK'
  <2>1. req[r] \in Frame
    BY <1>t, <1>i, <1>2 DEF CreateWallet
  <2> DEFINE f == IF Affords(req[r].type, req[r].amount, 0)
                  THEN [req[r] EXCEPT !.pc = AfterWallet(req[r].type)] ELSE IdleFrame
  <2>2. [req[r] EXCEPT !.pc = AfterWallet(req[r].type)] \in Frame
        /\ [req[r] EXCEPT !.pc = AfterWallet(req[r].type)].charge = req[r].charge
    BY <2>1 DEF Frame, AfterWallet
  <2>3. f \in Frame \cup {IdleFrame} /\ f.charge \in 0..Len(charges)
    BY <1>t, <1>i, <2>2
  <2>4. req' = [req EXCEPT ![r] = f] /\ exists' = TRUE
        /\ UNCHANGED <<balance, rows, charges, abandoned>>
    BY <1>2 DEF CreateWallet, Goto, Finish
  <2> HIDE DEF f
  <2>5. /\ req' \in [Requests -> Frame \cup {IdleFrame}]
        /\ \A o \in Requests : req'[o].charge \in 0..Len(charges')
    BY <1>t, <2>3, <2>4, SlotType
  <2> QED BY <1>t, <2>4, <2>5 DEF TypeOK
<1>3. ASSUME NEW r \in Requests, NEW state \in {"HELD", "CAPTURED"},
             NEW pc \in {"capture", "txRead"}, OpenCharge(r, state, pc)
      PROVE  TypeOK'
  <2>1. req[r] \in Frame
    BY <1>t, <1>i, <1>3 DEF OpenCharge
  <2>2. [amount |-> req[r].amount, state |-> state] \in Charge
    BY <2>1, FrameFields DEF Charge
  <2>3. charges' \in Seq(Charge) /\ Len(charges') = Len(charges) + 1
    BY <1>t, <1>3, <2>2 DEF OpenCharge
  <2> DEFINE f == [req[r] EXCEPT !.charge = Len(charges) + 1, !.pc = pc]
  <2>4. Len(charges) + 1 \in Nat
    BY <1>t
  <2>5. f \in Frame /\ f.charge = Len(charges) + 1
    BY <2>1, <2>4 DEF Frame
  <2>6. req' = [req EXCEPT ![r] = f] /\ UNCHANGED <<balance, rows, exists, abandoned>>
    BY <1>3 DEF OpenCharge
  <2> HIDE DEF f
  <2>7. /\ req' \in [Requests -> Frame \cup {IdleFrame}]
        /\ \A o \in Requests : req'[o].charge \in 0..Len(charges')
    BY <1>t, <2>3, <2>4, <2>5, <2>6, SlotType
  <2>8. abandoned' \subseteq 1..Len(charges')
    BY <1>t, <2>3, <2>6
  <2> QED BY <1>t, <2>3, <2>6, <2>7, <2>8 DEF TypeOK
<1>4. ASSUME NEW r \in Requests, ArcaCapture(r) PROVE TypeOK'
  <2>1. req[r] \in Frame
    BY <1>t, <1>i, <1>4 DEF ArcaCapture
  <2> DEFINE f == [req[r] EXCEPT !.pc = "txRead"]
  <2>2. f \in Frame /\ f.charge = req[r].charge
    BY <2>1 DEF Frame
  <2>3. req' = [req EXCEPT ![r] = f] /\ UNCHANGED <<balance, rows, exists, abandoned>>
        /\ charges' = [charges EXCEPT ![req[r].charge].state = "CAPTURED"]
    BY <1>4 DEF ArcaCapture, Goto
  <2> HIDE DEF f
  <2>4. charges' \in Seq(Charge) /\ Len(charges') = Len(charges)
    <3> DEFINE c == req[r].charge
    <3>1. CASE c \in 1..Len(charges)
      <4>1. charges[c] \in Charge
        BY <1>t, <3>1
      <4>2. [charges[c] EXCEPT !.state = "CAPTURED"] \in Charge
        BY <4>1 DEF Charge
      <4>3. charges' = [charges EXCEPT ![c] = [charges[c] EXCEPT !.state = "CAPTURED"]]
        BY <2>3
      <4> HIDE DEF c
      <4> QED BY <1>t, <3>1, <4>2, <4>3
    <3>2. CASE c \notin 1..Len(charges)
      <4>1. charges' = charges
        BY <1>t, <2>3, <3>2
      <4> QED BY <1>t, <4>1
    <3> QED BY <3>1, <3>2
  <2>5. /\ req' \in [Requests -> Frame \cup {IdleFrame}]
        /\ \A o \in Requests : req'[o].charge \in 0..Len(charges')
    BY <1>t, <2>2, <2>3, <2>4, SlotType
  <2> QED BY <1>t, <2>3, <2>4, <2>5 DEF TypeOK
<1>5. ASSUME NEW r \in Requests, TxRead(r) PROVE TypeOK'
  <2>1. req[r] \in Frame
    BY <1>t, <1>i, <1>5 DEF TxRead
  <2> DEFINE f == [req[r] EXCEPT !.seen = balance, !.pc = "txCommit"]
  <2>2. f \in Frame /\ f.charge = req[r].charge
    BY <1>t, <2>1 DEF Frame
  <2>3. req' = [req EXCEPT ![r] = f] /\ UNCHANGED <<balance, rows, exists, charges, abandoned>>
    BY <1>5 DEF TxRead
  <2> HIDE DEF f
  <2>4. /\ req' \in [Requests -> Frame \cup {IdleFrame}]
        /\ \A o \in Requests : req'[o].charge \in 0..Len(charges')
    BY <1>t, <2>2, <2>3, SlotType
  <2> QED BY <1>t, <2>3, <2>4 DEF TypeOK
<1>6. ASSUME NEW r \in Requests, TxCommit(r) PROVE TypeOK'
  <2>1. req[r] \in Frame
    BY <1>t, <1>i, <1>6 DEF TxCommit
  <2>2. PendingRow(r) \in WalletRow /\ PendingRow(r).after \in Int
    BY <2>1, PendingRowType
  <2>3. /\ req' = [req EXCEPT ![r] = IdleFrame]
        /\ balance' = PendingRow(r).after
        /\ rows' = Append(rows, PendingRow(r))
        /\ UNCHANGED <<exists, charges, abandoned>>
    BY <1>6 DEF TxCommit, Finish
  <2>4. rows' \in Seq(WalletRow)
    BY <1>t, <2>2, <2>3
  <2>5. /\ req' \in [Requests -> Frame \cup {IdleFrame}]
        /\ \A o \in Requests : req'[o].charge \in 0..Len(charges')
    BY <1>t, <1>i, <2>3, SlotType
  <2> QED BY <1>t, <2>2, <2>3, <2>4, <2>5 DEF TypeOK
<1>7. ASSUME NEW r \in Requests, Fail(r) PROVE TypeOK'
  <2>1. /\ req' = [req EXCEPT ![r] = IdleFrame]
        /\ UNCHANGED <<balance, rows, exists, charges>>
        /\ abandoned' = IF req[r].charge = 0 THEN abandoned
                        ELSE abandoned \cup {req[r].charge}
    BY <1>7 DEF Fail, Finish
  <2>2. abandoned' \subseteq 1..Len(charges')
    <3>1. req[r].charge \in 0..Len(charges)
      BY <1>t
    <3>2. req[r].charge # 0 => req[r].charge \in 1..Len(charges)
      BY <1>t, <3>1
    <3>3. Len(charges') = Len(charges)
      BY <2>1
    <3> QED BY <1>t, <2>1, <3>2, <3>3
  <2>3. /\ req' \in [Requests -> Frame \cup {IdleFrame}]
        /\ \A o \in Requests : req'[o].charge \in 0..Len(charges')
    BY <1>t, <1>i, <2>1, SlotType
  <2> QED BY <1>t, <2>1, <2>2, <2>3 DEF TypeOK
<1>8. CASE UNCHANGED vars
  BY <1>t, <1>8 DEF vars, TypeOK
<1> QED
  BY <1>1, <1>2, <1>3, <1>4, <1>5, <1>6, <1>7, <1>8
  DEF Next, Step, ArcaPreAuthorize, IdramDebit

(* Whatever overlaps or dies in wallet.service.ts, a slot is either free or *)
(* inside one of its operations, and the charge it knows is one of the      *)
(* gateway's.                                                               *)
THEOREM TypeCorrect == Spec => []TypeOK
  BY InitTypeOK, NextTypeOK, PTL DEF Spec

-----------------------------------------------------------------------------
(* The balance and its history                                             *)

(* What a transaction between its read and its commit may rely on: it read  *)
(* a balance that was committed, not necessarily the newest, and one that   *)
(* covers the deduction.                                                    *)
ReadIsUsable(r) ==
  req[r].pc = "txCommit" =>
    /\ Affords(req[r].type, req[r].amount, req[r].seen)
    /\ \E n \in 0..Len(rows) : req[r].seen = BalanceAfter(n)

HistoryInv ==
  /\ BalanceIsLastAfter
  /\ StartsFromCommitted
  /\ \A n \in 0..Len(rows) : BalanceAfter(n) \in 0..MaxInt
  /\ \A r \in Requests : ReadIsUsable(r)

(* A step that leaves the tables alone and lets nobody enter a commit.      *)
LEMMA HistoryKept ==
  ASSUME HistoryInv, UNCHANGED <<balance, rows>>,
         \A o \in Requests : req'[o].pc = "txCommit" => req'[o] = req[o]
  PROVE  HistoryInv'
<1>1. \A n : BalanceAfter(n)' = BalanceAfter(n)
  BY DEF BalanceAfter
<1>2. BalanceIsLastAfter'
  BY <1>1 DEF HistoryInv, BalanceIsLastAfter
<1>3. StartsFromCommitted'
  BY <1>1 DEF HistoryInv, StartsFromCommitted
<1>4. \A n \in 0..Len(rows') : BalanceAfter(n)' \in 0..MaxInt
  BY <1>1 DEF HistoryInv
<1>5. ASSUME NEW o \in Requests PROVE ReadIsUsable(o)'
  BY <1>1 DEF HistoryInv, ReadIsUsable, Affords
<1> QED BY <1>2, <1>3, <1>4, <1>5 DEF HistoryInv

LEMMA InitHistory == Init => HistoryInv
<1> SUFFICES ASSUME Init PROVE HistoryInv
  OBVIOUS
<1>1. /\ balance = 0 /\ rows = <<>> /\ Len(rows) = 0
      /\ \A r \in Requests : req[r] = IdleFrame
  BY DEF Init
<1>2. BalanceAfter(0) = 0
  BY DEF BalanceAfter
<1>3. BalanceIsLastAfter
  BY <1>1, <1>2 DEF BalanceIsLastAfter
<1>4. StartsFromCommitted
  BY <1>1 DEF StartsFromCommitted
<1>5. \A n \in 0..Len(rows) : BalanceAfter(n) \in 0..MaxInt
  BY <1>1, <1>2, BoundsAssumption
<1>6. \A r \in Requests : ReadIsUsable(r)
  BY <1>1 DEF ReadIsUsable, IdleFrame
<1> QED BY <1>3, <1>4, <1>5, <1>6 DEF HistoryInv

(* The transaction's read: the one step that lets a request enter a commit. *)
LEMMA TxReadHistory ==
  ASSUME TypeOK, HistoryInv, NEW r \in Requests, TxRead(r)
  PROVE  HistoryInv'
<1>1. /\ rows \in Seq(WalletRow) /\ Len(rows) \in Nat
      /\ req \in [Requests -> Frame \cup {IdleFrame}]
  BY DEF TypeOK
<1>2. req[r] \in Frame
  BY <1>1 DEF TxRead, IdleFrame
<1>3. /\ UNCHANGED <<balance, rows>>
      /\ Affords(req[r].type, req[r].amount, balance)
  BY DEF TxRead
<1>4. /\ req'[r].type = req[r].type /\ req'[r].amount = req[r].amount
      /\ req'[r].seen = balance
  BY <1>1, <1>2 DEF TxRead, Frame
<1>5. \A n : BalanceAfter(n)' = BalanceAfter(n)
  BY <1>3 DEF BalanceAfter
<1>6. BalanceIsLastAfter'
  BY <1>3, <1>5 DEF HistoryInv, BalanceIsLastAfter
<1>7. StartsFromCommitted'
  BY <1>3, <1>5 DEF HistoryInv, StartsFromCommitted
<1>8. \A n \in 0..Len(rows') : BalanceAfter(n)' \in 0..MaxInt
  BY <1>3, <1>5 DEF HistoryInv
<1>9. ASSUME NEW o \in Requests PROVE ReadIsUsable(o)'
  <2>1. CASE o = r
    <3>1. balance = BalanceAfter(Len(rows)) /\ Len(rows) \in 0..Len(rows)
      BY <1>1 DEF HistoryInv, BalanceIsLastAfter
    <3>2. Affords(req'[o].type, req'[o].amount, req'[o].seen)
      BY <1>3, <1>4, <2>1
    <3>3. \E n \in 0..Len(rows') : req'[o].seen = BalanceAfter(n)'
      BY <1>3, <1>4, <1>5, <2>1, <3>1
    <3> QED BY <3>2, <3>3 DEF ReadIsUsable, Affords
  <2>2. CASE o # r
    <3>1. req'[o] = req[o]
      BY <1>1, <2>2 DEF TxRead
    <3> QED BY <1>3, <1>5, <3>1 DEF HistoryInv, ReadIsUsable, Affords
  <2> QED BY <2>1, <2>2
<1> QED BY <1>6, <1>7, <1>8, <1>9 DEF HistoryInv

(* The commit: the one step that extends the history.                       *)
LEMMA TxCommitHistory ==
  ASSUME TypeOK, HistoryInv, NEW r \in Requests, TxCommit(r)
  PROVE  HistoryInv'
<1> DEFINE row == PendingRow(r)
<1>1. /\ rows \in Seq(WalletRow) /\ Len(rows) \in Nat
      /\ req \in [Requests -> Frame \cup {IdleFrame}]
  BY DEF TypeOK
<1>2. req[r] \in Frame /\ req[r].pc = "txCommit"
  BY <1>1 DEF TxCommit, IdleFrame
<1>3. row \in WalletRow /\ row.after \in Int
  BY <1>2, PendingRowType
<1>4. /\ balance' = row.after /\ row.after <= MaxInt
      /\ rows' = Append(rows, row)
      /\ req' = [req EXCEPT ![r] = IdleFrame]
  BY DEF TxCommit, Finish
<1>5. /\ req[r].amount \in Nat \ {0} /\ req[r].seen \in Int
  BY <1>2, FrameFields
<1>6. /\ Affords(req[r].type, req[r].amount, req[r].seen)
      /\ \E n \in 0..Len(rows) : req[r].seen = BalanceAfter(n)
  BY <1>2 DEF HistoryInv, ReadIsUsable
<1>7. req[r].seen \in 0..MaxInt
  BY <1>6 DEF HistoryInv
<1>8. row.before = req[r].seen /\ row.after \in 0..MaxInt
  <2>1. row.before = req[r].seen
    BY DEF PendingRow
  <2>2. row.after = IF req[r].type = "DEDUCTION" THEN req[r].seen - req[r].amount
                    ELSE req[r].seen + req[r].amount
    BY DEF PendingRow
  <2>3. req[r].type = "DEDUCTION" => req[r].seen >= req[r].amount
    BY <1>6 DEF Affords
  <2>4. row.after >= 0
    BY <1>5, <1>7, <2>2, <2>3, BoundsAssumption
  <2> QED BY <1>3, <1>4, <2>1, <2>4, BoundsAssumption
<1> HIDE DEF row
<1>9. /\ Len(rows') = Len(rows) + 1
      /\ \A i \in 1..Len(rows) : rows'[i] = rows[i]
      /\ rows'[Len(rows) + 1] = row
  BY <1>1, <1>3, <1>4
<1>10. /\ \A n \in 0..Len(rows) : BalanceAfter(n)' = BalanceAfter(n)
       /\ \A n : n = Len(rows) + 1 => BalanceAfter(n)' = row.after
  BY <1>1, <1>9 DEF BalanceAfter
<1>11. BalanceIsLastAfter'
  BY <1>4, <1>9, <1>10 DEF BalanceIsLastAfter
<1>12. StartsFromCommitted'
  <2> SUFFICES ASSUME NEW i \in 1..Len(rows')
               PROVE  \E n \in 0..(i - 1) : rows'[i].before = BalanceAfter(n)'
    BY DEF StartsFromCommitted
  <2>1. CASE i \in 1..Len(rows)
    <3>1. PICK n \in 0..(i - 1) : rows[i].before = BalanceAfter(n)
      BY <2>1 DEF HistoryInv, StartsFromCommitted
    <3>2. n \in 0..Len(rows)
      BY <1>1, <2>1, <3>1
    <3> QED BY <1>9, <1>10, <2>1, <3>1, <3>2
  <2>2. CASE i = Len(rows) + 1
    <3>1. PICK n \in 0..Len(rows) : req[r].seen = BalanceAfter(n)
      BY <1>6
    <3>2. n \in 0..(i - 1)
      BY <1>1, <2>2, <3>1
    <3>3. rows'[i].before = BalanceAfter(n)'
      BY <1>8, <1>9, <1>10, <2>2, <3>1
    <3> QED BY <3>2, <3>3
  <2> QED BY <1>1, <1>9, <2>1, <2>2
<1>13. \A n \in 0..Len(rows') : BalanceAfter(n)' \in 0..MaxInt
  <2> SUFFICES ASSUME NEW n \in 0..Len(rows') PROVE BalanceAfter(n)' \in 0..MaxInt
    OBVIOUS
  <2>1. CASE n \in 0..Len(rows)
    BY <1>10, <2>1 DEF HistoryInv
  <2>2. CASE n = Len(rows) + 1
    BY <1>8, <1>10, <2>2
  <2> QED BY <1>1, <1>9, <2>1, <2>2
<1>14. ASSUME NEW o \in Requests PROVE ReadIsUsable(o)'
  <2>1. CASE o = r
    BY <1>1, <1>4, <2>1 DEF ReadIsUsable, IdleFrame
  <2>2. CASE o # r
    <3>1. req'[o] = req[o]
      BY <1>1, <1>4, <2>2
    <3>2. ASSUME req[o].pc = "txCommit"
          PROVE  \E n \in 0..Len(rows') : req[o].seen = BalanceAfter(n)'
      <4>1. PICK n \in 0..Len(rows) : req[o].seen = BalanceAfter(n)
        BY <3>2 DEF HistoryInv, ReadIsUsable
      <4>2. n \in 0..Len(rows')
        BY <1>1, <1>9
      <4> QED BY <1>10, <4>1, <4>2
    <3>3. req[o].pc = "txCommit" => Affords(req[o].type, req[o].amount, req[o].seen)
      BY DEF HistoryInv, ReadIsUsable
    <3> QED BY <3>1, <3>2, <3>3 DEF ReadIsUsable, Affords
  <2> QED BY <2>1, <2>2
<1> QED BY <1>11, <1>12, <1>13, <1>14 DEF HistoryInv

LEMMA NextHistory == TypeOK /\ HistoryInv /\ [Next]_vars => HistoryInv'
<1> SUFFICES ASSUME TypeOK, HistoryInv, [Next]_vars PROVE HistoryInv'
  OBVIOUS
<1>t. req \in [Requests -> Frame \cup {IdleFrame}]
  BY DEF TypeOK
<1>1. ASSUME NEW r \in Requests, NEW type \in Operations, NEW amount \in Amounts,
             FindWallet(r, type, amount)
      PROVE  HistoryInv'
  BY <1>1, <1>t, HistoryKept DEF FindWallet, AfterWallet
<1>2. ASSUME NEW r \in Requests, CreateWallet(r) PROVE HistoryInv'
  <2>1. req[r] \in Frame
    BY <1>2, <1>t DEF CreateWallet, IdleFrame
  <2>2. \A o \in Requests : req'[o].pc = "txCommit" => req'[o] = req[o]
    BY <1>2, <1>t, <2>1 DEF CreateWallet, Goto, Finish, AfterWallet, IdleFrame, Frame
  <2> QED BY <1>2, <2>2, HistoryKept DEF CreateWallet
<1>3. ASSUME NEW r \in Requests, NEW state \in {"HELD", "CAPTURED"},
             NEW pc \in {"capture", "txRead"}, OpenCharge(r, state, pc)
      PROVE  HistoryInv'
  <2>1. req[r] \in Frame
    BY <1>3, <1>t DEF OpenCharge, IdleFrame
  <2>2. \A o \in Requests : req'[o].pc = "txCommit" => req'[o] = req[o]
    BY <1>3, <1>t, <2>1 DEF OpenCharge, Frame
  <2> QED BY <1>3, <2>2, HistoryKept DEF OpenCharge
<1>4. ASSUME NEW r \in Requests, ArcaCapture(r) PROVE HistoryInv'
  <2>1. req[r] \in Frame
    BY <1>4, <1>t DEF ArcaCapture, IdleFrame
  <2>2. \A o \in Requests : req'[o].pc = "txCommit" => req'[o] = req[o]
    BY <1>4, <1>t, <2>1 DEF ArcaCapture, Goto, Frame
  <2> QED BY <1>4, <2>2, HistoryKept DEF ArcaCapture
<1>5. ASSUME NEW r \in Requests, TxRead(r) PROVE HistoryInv'
  BY <1>5, TxReadHistory
<1>6. ASSUME NEW r \in Requests, TxCommit(r) PROVE HistoryInv'
  BY <1>6, TxCommitHistory
<1>7. ASSUME NEW r \in Requests, Fail(r) PROVE HistoryInv'
  BY <1>7, <1>t, HistoryKept DEF Fail, Finish, IdleFrame
<1>8. CASE UNCHANGED vars
  BY <1>8, HistoryKept DEF vars
<1> QED
  BY <1>1, <1>2, <1>3, <1>4, <1>5, <1>6, <1>7, <1>8
  DEF Next, Step, ArcaPreAuthorize, IdramDebit

LEMMA HistoryCorrect == Spec => []HistoryInv
  BY InitTypeOK, NextTypeOK, InitHistory, NextHistory, PTL DEF Spec

(* The balance column always equals the newest row's balanceAfter: topUp,   *)
(* deductBalance and refundBalance write the two in one transaction.        *)
THEOREM BalanceFollowsHistory == Spec => []BalanceIsLastAfter
<1>1. HistoryInv => BalanceIsLastAfter
  BY DEF HistoryInv
<1> QED BY <1>1, HistoryCorrect, PTL

(* No race between the two balance checks of deductBalance and its commit,  *)
(* nor between any other operations, takes the balance below zero.          *)
THEOREM NeverOverdrawn == Spec => []BalanceInRange
<1>1. TypeOK /\ HistoryInv => BalanceInRange
  <2> SUFFICES ASSUME TypeOK, HistoryInv PROVE BalanceInRange
    OBVIOUS
  <2>1. Len(rows) \in 0..Len(rows)
    BY DEF TypeOK
  <2> QED BY <2>1 DEF HistoryInv, BalanceIsLastAfter, BalanceInRange
<1> QED BY <1>1, TypeCorrect, HistoryCorrect, PTL

(* Every row's balanceBefore is a balance that was committed before it.     *)
THEOREM ReadsAreCommitted == Spec => []StartsFromCommitted
<1>1. HistoryInv => StartsFromCommitted
  BY DEF HistoryInv
<1> QED BY <1>1, HistoryCorrect, PTL

(* The balance and every step to it are in the history, whatever overlaps.  *)
THEOREM HistoryIsComplete == Spec => []HistoryExplainsBalance
<1>1. BalanceIsLastAfter /\ StartsFromCommitted => HistoryExplainsBalance
  BY DEF HistoryExplainsBalance
<1> QED BY <1>1, BalanceFollowsHistory, ReadsAreCommitted, PTL

-----------------------------------------------------------------------------
(* The gateways' books                                                     *)

\* A request knows a charge exactly while it is a top-up past its payment.
FrameBooks(r) ==
  /\ req[r].pc \in {"charge", "capture"} => req[r].type = "TOP_UP"
  /\ req[r].type = "TOP_UP" /\ req[r].pc \in {"capture", "txRead", "txCommit"}
       => req[r].charge # 0
  /\ req[r].charge # 0 =>
       /\ req[r].type = "TOP_UP" /\ req[r].pc \in {"capture", "txRead", "txCommit"}
       /\ charges[req[r].charge].amount = req[r].amount
       /\ charges[req[r].charge].state
            = IF req[r].pc = "capture" THEN "HELD" ELSE "CAPTURED"

\* No two slots work for one charge, and no row stands for it yet.
SoleHolder(r) ==
  req[r].charge # 0 =>
    /\ \A o \in Requests : req[o].charge = req[r].charge => o = r
    /\ \A i \in 1..Len(rows) : rows[i].charge # req[r].charge

RowBooks(i) ==
  /\ rows[i].charge \in 0..Len(charges)
  /\ rows[i].type = "TOP_UP" => rows[i].charge # 0
  /\ rows[i].charge # 0 =>
       /\ charges[rows[i].charge].amount = rows[i].amount
       /\ charges[rows[i].charge].state = "CAPTURED"
       /\ \A j \in 1..Len(rows) : rows[j].charge = rows[i].charge => j = i

BooksInv ==
  /\ \A r \in Requests : FrameBooks(r)
  /\ \A r \in Requests : SoleHolder(r)
  /\ \A i \in 1..Len(rows) : RowBooks(i)
  /\ ChargesAccounted

LEMMA InitBooks == Init => BooksInv
<1> SUFFICES ASSUME Init PROVE BooksInv
  OBVIOUS
<1>1. /\ rows = <<>> /\ Len(rows) = 0 /\ charges = <<>> /\ Len(charges) = 0
      /\ \A r \in Requests : req[r] = IdleFrame
  BY DEF Init
<1>i. IdleFrame.charge = 0 /\ IdleFrame.pc = "idle"
  BY DEF IdleFrame
<1>2. ASSUME NEW r \in Requests PROVE FrameBooks(r) /\ SoleHolder(r)
  <2>1. req[r].charge = 0 /\ req[r].pc = "idle"
    BY <1>1, <1>i
  <2>2. FrameBooks(r)
    BY <2>1 DEF FrameBooks
  <2>3. SoleHolder(r)
    BY <2>1 DEF SoleHolder
  <2> QED BY <2>2, <2>3
<1>3. \A i \in 1..Len(rows) : RowBooks(i)
  BY <1>1
<1>4. ChargesAccounted
  BY <1>1 DEF ChargesAccounted
<1> QED BY <1>2, <1>3, <1>4 DEF BooksInv

(* A step that moves no charge between the gateway, the slots and the rows. *)
LEMMA BooksKept ==
  ASSUME BooksInv, UNCHANGED <<rows, charges, abandoned>>,
         \A o \in Requests : req'[o].charge = req[o].charge,
         \A o \in Requests : FrameBooks(o)'
  PROVE  BooksInv'
<1>1. \A o \in Requests : SoleHolder(o)'
  BY DEF BooksInv, SoleHolder
<1>2. \A i \in 1..Len(rows') : RowBooks(i)'
  BY DEF BooksInv, RowBooks
<1>3. ChargesAccounted'
  BY DEF BooksInv, ChargesAccounted
<1> QED BY <1>1, <1>2, <1>3 DEF BooksInv

(* The gateway opens a charge: its number is new to all slots and rows.     *)
LEMMA OpenChargeBooks ==
  ASSUME TypeOK, BooksInv, NEW r \in Requests,
         NEW state, NEW pc,
         \/ state = "HELD" /\ pc = "capture"
         \/ state = "CAPTURED" /\ pc = "txRead",
         OpenCharge(r, state, pc)
  PROVE  BooksInv'
<1> DEFINE new == Len(charges) + 1
<1>1. /\ charges \in Seq(Charge) /\ Len(charges) \in Nat
      /\ rows \in Seq(WalletRow) /\ Len(rows) \in Nat
      /\ req \in [Requests -> Frame \cup {IdleFrame}]
      /\ \A o \in Requests : req[o].charge \in 0..Len(charges)
  BY DEF TypeOK
<1>2. req[r] \in Frame
  BY <1>1 DEF OpenCharge, IdleFrame
<1>3. /\ req'[r].type = req[r].type /\ req'[r].amount = req[r].amount
      /\ req'[r].charge = new /\ req'[r].pc = pc
      /\ \A o \in Requests \ {r} : req'[o] = req[o]
  BY <1>1, <1>2 DEF OpenCharge, Frame
<1>4. req[r].charge = 0 /\ req[r].type = "TOP_UP"
  BY DEF OpenCharge, BooksInv, FrameBooks
<1>5. /\ charges' = Append(charges, [amount |-> req[r].amount, state |-> state])
      /\ UNCHANGED <<rows, abandoned>>
  BY DEF OpenCharge
<1>6. /\ Len(charges') = new
      /\ \A c \in 1..Len(charges) : charges'[c] = charges[c]
      /\ charges'[new] = [amount |-> req[r].amount, state |-> state]
  BY <1>1, <1>5
<1>7. \A i \in 1..Len(rows) : rows[i].charge \in 0..Len(charges)
  BY DEF BooksInv, RowBooks
<1>8. ASSUME NEW o \in Requests PROVE FrameBooks(o)' /\ SoleHolder(o)'
  <2>1. CASE o = r
    <3>1. FrameBooks(o)'
      BY <1>1, <1>3, <1>4, <1>6, <2>1 DEF FrameBooks
    <3>2. SoleHolder(o)'
      BY <1>1, <1>3, <1>5, <1>7, <2>1 DEF SoleHolder
    <3> QED BY <3>1, <3>2
  <2>2. CASE o # r
    <3>1. FrameBooks(o)'
      BY <1>1, <1>3, <1>6, <2>2 DEF BooksInv, FrameBooks
    <3>2. req[o].charge # new
      BY <1>1
    <3>3. \A q \in Requests : req[o].charge # 0 /\ req'[q].charge = req[o].charge => q = o
      BY <1>3, <2>2, <3>2 DEF BooksInv, SoleHolder
    <3>4. SoleHolder(o)'
      BY <1>3, <1>5, <2>2, <3>3 DEF BooksInv, SoleHolder
    <3> QED BY <3>1, <3>4
  <2> QED BY <2>1, <2>2
<1>9. ASSUME NEW i \in 1..Len(rows') PROVE RowBooks(i)'
  BY <1>1, <1>5, <1>6 DEF BooksInv, RowBooks
<1>10. ChargesAccounted'
  <2> SUFFICES ASSUME NEW c \in 1..Len(charges')
               PROVE  \/ \E i \in 1..Len(rows') : rows'[i].charge = c
                      \/ \E o \in Requests : req'[o].charge = c
                      \/ c \in abandoned'
    BY DEF ChargesAccounted
  <2>1. CASE c = new
    BY <1>3, <2>1
  <2>2. CASE c \in 1..Len(charges)
    <3>1. \/ \E i \in 1..Len(rows) : rows[i].charge = c
          \/ \E o \in Requests \ {r} : req[o].charge = c
          \/ c \in abandoned
      BY <1>4, <2>2 DEF BooksInv, ChargesAccounted
    <3> QED BY <1>3, <1>5, <3>1
  <2> QED BY <1>1, <1>6, <2>1, <2>2
<1> QED BY <1>8, <1>9, <1>10 DEF BooksInv

(* The capture changes the one charge its slot is the sole holder of.       *)
LEMMA ArcaCaptureBooks ==
  ASSUME TypeOK, BooksInv, NEW r \in Requests, ArcaCapture(r)
  PROVE  BooksInv'
<1> DEFINE c == req[r].charge
<1>1. /\ charges \in Seq(Charge) /\ Len(charges) \in Nat
      /\ rows \in Seq(WalletRow) /\ Len(rows) \in Nat
      /\ req \in [Requests -> Frame \cup {IdleFrame}]
      /\ \A o \in Requests : req[o].charge \in 0..Len(charges)
  BY DEF TypeOK
<1>2. req[r] \in Frame /\ req[r].pc = "capture"
  BY <1>1 DEF ArcaCapture, IdleFrame
<1>3. /\ req'[r].type = req[r].type /\ req'[r].amount = req[r].amount
      /\ req'[r].charge = req[r].charge /\ req'[r].pc = "txRead"
      /\ \A o \in Requests \ {r} : req'[o] = req[o]
  BY <1>1, <1>2 DEF ArcaCapture, Goto, Frame
<1>4. /\ req[r].type = "TOP_UP" /\ c # 0 /\ c \in 1..Len(charges)
      /\ charges[c].amount = req[r].amount
  BY <1>1, <1>2 DEF BooksInv, FrameBooks
<1>5. /\ charges' = [charges EXCEPT ![c] = [charges[c] EXCEPT !.state = "CAPTURED"]]
      /\ UNCHANGED <<rows, abandoned>>
  BY DEF ArcaCapture
<1> HIDE DEF c
<1>6. /\ [charges[c] EXCEPT !.state = "CAPTURED"].amount = req[r].amount
      /\ [charges[c] EXCEPT !.state = "CAPTURED"].state = "CAPTURED"
  <2>1. charges[c] \in Charge
    BY <1>1, <1>4
  <2> QED BY <1>4, <2>1 DEF Charge
<1>7. /\ Len(charges') = Len(charges)
      /\ charges'[c].amount = req[r].amount /\ charges'[c].state = "CAPTURED"
      /\ \A d \in 1..Len(charges) : d # c => charges'[d] = charges[d]
  BY <1>1, <1>4, <1>5, <1>6
<1>8. /\ \A o \in Requests : req[o].charge = c => o = r
      /\ \A i \in 1..Len(rows) : rows[i].charge # c
  BY <1>4 DEF BooksInv, SoleHolder, c
<1>9. ASSUME NEW o \in Requests PROVE FrameBooks(o)'
  <2>1. CASE o = r
    BY <1>3, <1>4, <1>7, <2>1 DEF FrameBooks, c
  <2>2. CASE o # r
    BY <1>1, <1>3, <1>7, <1>8, <2>2 DEF BooksInv, FrameBooks
  <2> QED BY <2>1, <2>2
<1>10. ASSUME NEW o \in Requests PROVE SoleHolder(o)'
  BY <1>3, <1>5 DEF BooksInv, SoleHolder
<1>11. ASSUME NEW i \in 1..Len(rows') PROVE RowBooks(i)'
  BY <1>1, <1>5, <1>7, <1>8 DEF BooksInv, RowBooks
<1>12. ChargesAccounted'
  BY <1>3, <1>5, <1>7 DEF BooksInv, ChargesAccounted
<1> QED BY <1>9, <1>10, <1>11, <1>12 DEF BooksInv

(* The commit hands the slot's charge over to the new row.                  *)
LEMMA TxCommitBooks ==
  ASSUME TypeOK, BooksInv, NEW r \in Requests, TxCommit(r)
  PROVE  BooksInv'
<1> DEFINE row == PendingRow(r)
<1>1. /\ charges \in Seq(Charge) /\ Len(charges) \in Nat
      /\ rows \in Seq(WalletRow) /\ Len(rows) \in Nat
      /\ req \in [Requests -> Frame \cup {IdleFrame}]
      /\ \A o \in Requests : req[o].charge \in 0..Len(charges)
  BY DEF TypeOK
<1>2. req[r] \in Frame /\ req[r].pc = "txCommit"
  BY <1>1 DEF TxCommit, IdleFrame
<1>3. /\ row \in WalletRow
      /\ row.type = req[r].type /\ row.amount = req[r].amount
      /\ row.charge = req[r].charge
  BY <1>2, PendingRowType DEF PendingRow
<1>4. /\ rows' = Append(rows, row)
      /\ req' = [req EXCEPT ![r] = IdleFrame]
      /\ UNCHANGED <<charges, abandoned>>
  BY DEF TxCommit, Finish
<1> HIDE DEF row
<1>5. /\ Len(rows') = Len(rows) + 1
      /\ \A i \in 1..Len(rows) : rows'[i] = rows[i]
      /\ rows'[Len(rows) + 1] = row
  BY <1>1, <1>3, <1>4
<1>6. /\ req'[r].charge = 0 /\ req'[r].pc = "idle"
      /\ \A o \in Requests \ {r} : req'[o] = req[o]
  BY <1>1, <1>4 DEF IdleFrame
<1>7. /\ row.type = "TOP_UP" => row.charge # 0
      /\ row.charge # 0 => /\ charges[row.charge].amount = row.amount
                           /\ charges[row.charge].state = "CAPTURED"
  BY <1>2, <1>3 DEF BooksInv, FrameBooks
<1>8. row.charge # 0 => /\ \A o \in Requests \ {r} : req[o].charge # row.charge
                        /\ \A i \in 1..Len(rows) : rows[i].charge # row.charge
  BY <1>3 DEF BooksInv, SoleHolder
<1>9. ASSUME NEW o \in Requests PROVE FrameBooks(o)'
  <2>1. CASE o = r
    BY <1>6, <2>1 DEF FrameBooks
  <2>2. CASE o # r
    BY <1>4, <1>6, <2>2 DEF BooksInv, FrameBooks
  <2> QED BY <2>1, <2>2
<1>10. ASSUME NEW o \in Requests PROVE SoleHolder(o)'
  <2>1. CASE o = r
    BY <1>6, <2>1 DEF SoleHolder
  <2>2. CASE o # r
    <3> SUFFICES ASSUME req[o].charge # 0
                 PROVE  /\ \A q \in Requests : req'[q].charge = req[o].charge => q = o
                        /\ \A i \in 1..Len(rows') : rows'[i].charge # req[o].charge
      BY <1>6, <2>2 DEF SoleHolder
    <3>1. \A q \in Requests : req'[q].charge = req[o].charge => q = o
      BY <1>6 DEF BooksInv, SoleHolder
    <3>2. \A i \in 1..Len(rows) : rows'[i].charge # req[o].charge
      BY <1>5 DEF BooksInv, SoleHolder
    <3>3. row.charge # req[o].charge
      BY <1>8, <2>2
    <3> QED BY <1>1, <1>5, <3>1, <3>2, <3>3
  <2> QED BY <2>1, <2>2
<1>11. ASSUME NEW i \in 1..Len(rows') PROVE RowBooks(i)'
  <2>1. CASE i \in 1..Len(rows)
    <3>1. RowBooks(i)
      BY <2>1 DEF BooksInv
    <3>2. ASSUME NEW j \in 1..Len(rows'),
                 rows[i].charge # 0, rows'[j].charge = rows[i].charge
          PROVE  j = i
      <4>1. CASE j \in 1..Len(rows)
        BY <1>5, <3>1, <3>2, <4>1 DEF RowBooks
      <4>2. CASE j = Len(rows) + 1
        <5>1. row.charge = rows[i].charge
          BY <1>5, <3>2, <4>2
        <5> QED BY <1>8, <2>1, <3>2, <5>1
      <4> QED BY <1>1, <1>5, <4>1, <4>2
    <3> QED BY <1>4, <1>5, <2>1, <3>1, <3>2 DEF RowBooks
  <2>2. CASE i = Len(rows) + 1
    <3>1. rows'[i] = row /\ row.charge \in 0..Len(charges')
      BY <1>1, <1>3, <1>4, <1>5, <2>2
    <3>2. \A j \in 1..Len(rows') : row.charge # 0 /\ rows'[j].charge = row.charge => j = i
      BY <1>1, <1>5, <1>8, <2>2
    <3> QED BY <1>4, <1>7, <3>1, <3>2 DEF RowBooks
  <2> QED BY <1>1, <1>5, <2>1, <2>2
<1>12. ChargesAccounted'
  <2> SUFFICES ASSUME NEW c \in 1..Len(charges)
               PROVE  \/ \E i \in 1..Len(rows') : rows'[i].charge = c
                      \/ \E o \in Requests : req'[o].charge = c
                      \/ c \in abandoned'
    BY <1>4 DEF ChargesAccounted
  <2>1. CASE c = row.charge
    <3>1. Len(rows) + 1 \in 1..Len(rows')
      BY <1>1, <1>5
    <3> QED BY <1>5, <2>1, <3>1
  <2>2. CASE c # row.charge
    <3>1. \/ \E i \in 1..Len(rows) : rows[i].charge = c
          \/ \E o \in Requests \ {r} : req[o].charge = c
          \/ c \in abandoned
      BY <1>3, <2>2 DEF BooksInv, ChargesAccounted
    <3>2. 1..Len(rows) \subseteq 1..Len(rows')
      BY <1>1, <1>5
    <3> QED BY <1>4, <1>5, <1>6, <3>1, <3>2
  <2> QED BY <2>1, <2>2
<1> QED BY <1>9, <1>10, <1>11, <1>12 DEF BooksInv

(* A request that dies leaves its charge to the abandoned ones.             *)
LEMMA FailBooks ==
  ASSUME TypeOK, BooksInv, NEW r \in Requests, Fail(r)
  PROVE  BooksInv'
<1>1. req \in [Requests -> Frame \cup {IdleFrame}]
  BY DEF TypeOK
<1>2. /\ req'[r].charge = 0 /\ req'[r].pc = "idle"
      /\ \A o \in Requests \ {r} : req'[o] = req[o]
  BY <1>1 DEF Fail, Finish, IdleFrame
<1>3. /\ UNCHANGED <<rows, charges>>
      /\ abandoned \subseteq abandoned'
      /\ req[r].charge # 0 => req[r].charge \in abandoned'
  BY DEF Fail
<1>4. ASSUME NEW o \in Requests PROVE FrameBooks(o)'
  BY <1>2, <1>3 DEF BooksInv, FrameBooks
<1>5. ASSUME NEW o \in Requests PROVE SoleHolder(o)'
  BY <1>2, <1>3 DEF BooksInv, SoleHolder
<1>6. ASSUME NEW i \in 1..Len(rows') PROVE RowBooks(i)'
  BY <1>3 DEF BooksInv, RowBooks
<1>7. ChargesAccounted'
  <2> SUFFICES ASSUME NEW c \in 1..Len(charges)
               PROVE  \/ \E i \in 1..Len(rows') : rows'[i].charge = c
                      \/ \E o \in Requests : req'[o].charge = c
                      \/ c \in abandoned'
    BY <1>3 DEF ChargesAccounted
  <2>1. c # 0
    OBVIOUS
  <2>2. \/ \E i \in 1..Len(rows) : rows[i].charge = c
        \/ \E o \in Requests : req[o].charge = c
        \/ c \in abandoned
    BY DEF BooksInv, ChargesAccounted
  <2> QED BY <1>2, <1>3, <2>1, <2>2
<1> QED BY <1>4, <1>5, <1>6, <1>7 DEF BooksInv

LEMMA NextBooks == TypeOK /\ BooksInv /\ [Next]_vars => BooksInv'
<1> SUFFICES ASSUME TypeOK, BooksInv, [Next]_vars PROVE BooksInv'
  OBVIOUS
<1>t. req \in [Requests -> Frame \cup {IdleFrame}]
  BY DEF TypeOK
<1>b. \A o \in Requests : FrameBooks(o)
  BY DEF BooksInv
<1>1. ASSUME NEW r \in Requests, NEW type \in Operations, NEW amount \in Amounts,
             FindWallet(r, type, amount)
      PROVE  BooksInv'
  <2>1. /\ req[r].charge = 0
        /\ req'[r].charge = 0 /\ req'[r].pc \in {"create", "charge", "txRead"}
        /\ req'[r].pc = "charge" => req'[r].type = "TOP_UP"
        /\ req'[r].pc = "txRead" => req'[r].type # "TOP_UP"
        /\ \A o \in Requests \ {r} : req'[o] = req[o]
    BY <1>t, <1>1 DEF FindWallet, AfterWallet, IdleFrame
  <2>2. UNCHANGED <<rows, charges, abandoned>>
    BY <1>1 DEF FindWallet
  <2>3. \A o \in Requests : FrameBooks(o)'
    BY <1>b, <2>1, <2>2 DEF FrameBooks
  <2> QED BY <2>1, <2>2, <2>3, BooksKept
<1>2. ASSUME NEW r \in Requests, CreateWallet(r) PROVE BooksInv'
  <2>1. req[r] \in Frame /\ req[r].pc = "create" /\ req[r].charge = 0
    BY <1>t, <1>b, <1>2 DEF CreateWallet, FrameBooks, IdleFrame
  <2>2. \A o \in Requests \ {r} : req'[o] = req[o]
    BY <1>t, <1>2 DEF CreateWallet, Goto, Finish
  <2>3. CASE Affords(req[r].type, req[r].amount, 0)
    <3>1. /\ req'[r].charge = 0 /\ req'[r].type = req[r].type
          /\ req'[r].pc = AfterWallet(req[r].type)
      BY <1>t, <1>2, <2>1, <2>3 DEF CreateWallet, Goto, Frame
    <3>2. \/ req'[r].type = "TOP_UP" /\ req'[r].pc = "charge"
          \/ req'[r].type # "TOP_UP" /\ req'[r].pc = "txRead"
      BY <3>1 DEF AfterWallet
    <3>3. \A o \in Requests : FrameBooks(o)'
      BY <1>2, <1>b, <2>2, <3>1, <3>2 DEF CreateWallet, FrameBooks
    <3> QED BY <1>2, <2>1, <2>2, <3>1, <3>3, BooksKept DEF CreateWallet
  <2>4. CASE ~Affords(req[r].type, req[r].amount, 0)
    <3>1. req'[r].charge = 0 /\ req'[r].pc = "idle"
      BY <1>t, <1>2, <2>4 DEF CreateWallet, Finish, IdleFrame
    <3>2. \A o \in Requests : FrameBooks(o)'
      BY <1>2, <1>b, <2>2, <3>1 DEF CreateWallet, FrameBooks
    <3> QED BY <1>2, <2>1, <2>2, <3>1, <3>2, BooksKept DEF CreateWallet
  <2> QED BY <2>3, <2>4
<1>3. ASSUME NEW r \in Requests, ArcaPreAuthorize(r) \/ IdramDebit(r) PROVE BooksInv'
  <2>1. OpenCharge(r, "HELD", "capture") \/ OpenCharge(r, "CAPTURED", "txRead")
    BY <1>3 DEF ArcaPreAuthorize, IdramDebit
  <2> QED BY <2>1, OpenChargeBooks
<1>4. ASSUME NEW r \in Requests, ArcaCapture(r) PROVE BooksInv'
  BY <1>4, ArcaCaptureBooks
<1>5. ASSUME NEW r \in Requests, TxRead(r) PROVE BooksInv'
  <2>1. req[r] \in Frame /\ req[r].pc = "txRead"
    BY <1>t, <1>5 DEF TxRead, IdleFrame
  <2>2. /\ req'[r].type = req[r].type /\ req'[r].amount = req[r].amount
        /\ req'[r].charge = req[r].charge /\ req'[r].pc = "txCommit"
        /\ \A o \in Requests \ {r} : req'[o] = req[o]
    BY <1>t, <1>5, <2>1 DEF TxRead, Frame
  <2>3. UNCHANGED <<rows, charges, abandoned>>
    BY <1>5 DEF TxRead
  <2>4. \A o \in Requests : FrameBooks(o)'
    BY <1>b, <2>1, <2>2, <2>3 DEF FrameBooks
  <2> QED BY <2>2, <2>3, <2>4, BooksKept
<1>6. ASSUME NEW r \in Requests, TxCommit(r) PROVE BooksInv'
  BY <1>6, TxCommitBooks
<1>7. ASSUME NEW r \in Requests, Fail(r) PROVE BooksInv'
  BY <1>7, FailBooks
<1>8. CASE UNCHANGED vars
  <2>1. \A o \in Requests : FrameBooks(o)'
    BY <1>8, <1>b DEF vars, FrameBooks
  <2> QED BY <1>8, <2>1, BooksKept DEF vars
<1> QED
  BY <1>1, <1>2, <1>3, <1>4, <1>5, <1>6, <1>7, <1>8 DEF Next, Step

LEMMA BooksCorrect == Spec => []BooksInv
  BY InitTypeOK, NextTypeOK, InitBooks, NextBooks, PTL DEF Spec

(* However requests overlap and die, every top-up row of wallet.service.ts  *)
(* stands for a captured charge of the same amount that no other row claims. *)
THEOREM TopUpsArePaid == Spec => []CreditsArePaid
<1>1. TypeOK /\ BooksInv => CreditsArePaid
  <2> SUFFICES ASSUME TypeOK, BooksInv, NEW i \in 1..Len(rows), rows[i].type = "TOP_UP"
               PROVE  /\ rows[i].charge \in 1..Len(charges)
                      /\ charges[rows[i].charge]
                           = [amount |-> rows[i].amount, state |-> "CAPTURED"]
                      /\ \A j \in 1..Len(rows) : rows[j].charge = rows[i].charge => j = i
    BY DEF CreditsArePaid
  <2>1. RowBooks(i) /\ charges \in Seq(Charge)
    BY DEF BooksInv, TypeOK
  <2>2. rows[i].charge \in 1..Len(charges)
    BY <2>1 DEF RowBooks
  <2>3. charges[rows[i].charge] \in Charge
    BY <2>1, <2>2
  <2> QED BY <2>1, <2>2, <2>3 DEF RowBooks, Charge
<1> QED BY <1>1, TypeCorrect, BooksCorrect, PTL

(* Every charge at a gateway is on a row, with a running request, or left   *)
(* behind by a request that died.                                           *)
THEOREM NoChargeForgotten == Spec => []ChargesAccounted
<1>1. BooksInv => ChargesAccounted
  BY DEF BooksInv
<1> QED BY <1>1, BooksCorrect, PTL

-----------------------------------------------------------------------------
(* One request at a time                                                   *)

\* What overlapping requests destroy: the balance read is still the newest.
SerialInv ==
  /\ Len(charges) <= MaxCharges
  /\ \A r \in Requests : req[r].pc = "txCommit" => req[r].seen = balance
  /\ ChainUnbroken

LEMMA InitSerial == Init => SerialInv
<1> SUFFICES ASSUME Init PROVE SerialInv
  OBVIOUS
<1>1. /\ Len(charges) = 0 /\ Len(rows) = 0
      /\ \A r \in Requests : req[r].pc # "txCommit"
  BY DEF Init, IdleFrame
<1> QED BY <1>1, BoundsAssumption DEF SerialInv, ChainUnbroken

(* With a single slot the steps between a read and its commit are its own.  *)
LEMMA NextSerial ==
  ASSUME \A a, b \in Requests : a = b,
         TypeOK, HistoryInv, SerialInv, [Next]_vars
  PROVE  SerialInv'
<1>t. /\ req \in [Requests -> Frame \cup {IdleFrame}]
      /\ charges \in Seq(Charge) /\ Len(charges) \in Nat
      /\ rows \in Seq(WalletRow) /\ Len(rows) \in Nat
  BY DEF TypeOK
<1>k. ASSUME UNCHANGED <<balance, rows>>, Len(charges') <= MaxCharges,
             \A o \in Requests : req'[o].pc = "txCommit" => req'[o] = req[o]
      PROVE  SerialInv'
  BY <1>k DEF SerialInv, ChainUnbroken, BalanceAfter
<1>1. ASSUME NEW r \in Requests, NEW type \in Operations, NEW amount \in Amounts,
             FindWallet(r, type, amount)
      PROVE  SerialInv'
  <2>1. \A o \in Requests : req'[o].pc = "txCommit" => req'[o] = req[o]
    BY <1>1, <1>t DEF FindWallet, AfterWallet
  <2> QED BY <1>1, <1>k, <2>1 DEF FindWallet, SerialInv
<1>2. ASSUME NEW r \in Requests, CreateWallet(r) PROVE SerialInv'
  <2>1. req[r] \in Frame
    BY <1>2, <1>t DEF CreateWallet, IdleFrame
  <2>2. \A o \in Requests : req'[o].pc = "txCommit" => req'[o] = req[o]
    BY <1>2, <1>t, <2>1 DEF CreateWallet, Goto, Finish, AfterWallet, IdleFrame, Frame
  <2> QED BY <1>2, <1>k, <2>2 DEF CreateWallet, SerialInv
<1>3. ASSUME NEW r \in Requests, NEW state, NEW pc \in {"capture", "txRead"},
             OpenCharge(r, state, pc)
      PROVE  SerialInv'
  <2>1. req[r] \in Frame
    BY <1>3, <1>t DEF OpenCharge, IdleFrame
  <2>2. \A o \in Requests : req'[o].pc = "txCommit" => req'[o] = req[o]
    BY <1>3, <1>t, <2>1 DEF OpenCharge, Frame
  <2>3. Len(charges') = Len(charges) + 1 /\ Len(charges) < MaxCharges
    BY <1>3, <1>t DEF OpenCharge
  <2>4. Len(charges') <= MaxCharges
    BY <1>t, <2>3, BoundsAssumption
  <2> QED BY <1>3, <1>k, <2>2, <2>4 DEF OpenCharge
<1>4. ASSUME NEW r \in Requests, ArcaCapture(r) PROVE SerialInv'
  <2>1. req[r] \in Frame
    BY <1>4, <1>t DEF ArcaCapture, IdleFrame
  <2>2. \A o \in Requests : req'[o].pc = "txCommit" => req'[o] = req[o]
    BY <1>4, <1>t, <2>1 DEF ArcaCapture, Goto, Frame
  <2>3. Len(charges') = Len(charges)
    BY <1>4, <1>t DEF ArcaCapture
  <2> QED BY <1>4, <1>k, <2>2, <2>3 DEF ArcaCapture, SerialInv
<1>5. ASSUME NEW r \in Requests, TxRead(r) PROVE SerialInv'
  <2>1. req[r] \in Frame
    BY <1>5, <1>t DEF TxRead, IdleFrame
  <2>2. req'[r].seen = balance /\ \A o \in Requests : o = r
    BY <1>5, <1>t, <2>1 DEF TxRead, Frame
  <2> QED BY <1>5, <2>2 DEF TxRead, SerialInv, ChainUnbroken, BalanceAfter
<1>6. ASSUME NEW r \in Requests, TxCommit(r) PROVE SerialInv'
  <2>1. req[r] \in Frame /\ req[r].pc = "txCommit"
    BY <1>6, <1>t DEF TxCommit, IdleFrame
  <2>2. PendingRow(r) \in WalletRow /\ PendingRow(r).before = req[r].seen
    BY <2>1, PendingRowType DEF PendingRow
  <2>3. /\ rows' = Append(rows, PendingRow(r)) /\ UNCHANGED charges
        /\ req' = [req EXCEPT ![r] = IdleFrame]
    BY <1>6 DEF TxCommit, Finish
  <2>4. /\ Len(rows') = Len(rows) + 1
        /\ \A i \in 1..Len(rows) : rows'[i] = rows[i]
        /\ rows'[Len(rows) + 1] = PendingRow(r)
    BY <1>t, <2>2, <2>3
  <2>5. req[r].seen = BalanceAfter(Len(rows))
    BY <2>1 DEF SerialInv, HistoryInv, BalanceIsLastAfter
  <2>6. \A n \in 0..Len(rows) : BalanceAfter(n)' = BalanceAfter(n)
    BY <1>t, <2>4 DEF BalanceAfter
  <2>7. ChainUnbroken'
    <3> SUFFICES ASSUME NEW i \in 1..Len(rows')
                 PROVE  rows'[i].before = BalanceAfter(i - 1)'
      BY DEF ChainUnbroken
    <3>1. i - 1 \in 0..Len(rows)
      BY <1>t, <2>4
    <3>2. CASE i \in 1..Len(rows)
      BY <2>4, <2>6, <3>1, <3>2 DEF SerialInv, ChainUnbroken
    <3>3. CASE i = Len(rows) + 1
      <4>1. i - 1 = Len(rows)
        BY <1>t, <3>3
      <4>2. rows'[i].before = BalanceAfter(i - 1)
        BY <2>2, <2>4, <2>5, <3>3, <4>1
      <4> QED BY <2>6, <3>1, <4>2
    <3> QED BY <1>t, <2>4, <3>2, <3>3
  <2>8. \A o \in Requests : req'[o].pc # "txCommit"
    BY <1>6, <1>t, <2>3 DEF IdleFrame
  <2> QED BY <2>3, <2>7, <2>8 DEF SerialInv
<1>7. ASSUME NEW r \in Requests, Fail(r) PROVE SerialInv'
  <2>1. \A o \in Requests : req'[o].pc = "txCommit" => req'[o] = req[o]
    BY <1>7, <1>t DEF Fail, Finish, IdleFrame
  <2> QED BY <1>7, <1>k, <2>1 DEF Fail, SerialInv
<1>8. CASE UNCHANGED vars
  BY <1>8, <1>k DEF vars, SerialInv
<1> QED
  BY <1>1, <1>2, <1>3, <1>4, <1>5, <1>6, <1>7, <1>8
  DEF Next, Step, ArcaPreAuthorize, IdramDebit

(* One step of the service is one step of the ledger, or none.              *)
LEMMA StepRefines ==
  ASSUME TypeOK, TypeOK', HistoryInv, HistoryInv', BooksInv, SerialInv, [Next]_vars
  PROVE  [Ledger!Next]_<<balance, rows>>
<1>1. ASSUME NEW r \in Requests, TxCommit(r) PROVE Ledger!Next
  <2>1. req[r] \in Frame /\ req[r].pc = "txCommit"
    BY <1>1 DEF TypeOK, TxCommit, IdleFrame
  <2>2. /\ req[r].type \in RowTypes /\ req[r].amount \in Amounts
        /\ req[r].amount \in Nat /\ req[r].seen \in Int
    BY <2>1, FrameFields
  <2>3. req[r].seen = balance /\ balance \in Int
    BY <2>1 DEF SerialInv, TypeOK
  <2>4. req[r].charge \in 0..MaxCharges
    BY BoundsAssumption DEF TypeOK, SerialInv
  <2>5. req[r].type # "TOP_UP" => req[r].charge = 0
    BY DEF BooksInv, FrameBooks
  <2>6. balance' \in 0..MaxInt
    <3>1. Len(rows') \in 0..Len(rows')
      BY DEF TypeOK
    <3> QED BY <3>1 DEF HistoryInv, BalanceIsLastAfter
  <2>7. balance' = PendingRow(r).after /\ rows' = Append(rows, PendingRow(r))
    BY <1>1 DEF TxCommit
  <2>8. PendingRow(r) = [type |-> req[r].type, amount |-> req[r].amount,
                         before |-> balance, after |-> balance',
                         charge |-> req[r].charge]
    BY <2>3, <2>7 DEF PendingRow
  <2>9. balance' = IF req[r].type = "DEDUCTION" THEN balance - req[r].amount
                   ELSE balance + req[r].amount
    BY <2>3, <2>7 DEF PendingRow
  <2>10. CASE req[r].type = "TOP_UP"
    <3>1. balance' = balance + req[r].amount
      BY <2>9, <2>10
    <3>2. Ledger!TopUp(req[r].amount, req[r].charge)
      BY <2>6, <2>7, <2>8, <2>10, <3>1 DEF Ledger!TopUp, Ledger!Post
    <3> QED BY <2>2, <2>4, <3>2 DEF Ledger!Next
  <2>11. CASE req[r].type = "DEDUCTION"
    <3>1. balance' = balance + (-req[r].amount)
      BY <2>2, <2>3, <2>9, <2>11
    <3>2. Ledger!Deduct(req[r].amount)
      BY <2>5, <2>6, <2>7, <2>8, <2>11, <3>1 DEF Ledger!Deduct, Ledger!Post
    <3> QED BY <2>2, <3>2 DEF Ledger!Next
  <2>12. CASE req[r].type = "REFUND"
    <3>1. balance' = balance + req[r].amount
      BY <2>9, <2>12
    <3>2. Ledger!Refund(req[r].amount)
      BY <2>5, <2>6, <2>7, <2>8, <2>12, <3>1 DEF Ledger!Refund, Ledger!Post
    <3> QED BY <2>2, <3>2 DEF Ledger!Next
  <2> QED BY <2>2, <2>10, <2>11, <2>12 DEF RowTypes
<1>2. ASSUME NEW r \in Requests, Step(r), ~TxCommit(r)
      PROVE  UNCHANGED <<balance, rows>>
  BY <1>2 DEF Step, CreateWallet, ArcaPreAuthorize, IdramDebit, OpenCharge,
              ArcaCapture, TxRead, Fail
<1>3. ASSUME NEW r \in Requests, NEW type \in Operations, NEW amount \in Amounts,
             FindWallet(r, type, amount)
      PROVE  UNCHANGED <<balance, rows>>
  BY <1>3 DEF FindWallet
<1>4. CASE UNCHANGED vars
  BY <1>4 DEF vars
<1> QED BY <1>1, <1>2, <1>3, <1>4 DEF Next

(* As long as no two operations on one wallet overlap, wallet.service.ts is *)
(* the ledger its class comment promises, whatever fails or dies.           *)
THEOREM SerialImplementsLedger ==
  ASSUME \A a, b \in Requests : a = b
  PROVE  Spec => ImplementsLedger
<1>1. Init => Ledger!Init
  BY DEF Init, Ledger!Init
<1>2. TypeOK /\ HistoryInv /\ SerialInv /\ [Next]_vars => SerialInv'
  BY NextSerial
<1>3. TypeOK /\ TypeOK' /\ HistoryInv /\ HistoryInv' /\ BooksInv /\ SerialInv /\ [Next]_vars
        => [Ledger!Next]_<<balance, rows>>
  BY StepRefines
<1> QED
  BY <1>1, <1>2, <1>3, InitSerial, TypeCorrect, HistoryCorrect, BooksCorrect, PTL
  DEF Spec, ImplementsLedger, Ledger!Spec

(* As long as no two operations on one wallet overlap, each row starts from *)
(* the balance the previous one ended with.                                 *)
THEOREM SerialChain ==
  ASSUME \A a, b \in Requests : a = b
  PROVE  Spec => []ChainUnbroken
<1>1. TypeOK /\ HistoryInv /\ SerialInv /\ [Next]_vars => SerialInv'
  BY NextSerial
<1>2. SerialInv => ChainUnbroken
  BY DEF SerialInv
<1> QED
  BY <1>1, <1>2, InitSerial, TypeCorrect, HistoryCorrect, PTL DEF Spec

-----------------------------------------------------------------------------
(* Sessions and providers                                                  *)

\* The sessions' proofs, with MCMoney's names for the slots and their requests.
CP == INSTANCE ChargingSessionProofs WITH Requests <- Starters, req <- demand

-----------------------------------------------------------------------------
(* Charging and CP are the same module                                     *)

(* The same initial states.                                                 *)
LEMMA SameInit ==
  Charging!Init => CP!Init
  BY DEF Charging!Init, CP!Init, Charging!NoSession, CP!NoSession, Charging!Idle,
         CP!Idle, Charging!Payments!Init, CP!Payments!Init,
         Charging!Payments!NoPayment, CP!Payments!NoPayment,
         Charging!Payments!Returned, CP!Payments!Returned

(* The same steps.                                                          *)
LEMMA SameNext ==
  Charging!Next => CP!Next
  BY DEF Charging!Next, CP!Next, Charging!SwitchDefault, CP!SwitchDefault,
         Charging!CreateSession, CP!CreateSession, Charging!StartTransaction,
         CP!StartTransaction, Charging!StartSession, CP!StartSession,
         Charging!StopSession, CP!StopSession, Charging!StopTransaction,
         CP!StopTransaction, Charging!Step, CP!Step, Charging!Authorize,
         CP!Authorize, Charging!ChooseStart, CP!ChooseStart, Charging!CheckBalance,
         CP!CheckBalance, Charging!BeginPreAuthorize, CP!BeginPreAuthorize,
         Charging!Activate, CP!Activate, Charging!Complete, CP!Complete,
         Charging!ChooseStop, CP!ChooseStop, Charging!Deduct, CP!Deduct,
         Charging!RecordWalletPayment, CP!RecordWalletPayment,
         Charging!CompleteTransaction, CP!CompleteTransaction,
         Charging!BeginCapture, CP!BeginCapture, Charging!StopPaid, CP!StopPaid,
         Charging!PaymentStep, CP!PaymentStep, Charging!Fail, CP!Fail, Charging!At,
         CP!At, Charging!Accept, CP!Accept, Charging!Goto, CP!Goto, Charging!Finish,
         CP!Finish, Charging!SetStatus, CP!SetStatus, Charging!NoSession,
         CP!NoSession, Charging!Idle, CP!Idle, Charging!pvars, CP!pvars,
         Charging!svars, CP!svars, Charging!Payments!PaymentStep,
         CP!Payments!PaymentStep, Charging!Payments!ArcaPreAuthorize,
         CP!Payments!ArcaPreAuthorize, Charging!Payments!IdramGetBalance,
         CP!Payments!IdramGetBalance, Charging!Payments!SaveAuthorization,
         CP!Payments!SaveAuthorization, Charging!Payments!ArcaCapture,
         CP!Payments!ArcaCapture, Charging!Payments!IdramDebit,
         CP!Payments!IdramDebit, Charging!Payments!SaveCapture,
         CP!Payments!SaveCapture, Charging!Payments!GatewayRefund,
         CP!Payments!GatewayRefund, Charging!Payments!SaveRefund,
         CP!Payments!SaveRefund, Charging!Payments!PreAuthorize,
         CP!Payments!PreAuthorize, Charging!Payments!Capture, CP!Payments!Capture,
         Charging!Payments!Fail, CP!Payments!Fail, Charging!Payments!InCall,
         CP!Payments!InCall, Charging!Payments!At, CP!Payments!At,
         Charging!Payments!Open, CP!Payments!Open, Charging!Payments!End,
         CP!Payments!End, Charging!Payments!Execute, CP!Payments!Execute,
         Charging!Payments!Save, CP!Payments!Save, Charging!Payments!NoPayment,
         CP!Payments!NoPayment, Charging!Payments!Returned, CP!Payments!Returned,
         Charging!Payments!Threw, CP!Payments!Threw,
         Charging!Payments!NothingToCapture, CP!Payments!NothingToCapture,
         Charging!Payments!CannotCapture, CP!Payments!CannotCapture

(* The same types.                                                          *)
LEMMA SameTypeOK ==
  CP!TypeOK => Charging!TypeOK
  BY DEF Charging!TypeOK, CP!TypeOK, Charging!NoSession, CP!NoSession,
         Charging!SessionRow, CP!SessionRow, Charging!Frame, CP!Frame,
         Charging!Idle, CP!Idle, Charging!Payments!TypeOK, CP!Payments!TypeOK,
         Charging!Payments!NoPayment, CP!Payments!NoPayment,
         Charging!Payments!PaymentRow, CP!Payments!PaymentRow,
         Charging!Payments!Entry, CP!Payments!Entry, Charging!Payments!Frame,
         CP!Payments!Frame, Charging!Payments!Returned, CP!Payments!Returned,
         Charging!Payments!Threw, CP!Payments!Threw

(* The same account of the money.                                           *)
LEMMA SameMoney ==
  CP!MoneyIsTracked => Charging!MoneyIsTracked
  BY DEF Charging!MoneyIsTracked, CP!MoneyIsTracked, Charging!ChargedWhenCompleted,
         CP!ChargedWhenCompleted, Charging!WalletPaymentWasDeducted,
         CP!WalletPaymentWasDeducted, Charging!HoldsTracked, CP!HoldsTracked,
         Charging!Payments!Entries, CP!Payments!Entries, Charging!Payments!InCall,
         CP!Payments!InCall

(* The assumption of the sessions' proofs.                                  *)
LEMMA SameAssumption ==
  CP!CostsAssumption
BY ChargingAssumption DEF Charging!CostsAssumption, CP!CostsAssumption

-----------------------------------------------------------------------------
(* One call of a provider                                                  *)

(* What is known of an answer that can be read: the provider has done what  *)
(* a success says, and has refused what it says it declined; of a pending   *)
(* operation nothing is known.  Nobody is told later.                       *)
AnswerKnows ==
  /\ answer \in Gateways!Statuses =>
       \/ answer = "PENDING" /\ kind \notin Gateways!TokenPay
       \/ answer = "DECLINED" /\ kind \notin Gateways!TokenPay /\ effect = "refused"
       \/ answer \in Gateways!Done /\ effect = "done"
  /\ step \in {"returned", "declined"} =>
       answer \in Gateways!Statuses

CallInv == Gateways!TypeOK /\ AnswerKnows /\ Gateways!ReturnedWasTaken

(* The statuses of a success are statuses, and none of them says pending or *)
(* declined.                                                                *)
LEMMA DoneStatuses ==
  ASSUME Gateways!TypeOK
  PROVE  /\ Gateways!Done \subseteq Gateways!Statuses \ {"PENDING", "DECLINED"}
         /\ kind \in Gateways!Arca => Gateways!ArcaAllowed = Gateways!Done
         /\ kind \in Gateways!Idram => Gateways!IdramAllowed = Gateways!Done
<1>1. kind \in {"preAuthorize", "capture", "refund", "debit", "refundWallet", "balance",
                "apple", "google"}
  BY DEF Gateways!TypeOK, Gateways!Arca, Gateways!Idram, Gateways!TokenPay
<1> QED
  BY <1>1 DEF Gateways!Done, Gateways!Statuses, Gateways!Arca, Gateways!Idram,
              Gateways!TokenPay, Gateways!ArcaAllowed, Gateways!IdramAllowed

LEMMA CallInit ==
  ASSUME Gateways!Init
  PROVE  CallInv
BY DEF Gateways!Init, CallInv, Gateways!TypeOK, AnswerKnows, Gateways!ReturnedWasTaken,
       Gateways!None, Gateways!Statuses, Gateways!Thrown, Gateways!TokenPay

(* The provider's side: it acts, or the call is lost on the way.            *)
LEMMA ProviderStep ==
  ASSUME CallInv,
         \/ \E outcome \in {"done", "refused", "pending"} : Gateways!Perform(outcome)
         \/ Gateways!Decide \/ Gateways!LoseRequest
  PROVE  CallInv'
<1>1. /\ Gateways!TypeOK /\ AnswerKnows /\ Gateways!ReturnedWasTaken
      /\ kind' = kind /\ settings' = settings /\ step' = step
      /\ Gateways!Done' = Gateways!Done
  BY DEF CallInv, Gateways!Perform, Gateways!Decide, Gateways!LoseRequest, Gateways!Done
<1>2. ASSUME NEW outcome \in {"done", "refused", "pending"}, Gateways!Perform(outcome)
      PROVE  CallInv'
  <2>1. /\ step = "sent" /\ effect' = outcome
        /\ answer' \in Gateways!Said(outcome) \cup Gateways!Flaws \cup {"lost"}
        /\ kind \in Gateways!TokenPay => outcome # "pending"
    BY <1>2 DEF Gateways!Perform
  <2>2. /\ outcome = "done" => Gateways!Said(outcome) = Gateways!Done
        /\ outcome = "pending" => Gateways!Said(outcome) = {"PENDING"}
        /\ outcome = "refused" => Gateways!Said(outcome) \subseteq {"DECLINED"}
        /\ outcome = "refused" /\ kind \in Gateways!TokenPay => Gateways!Said(outcome) = {}
    BY DEF Gateways!Said
  <2>3. /\ Gateways!Said(outcome) \subseteq Gateways!Statuses
        /\ Gateways!Flaws \cap Gateways!Statuses = {} /\ "lost" \notin Gateways!Statuses
    BY <1>1, <2>2, DoneStatuses DEF Gateways!Statuses, Gateways!Flaws
  <2>4. Gateways!TypeOK'
    BY <1>1, <2>1, <2>3 DEF Gateways!TypeOK
  <2>5. AnswerKnows'
    BY <1>1, <2>1, <2>2, <2>3 DEF AnswerKnows
  <2> QED BY <1>1, <2>1, <2>4, <2>5 DEF CallInv, Gateways!ReturnedWasTaken
<1>3. CASE Gateways!Decide
  BY <1>1, <1>3 DEF CallInv, Gateways!Decide, Gateways!TypeOK, AnswerKnows,
                    Gateways!ReturnedWasTaken, Gateways!None
<1>4. CASE Gateways!LoseRequest
  BY <1>1, <1>4 DEF CallInv, Gateways!LoseRequest, Gateways!TypeOK, AnswerKnows,
                    Gateways!ReturnedWasTaken, Gateways!Statuses
<1> QED BY <1>2, <1>3, <1>4

(* The client's side: it sends, or it reads the answer.                     *)
LEMMA ClientStep ==
  ASSUME CallInv, Gateways!Next,
         ~\E outcome \in {"done", "refused", "pending"} : Gateways!Perform(outcome),
         ~Gateways!Decide, ~Gateways!LoseRequest
  PROVE  CallInv'
<1>1. /\ Gateways!TypeOK /\ AnswerKnows /\ Gateways!ReturnedWasTaken
      /\ kind' = kind /\ settings' = settings /\ answer' = answer /\ effect' = effect
      /\ Gateways!Done' = Gateways!Done
  BY DEF CallInv, Gateways!Next, Gateways!CallArca, Gateways!CallIdram,
         Gateways!CallApplePay, Gateways!CallGooglePay, Gateways!Exchange, Gateways!Send,
         Gateways!ReceiveArca, Gateways!ReceiveIdram, Gateways!ReceiveApplePay,
         Gateways!ReceiveGooglePay, Gateways!Concluded, Gateways!Done
<1>2. CASE \/ Gateways!CallArca \/ Gateways!CallIdram \/ Gateways!CallApplePay
           \/ Gateways!CallGooglePay
  <2>1. step' \in {"sent", "misconfigured", "local token"}
    BY <1>2 DEF Gateways!CallArca, Gateways!CallIdram, Gateways!CallApplePay,
                Gateways!CallGooglePay, Gateways!Exchange, Gateways!Send
  <2> QED BY <1>1, <2>1 DEF CallInv, Gateways!TypeOK, AnswerKnows,
                            Gateways!ReturnedWasTaken, Gateways!Thrown
<1>3. ASSUME NEW allowed, Gateways!Answered, Gateways!Concluded(allowed),
             allowed = Gateways!Done \/ (allowed = Gateways!Statuses /\ kind \in Gateways!TokenPay)
      PROVE  CallInv'
  <2>1. answer \in Gateways!Statuses \cup Gateways!Flaws \cup {"lost"}
    BY <1>1, <1>3 DEF Gateways!Answered, Gateways!TypeOK
  <2>2. CASE answer \in Gateways!Flaws \cup {"lost"}
    <3>1. step' \in {"unavailable", "bad gateway"}
      <4>1. answer \notin allowed /\ (answer \in Gateways!Flaws => answer # "lost")
        BY <1>1, <1>3, <2>2, DoneStatuses DEF Gateways!Statuses, Gateways!Flaws
      <4> QED BY <1>3, <2>2, <4>1 DEF Gateways!Concluded
    <3> QED BY <1>1, <3>1 DEF CallInv, Gateways!TypeOK, AnswerKnows,
                              Gateways!ReturnedWasTaken, Gateways!Thrown
  <2>3. CASE answer \in Gateways!Statuses
    <3>1. answer \notin Gateways!Flaws /\ answer # "lost"
      BY <2>3 DEF Gateways!Statuses, Gateways!Flaws
    <3>2. step' = IF answer \in allowed THEN "returned" ELSE "declined"
      BY <1>3, <3>1 DEF Gateways!Concluded
    <3>3. answer \in allowed => effect = "done"
      BY <1>1, <1>3, <2>3, DoneStatuses DEF AnswerKnows
    <3>4. answer \notin allowed /\ answer # "PENDING" => effect = "refused"
      BY <1>1, <1>3, <2>3 DEF AnswerKnows
    <3> QED BY <1>1, <2>3, <3>2, <3>3, <3>4
            DEF CallInv, Gateways!TypeOK, AnswerKnows, Gateways!ReturnedWasTaken,
                Gateways!Thrown
  <2> QED BY <2>1, <2>2, <2>3
<1>4. CASE \/ Gateways!ReceiveArca \/ Gateways!ReceiveIdram \/ Gateways!ReceiveApplePay
           \/ Gateways!ReceiveGooglePay
  BY <1>1, <1>3, <1>4, DoneStatuses
     DEF Gateways!ReceiveArca, Gateways!ReceiveIdram, Gateways!ReceiveApplePay,
         Gateways!ReceiveGooglePay, Gateways!TokenPay
<1> QED BY <1>2, <1>4 DEF Gateways!Next

-----------------------------------------------------------------------------
(* The parts together                                                      *)

MoneyInv ==
  /\ part = "charging" => CP!IInv
  /\ part = "gateways" => CallInv

MoneyNext == WalletStep \/ ChargingStep \/ GatewaysStep
moneyVars == <<part, vars, chargingVars, gatewayVars>>

LEMMA MoneyInitOK ==
  ASSUME MoneyInit
  PROVE  MoneyInv
BY SameInit, CP!InitOK, CallInit DEF MoneyInit, MoneyInv

LEMMA MoneyNextOK ==
  ASSUME MoneyInv, [MoneyNext]_moneyVars
  PROVE  MoneyInv'
<1>1. CASE part = "charging" /\ ChargingStep
  BY <1>1, SameNext, SameAssumption, CP!NextOK DEF MoneyInv, ChargingStep
<1>2. CASE part = "charging" /\ UNCHANGED moneyVars
  <2>1. CP!vars' = CP!vars /\ part' = part
    BY <1>2 DEF moneyVars, chargingVars, CP!vars
  <2> QED BY <1>2, <2>1, SameAssumption, CP!NextOK DEF MoneyInv
<1>3. CASE part = "gateways" /\ GatewaysStep
  BY <1>3, ProviderStep, ClientStep DEF MoneyInv, GatewaysStep
<1>4. CASE part = "gateways" /\ UNCHANGED moneyVars
  BY <1>4 DEF moneyVars, gatewayVars, MoneyInv, CallInv, Gateways!TypeOK, AnswerKnows,
              Gateways!ReturnedWasTaken, Gateways!Done
<1>5. CASE part \notin {"charging", "gateways"}
  BY <1>5 DEF MoneyNext, moneyVars, WalletStep, ChargingStep, GatewaysStep, MoneyInv
<1> QED BY <1>1, <1>2, <1>3, <1>4, <1>5
        DEF MoneyNext, WalletStep, ChargingStep, GatewaysStep

(* Sessions, requests, payments and calls of providers keep their types.    *)
THEOREM PartsTyped == MoneySpec => []PartsTypeOK
<1>1. MoneyInit => MoneyInv
  BY MoneyInitOK
<1>2. MoneyInv /\ [MoneyNext]_moneyVars => MoneyInv'
  BY MoneyNextOK
<1>3. MoneyInv => PartsTypeOK
  BY SameTypeOK, CP!Consequences DEF MoneyInv, PartsTypeOK, CallInv
<1> QED BY <1>1, <1>2, <1>3, PTL DEF MoneySpec, MoneyNext, moneyVars

(* startSession: a session of the app is ACTIVE only with an authorized     *)
(* payment or a checked wallet.                                             *)
THEOREM NobodyChargesOnCredit == MoneySpec => []ActiveIsBacked
<1>1. MoneyInit => MoneyInv
  BY MoneyInitOK
<1>2. MoneyInv /\ [MoneyNext]_moneyVars => MoneyInv'
  BY MoneyNextOK
<1>3. MoneyInv => ActiveIsBacked
  BY CP!Consequences DEF MoneyInv, ActiveIsBacked, CP!ActiveIsBacked, Charging!ActiveIsBacked
<1> QED BY <1>1, <1>2, <1>3, PTL DEF MoneySpec, MoneyNext, moneyVars

(* stopSession and createWalletPaymentRecord: deductions, their records and *)
(* the holds of a session follow its life.                                  *)
THEOREM MoneyFollowsTheSession == MoneySpec => []MoneyIsTracked
<1>1. MoneyInit => MoneyInv
  BY MoneyInitOK
<1>2. MoneyInv /\ [MoneyNext]_moneyVars => MoneyInv'
  BY MoneyNextOK
<1>3. MoneyInv => MoneyIsTracked
  BY SameMoney, CP!Consequences DEF MoneyInv, MoneyIsTracked
<1> QED BY <1>1, <1>2, <1>3, PTL DEF MoneySpec, MoneyNext, moneyVars

(* handleStartTransaction's sessions end once and for all.                  *)
THEOREM ChargersStayEnded == MoneySpec => ChargerNeverReopens
<1> DEFINE chargingPartVars == <<part, chargingVars>>
           ForGood == part = "charging" => Charging!ChargersEndForGood
<1>1. MoneyInit => MoneyInv
  BY MoneyInitOK
<1>2. MoneyInv /\ [MoneyNext]_moneyVars => MoneyInv'
  BY MoneyNextOK
<1>3. MoneyInv /\ [MoneyNext]_moneyVars => [ForGood]_chargingPartVars
  <2> SUFFICES ASSUME MoneyInv, [MoneyNext]_moneyVars, part = "charging",
                      chargingPartVars' # chargingPartVars
               PROVE  Charging!ChargersEndForGood
    OBVIOUS
  <2>1. Charging!Next
    BY DEF MoneyNext, moneyVars, WalletStep, ChargingStep, GatewaysStep
  <2>2. CP!ChargersEndForGood
    BY <2>1, SameNext, CP!ChargersEnd DEF MoneyInv
  <2> QED BY <2>2 DEF CP!ChargersEndForGood, Charging!ChargersEndForGood
<1> QED BY <1>1, <1>2, <1>3, PTL DEF MoneySpec, MoneyNext, moneyVars, ChargerNeverReopens

(* arca.client, idram.client, apple-pay.client and google-pay.client: what  *)
(* returns has been done, and what is called declined was refused, or was   *)
(* pending.                                                                 *)
THEOREM AnswersAreTrusted == MoneySpec => []ReturnedWasTaken
<1>1. MoneyInit => MoneyInv
  BY MoneyInitOK
<1>2. MoneyInv /\ [MoneyNext]_moneyVars => MoneyInv'
  BY MoneyNextOK
<1>3. MoneyInv => ReturnedWasTaken
  BY DEF MoneyInv, ReturnedWasTaken, CallInv
<1> QED BY <1>1, <1>2, <1>3, PTL DEF MoneySpec, MoneyNext, moneyVars

=============================================================================
