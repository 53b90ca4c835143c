---------------------------- MODULE GatewayCalls ----------------------------
(***************************************************************************)
(* One call of a payment provider as its client sees it (arca.client,      *)
(* idram.client, apple-pay.client, google-pay.client): the credentials,    *)
(* the POST, the reading of the answer, and the statuses that count as     *)
(* success.  The provider, outside, carries the operation out or refuses   *)
(* it or leaves it pending, and whatever it did, its answer may be lost or *)
(* malformed.  SessionPayments has the same call as one step that returns  *)
(* with the money moved or fails either way.                               *)
(***************************************************************************)

Arca == {"preAuthorize", "capture", "refund"}
Idram == {"debit", "refundWallet", "balance"}
TokenPay == {"apple", "google"}
Statuses == {"APPROVED", "AUTHORIZED", "CAPTURED", "REFUNDED", "SUCCESS", "OK", "PENDING", "DECLINED"}

VARIABLES
  kind,      \* which operation it is
  settings,  \* the environment of the client; "local" leaves out the exchange URL
  step,      \* where the call is
  answer,    \* the answer on its way: a status, or what is wrong with it
  effect     \* what the provider did: nothing yet, done, refused, pending

vars == <<kind, settings, step, answer, effect>>

Thrown == {"misconfigured", "unavailable", "bad gateway", "declined"}
\* empty: the answer lacks the transaction id, the balance or the token.
Flaws == {"not ok", "not json", "empty"}
None == "none"

TypeOK ==
  /\ kind \in Arca \cup Idram \cup TokenPay
  /\ settings \in {"complete", "incomplete", "local"}
  /\ step \in {"ready", "sent", "returned", "local token"} \cup Thrown
  /\ answer \in Statuses \cup Flaws \cup {"lost", None}
  /\ effect \in {None, "done", "refused", "pending"}

Init ==
  /\ kind \in Arca \cup Idram \cup TokenPay
  /\ settings \in {"complete", "incomplete"} \cup IF kind \in TokenPay THEN {"local"} ELSE {}
  /\ step = "ready"
  /\ answer = None /\ effect = None

-----------------------------------------------------------------------------
(* The provider                                                            *)

\* What a provider answers of an operation that it has carried out.
Done ==
  {"APPROVED"} \cup
    CASE kind = "preAuthorize" -> {"AUTHORIZED"}
      [] kind = "capture" -> {"CAPTURED"}
      [] kind = "refund" -> {"REFUNDED"}
      [] kind = "debit" -> {"CAPTURED", "SUCCESS"}
      [] kind = "refundWallet" -> {"REFUNDED", "SUCCESS"}
      [] kind = "balance" -> {"OK", "SUCCESS"}
      [] kind \in TokenPay -> {"OK"}

Said(outcome) == CASE outcome = "done" -> Done
                   [] outcome = "pending" -> {"PENDING"}
                   [] outcome = "refused" -> IF kind \in TokenPay THEN {} ELSE {"DECLINED"}

\* The provider carries the operation out, or not, and its answer may be flawed.
\* There is no pending exchange of a token, and a refused one is "not ok".
Perform(outcome) ==
  /\ step = "sent" /\ answer = None
  /\ kind \in TokenPay => outcome # "pending"
  /\ effect' = outcome
  /\ answer' \in Said(outcome) \cup Flaws \cup {"lost"}
  /\ UNCHANGED <<kind, settings, step>>

\* A pending operation is decided later; nobody is told.
Decide ==
  /\ effect = "pending"
  /\ effect' \in {"done", "refused"}
  /\ UNCHANGED <<kind, settings, step, answer>>

\* The request does not reach the provider.
LoseRequest ==
  /\ step = "sent" /\ answer = None
  /\ answer' = "lost"
  /\ UNCHANGED <<kind, settings, step, effect>>

-----------------------------------------------------------------------------
(* The clients                                                             *)

\* resolveGatewayCredentials, then the request of postJson.
Send ==
  /\ step' = IF settings = "complete" THEN "sent" ELSE "misconfigured"
  /\ UNCHANGED <<kind, settings, answer, effect>>

CallArca == step = "ready" /\ kind \in Arca /\ Send
CallIdram == step = "ready" /\ kind \in Idram /\ Send

\* exchangeToken: without a URL the token is a digest made here.
Exchange ==
  IF settings = "local" THEN step' = "local token" /\ UNCHANGED <<kind, settings, answer, effect>>
  ELSE Send

CallApplePay == step = "ready" /\ kind = "apple" /\ Exchange
CallGooglePay == step = "ready" /\ kind = "google" /\ Exchange

\* Mutant: one list for the operations of ArCa, with the balance's statuses.
ArcaAllowsAnything == {"APPROVED", "AUTHORIZED", "CAPTURED", "REFUNDED", "OK", "PENDING"}

\* allowedStatuses
ArcaAllowed ==
  CASE kind = "preAuthorize" -> {"APPROVED", "AUTHORIZED"}
    [] kind = "capture"      -> {"APPROVED", "CAPTURED"}
    [] kind = "refund"       -> {"APPROVED", "REFUNDED"}

IdramAllowed ==
  CASE kind = "debit"        -> {"APPROVED", "CAPTURED", "SUCCESS"}
    [] kind = "refundWallet" -> {"APPROVED", "REFUNDED", "SUCCESS"}
    [] kind = "balance"      -> {"APPROVED", "OK", "SUCCESS"}

Answered == step = "sent" /\ answer # None

\* The rest of postJson, the envelope, and the status if the client looks at it.
Concluded(allowed) ==
  /\ step' = CASE answer = "lost" -> "unavailable"
               [] answer \in Flaws -> "bad gateway"
               [] answer \in allowed -> "returned"
               [] OTHER -> "declined"
  /\ UNCHANGED <<kind, settings, answer, effect>>

ReceiveArca == Answered /\ kind \in Arca /\ Concluded(ArcaAllowed)
ReceiveIdram == Answered /\ kind \in Idram /\ Concluded(IdramAllowed)
ReceiveApplePay == Answered /\ kind = "apple" /\ Concluded(Statuses)
ReceiveGooglePay == Answered /\ kind = "google" /\ Concluded(Statuses)

Next ==
  \/ CallArca \/ CallIdram \/ CallApplePay \/ CallGooglePay
  \/ \E outcome \in {"done", "refused", "pending"} : Perform(outcome)
  \/ Decide \/ LoseRequest
  \/ ReceiveArca \/ ReceiveIdram \/ ReceiveApplePay \/ ReceiveGooglePay

Spec == Init /\ [][Next]_vars

-----------------------------------------------------------------------------
\* An operation that returns has been carried out, and one that the client calls
\* declined was refused, unless the provider had left it open: what a settled
\* payment and a refused one rest on.  An unreadable answer says nothing.
ReturnedWasTaken ==
  /\ step = "returned" => effect = "done"
  /\ step = "declined" /\ answer # "PENDING" => effect = "refused"

=============================================================================
