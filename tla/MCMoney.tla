------------------------------ MODULE MCMoney ------------------------------
(***************************************************************************)
(* Wallet, sessions and providers for TLC: overlapping operations of a     *)
(* wallet; starts and stops of a session with its payments; and the calls  *)
(* of the providers below both.  Each behaviour is one of one part, which  *)
(* the initial state chooses; the others rest.                             *)
(***************************************************************************)
EXTENDS Wallet, TLC

CONSTANTS
  Sessions, Costs, HoldAmount, MaxEntries,  \* ChargingSession
  Starters                                  \* slots for requests of the sessions

VARIABLES
  part,
  session, walletDefault, deducted, checked, demand,
  payment, books, orphaned, overlapped, call,
  kind, settings, step, answer, effect

Charging == INSTANCE ChargingSession WITH Requests <- Starters, req <- demand
Gateways == INSTANCE GatewayCalls

ASSUME ChargingAssumption == Charging!CostsAssumption

SlotSymmetry == Permutations(Requests) \cup Permutations(Starters)

chargingVars == <<session, walletDefault, deducted, checked, demand,
                  payment, books, orphaned, overlapped, call>>
gatewayVars == <<kind, settings, step, answer, effect>>

MoneyInit ==
  /\ part \in {"wallet", "charging", "gateways"}
  /\ Init /\ Charging!Init /\ Gateways!Init
  /\ part # "gateways" => kind = "capture" /\ settings = "complete"

WalletStep == part = "wallet" /\ Next /\ UNCHANGED <<part, chargingVars, gatewayVars>>
ChargingStep == part = "charging" /\ Charging!Next /\ UNCHANGED <<part, vars, gatewayVars>>
GatewaysStep == part = "gateways" /\ Gateways!Next /\ UNCHANGED <<part, vars, chargingVars>>

MoneySpec ==
  MoneyInit
    /\ [][WalletStep \/ ChargingStep \/ GatewaysStep]_<<part, vars, chargingVars, gatewayVars>>

-----------------------------------------------------------------------------
\* The types of the sessions and of the calls of the providers. A part at rest keeps
\* its initial state, so that each is examined in its own behaviours only.
PartsTypeOK ==
  /\ part = "charging" => Charging!TypeOK
  /\ part = "gateways" => Gateways!TypeOK

\* A session charges only with an authorized payment or a checked wallet.
ActiveIsBacked == part = "charging" => Charging!ActiveIsBacked

\* Deductions, their records and the holds of a session follow its life.
MoneyIsTracked == part = "charging" => Charging!MoneyIsTracked

\* A session that a charger started ends once and for all.
ChargerNeverReopens ==
  [][part = "charging" => Charging!ChargersEndForGood]_<<part, chargingVars>>

\* What a provider's client returns has been done, what it calls declined has not.
ReturnedWasTaken == part = "gateways" => Gateways!ReturnedWasTaken

=============================================================================
