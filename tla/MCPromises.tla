----------------------------- MODULE MCPromises -----------------------------
(***************************************************************************)
(* What the code promises to its callers, for TLC: the wallet implements   *)
(* the ledger of its comment and the sessions their lifecycle, as long as  *)
(* requests do not overlap, and a remote command returns. Each behaviour   *)
(* is one of one part, which the initial state chooses; the others rest.   *)
(***************************************************************************)
EXTENDS Wallet

CONSTANTS
  Sessions, Costs, HoldAmount, MaxEntries,                      \* ChargingSession
  Points, Clients, Connectors, IdTags, RemoteStarts, RemoteStops,
  MaxAttempts, MaxClock, MaxTransactionId                       \* RemoteCommands

VARIABLES
  part,
  session, walletDefault, deducted, checked, demand,
  payment, books, orphaned, overlapped, call,
  socket, registration, command, tracked, expired, nextTransactionId, clock,
  started, starting, outrun

Charging == INSTANCE ChargingSession WITH req <- demand
Commands == INSTANCE RemoteCommands WITH sessions <- started, request <- starting

ASSUME PromisesAssumption == Charging!CostsAssumption

chargingVars == <<session, walletDefault, deducted, checked, demand,
                  payment, books, orphaned, overlapped, call>>
commandVars == <<socket, registration, command, tracked, expired, nextTransactionId, clock,
                 started, starting, outrun>>

PromisesInit ==
  /\ part \in {"wallet", "charging", "commands"}
  /\ Init /\ Charging!Init /\ Commands!Init

WalletStep == part = "wallet" /\ Next /\ UNCHANGED <<part, chargingVars, commandVars>>
ChargingStep == part = "charging" /\ Charging!Next /\ UNCHANGED <<part, vars, commandVars>>
CommandsStep == part = "commands" /\ Commands!Next /\ UNCHANGED <<part, vars, chargingVars>>

\* The fairness of RemoteCommands, in its own behaviours.
TimersFire ==
  \A k \in RemoteStarts \cup RemoteStops :
    /\ WF_commandVars(/\ part = "commands"
                      /\ \/ Commands!Fail(k)
                         \/ \E status \in {"accepted", "rejected"} : Commands!Answer(k, status))
    /\ WF_commandVars(part = "commands" /\ Commands!Retry(k))

PromisesSpec ==
  /\ PromisesInit
  /\ [][WalletStep \/ ChargingStep \/ CommandsStep]_<<part, vars, chargingVars, commandVars>>
  /\ TimersFire

-----------------------------------------------------------------------------
\* A session moves only along the edges of SESSION_STATE_TRANSITIONS when its
\* requests come one at a time, whatever fails half way.
ImplementsLifecycle == Charging!ImplementsLifecycle

\* A remote command is answered after at most MaxAttempts calls.
CommandReturns == Commands!CommandReturns

=============================================================================
