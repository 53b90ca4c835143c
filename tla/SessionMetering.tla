-------------------------- MODULE SessionMetering --------------------------
(***************************************************************************)
(* The meter values of one charging session: their ingestion, the live     *)
(* update that follows it, and the totals that StopTransaction takes from  *)
(* them (ocpp.meter-values.service.ts, session-monitoring.service.ts,      *)
(* session-cost-calculator.service.ts, ocpp.transactions.service.ts).      *)
(* A charger may send a reading late, again or never; each await of a      *)
(* handler ends a step.  Time is a clock that starts with the session, and *)
(* a message is the set of times of its valid samples.                     *)
(***************************************************************************)
EXTENDS Integers, FiniteSetsExt

CONSTANTS
  Slots,      \* MeterValues in progress
  MaxClock,   \* bound on the clock
  Base        \* the energy register when the session starts

MeteringAssumption == MaxClock \in Nat /\ Base \in Nat \ {0}

VARIABLES
  clock,
  readings,    \* readings[t]: what the charger measured at t
  samples,     \* rows of meter_values, by timestamp
  ingest,      \* MeterValues in progress
  shown,       \* the last live update that was emitted
  stop,        \* the StopTransaction
  overlapped,  \* history: have two MeterValues been in progress at once?
  late         \* history: were samples stored after the totals were read?

vars == <<clock, readings, samples, ingest, shown, stop, overlapped, late>>

Times == 1..MaxClock
Energies == Base..(Base + MaxClock)
Unread == -1

\* active: more than ACTIVE_POWER_THRESHOLD_WATTS at that moment.
Reading == [energy : Energies, active : BOOLEAN]

Idle == [pc |-> "idle"]
Ingestion == [pc : {"insert", "read", "cost", "emit"}, times : SUBSET Times,
              energy : Unread..(Base + MaxClock), latest : 0..MaxClock]
NoStop == [pc |-> "none"]
Bill == [charging : 0..MaxClock, idle : 0..MaxClock]
Unpriced == [charging |-> 0, idle |-> 0]   \* the fallback of a cost that cannot be calculated
StopHandler == [pc : {"totals", "cost", "save", "done"}, at : 0..MaxClock,
                energy : Unread..(Base + MaxClock), priced : BOOLEAN, bill : Bill]

TypeOK ==
  /\ clock \in 0..MaxClock
  /\ readings \in [1..clock -> Reading]
  /\ samples \subseteq 1..clock
  /\ ingest \in [Slots -> {Idle} \cup Ingestion]
  /\ shown \in [time : 0..MaxClock, energy : 0..(Base + MaxClock)]
  /\ stop \in {NoStop} \cup StopHandler
  /\ {overlapped, late} \subseteq BOOLEAN

Init ==
  /\ clock = 0 /\ readings = [t \in {} |-> [energy |-> Base, active |-> FALSE]]
  /\ samples = {}
  /\ ingest = [r \in Slots |-> Idle]
  /\ shown = [time |-> 0, energy |-> 0]
  /\ stop = NoStop
  /\ overlapped = FALSE /\ late = FALSE

-----------------------------------------------------------------------------
(* Computations over the stored samples                                    *)

Energy(t) == readings[t].energy

\* Mutant: the register is taken for the energy of the session.
DeliveredFromZero(times) == IF times = {} THEN 0 ELSE Max({Energy(t) : t \in times})

\* calculateEnergyDeliveredKwh
Delivered(times) ==
  IF times = {} THEN 0
  ELSE Max({Energy(t) : t \in times}) - Min({Energy(t) : t \in times})

\* resolveLastChargingTimestamp: samples with power, or with more energy than
\* the sample before.
ChargingTimes(times) ==
  {t \in times : readings[t].active
                   \/ \E p \in times : /\ p < t /\ Energy(p) < Energy(t)
                                       /\ ~\E q \in times : p < q /\ q < t}

\* calculateDurationMinutes
Duration(from, to) == IF to > from THEN to - from ELSE 0

\* resolveIdleDurationMinutes
IdleDuration(times, energy, at) ==
  IF times = {} THEN 0
  ELSE IF ChargingTimes(times) # {} THEN Duration(Max(ChargingTimes(times)), at)
  ELSE IF energy > 0 THEN 0 ELSE Duration(0, at)

\* calculateSessionCost: what the pricing plan multiplies with its rates.
SessionCost(times, energy, at) ==
  LET idle == IdleDuration(times, energy, at)
  IN  [charging |-> Duration(idle, Duration(0, at)), idle |-> idle]

-----------------------------------------------------------------------------
(* The charger and the network                                             *)

Measure(energy, active) ==
  /\ clock < MaxClock /\ stop = NoStop
  /\ energy >= (IF clock = 0 THEN Base ELSE Energy(clock)) /\ energy <= Base + clock + 1
  /\ clock' = clock + 1
  /\ readings' = [t \in 1..(clock + 1) |->
                    IF t <= clock THEN readings[t] ELSE [energy |-> energy, active |-> active]]
  /\ UNCHANGED <<samples, ingest, shown, stop, overlapped, late>>

\* A MeterValues message arrives and names this session.
Receive(r, times) ==
  /\ ingest[r] = Idle
  /\ ingest' = [ingest EXCEPT ![r] =
       [pc |-> "insert", times |-> times, energy |-> Unread, latest |-> 0]]
  /\ overlapped' = (overlapped \/ \E q \in Slots : ingest[q] # Idle)
  /\ UNCHANGED <<clock, readings, samples, shown, stop, late>>

-----------------------------------------------------------------------------
(* ingestMeterValues, publishSessionMonitorUpdate                          *)

\* createMany with skipDuplicates; an update is published for new rows only.
Insert(r) ==
  /\ ingest[r].pc = "insert"
  /\ samples' = samples \cup ingest[r].times
  /\ ingest' = [ingest EXCEPT ![r] =
       IF ingest[r].times \subseteq samples THEN Idle ELSE [@ EXCEPT !.pc = "read"]]
  /\ late' = (late \/ (stop.pc \notin {"none", "totals"} /\ ~(ingest[r].times \subseteq samples)))
  /\ UNCHANGED <<clock, readings, shown, stop, overlapped>>

\* The two queries of Promise.all, in either order.
ReadDone(i) == IF i.energy # Unread /\ i.latest # 0 THEN [i EXCEPT !.pc = "cost"] ELSE i

ReadAggregate(r) ==
  /\ ingest[r].pc = "read" /\ ingest[r].energy = Unread
  /\ ingest' = [ingest EXCEPT ![r] = ReadDone([@ EXCEPT !.energy = Delivered(samples)])]
  /\ UNCHANGED <<clock, readings, samples, shown, stop, overlapped, late>>

\* Mutant: the samples are ordered the other way round.
ReadEarliest(r) ==
  /\ ingest[r].pc = "read" /\ ingest[r].latest = 0
  /\ ingest' = [ingest EXCEPT ![r] = ReadDone([@ EXCEPT !.latest = Min(samples)])]
  /\ UNCHANGED <<clock, readings, samples, shown, stop, overlapped, late>>

ReadLatest(r) ==
  /\ ingest[r].pc = "read" /\ ingest[r].latest = 0
  /\ ingest' = [ingest EXCEPT ![r] = ReadDone([@ EXCEPT !.latest = Max(samples)])]
  /\ UNCHANGED <<clock, readings, samples, shown, stop, overlapped, late>>

\* resolveLiveCost: it reads again; a failure is shown as a cost of 0.
ReadLiveCost(r) ==
  /\ ingest[r].pc = "cost"
  /\ ingest' = [ingest EXCEPT ![r].pc = "emit"]
  /\ UNCHANGED <<clock, readings, samples, shown, stop, overlapped, late>>

\* emitSessionMonitorUpdate
Emit(r) ==
  /\ ingest[r].pc = "emit"
  /\ shown' = [time |-> ingest[r].latest, energy |-> ingest[r].energy]
  /\ ingest' = [ingest EXCEPT ![r] = Idle]
  /\ UNCHANGED <<clock, readings, samples, stop, overlapped, late>>

\* The database or the process fails.
Fail(r) ==
  /\ ingest[r] # Idle
  /\ ingest' = [ingest EXCEPT ![r] = Idle]
  /\ UNCHANGED <<clock, readings, samples, shown, stop, overlapped, late>>

-----------------------------------------------------------------------------
(* handleStopTransaction, which the charger sends again after a failure    *)

BeginStop ==
  /\ stop = NoStop
  /\ stop' = [pc |-> "totals", at |-> clock, energy |-> Unread, priced |-> FALSE, bill |-> Unpriced]
  /\ UNCHANGED <<clock, readings, samples, ingest, shown, overlapped, late>>

ReadTotals ==
  /\ stop.pc = "totals"
  /\ stop' = [stop EXCEPT !.pc = "cost", !.energy = Delivered(samples)]
  /\ UNCHANGED <<clock, readings, samples, ingest, shown, overlapped, late>>

\* calculateFinalCost: without a pricing plan, or after an error, the cost is 0.
CalculateCost ==
  /\ stop.pc = "cost"
  /\ \/ stop' = [stop EXCEPT !.pc = "save", !.priced = TRUE,
                             !.bill = SessionCost(samples, stop.energy, stop.at)]
     \/ stop' = [stop EXCEPT !.pc = "save"]
  /\ UNCHANGED <<clock, readings, samples, ingest, shown, overlapped, late>>

SaveTotals ==
  /\ stop.pc = "save"
  /\ stop' = [stop EXCEPT !.pc = "done"]
  /\ UNCHANGED <<clock, readings, samples, ingest, shown, overlapped, late>>

FailStop ==
  /\ stop.pc \in {"totals", "cost", "save"}
  /\ stop' = [pc |-> "totals", at |-> stop.at, energy |-> Unread, priced |-> FALSE, bill |-> Unpriced]
  /\ UNCHANGED <<clock, readings, samples, ingest, shown, overlapped, late>>

\* The session is completed: a StopTransaction that is sent again changes nothing.
IgnoreStop == stop.pc = "done" /\ UNCHANGED vars

Next ==
  \/ \E energy \in Energies, active \in BOOLEAN : Measure(energy, active)
  \/ \E r \in Slots :
       \/ \E times \in SUBSET (1..clock) \ {{}} : Receive(r, times)
       \/ Insert(r) \/ ReadAggregate(r) \/ ReadLatest(r) \/ ReadLiveCost(r) \/ Emit(r)
       \/ Fail(r)
  \/ BeginStop \/ ReadTotals \/ CalculateCost \/ SaveTotals \/ FailStop \/ IgnoreStop

Spec == Init /\ [][Next]_vars

-----------------------------------------------------------------------------
\* While the charger waits for the answer to one MeterValues before the next,
\* live updates never go back in time or energy, though readings come late.
LiveGoesOn == ~overlapped => shown'.time >= shown.time /\ shown'.energy >= shown.energy
LiveNeverGoesBack == [][LiveGoesOn]_vars

\* Nobody is billed for more energy than the charger measured, nor, unless samples
\* came after the totals were read, for less than was shown to them; charging and
\* idle time then add up to the session's.
BilledAsMeasured ==
  stop.pc = "done" =>
    /\ stop.energy <= (IF clock = 0 THEN 0 ELSE Energy(clock) - Base)
    /\ stop.priced => stop.bill.charging + stop.bill.idle = stop.at
    /\ ~late => stop.energy >= shown.energy

=============================================================================
