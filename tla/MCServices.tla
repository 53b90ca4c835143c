----------------------------- MODULE MCServices -----------------------------
(***************************************************************************)
(* The services beside wallet, sessions and chargers for TLC: accounts,    *)
(* payment methods, metering, what users write, vehicles, reports of       *)
(* connectors, the import of stations, and the client that the app calls   *)
(* them with. They share no state in these modules, so that each behaviour *)
(* is one of one part, which the initial state chooses; the others rest.   *)
(***************************************************************************)
EXTENDS Integers, TLC

CONSTANTS
  Requests,                                        \* slots, of each part
  Emails, Numbers, MaxCode, MaxRefresh,            \* Auth
  Tokens, MaxMethods,                              \* PaymentMethods
  MaxReading, Base,                                \* SessionMetering
  Writers, Stations, Addressed, Mailing, MaxRows,  \* UserContent
  Vehicles, Makes, Models, Years,                  \* VehicleProfiles
  Reporters, MaxReports, MaxHour, Reviews, Sessions, Recent,  \* StatusReports
  Sites, Evses, Facts,                             \* StationImport
  AppUsers, Resources, Lifetimes, MaxVersion, MaxClock        \* ApiCalls

VARIABLES
  part,
  users, otp, session, accountReq, codes, tokens, issued, rotated, held, disturbed,
  methods, methodReq, chosen, cutOff,
  time, readings, samples, ingest, shown, stop, overlapped, late,
  writers, reviews, favorites, problems, lastId, contentReq, crossed,
  vehicles, vehicleReq, entangled,
  reports, merits, hour, reportReq,
  station, connector, run, imported, touched,
  server, signedIn, clock, cache, calls, ended, floor, raced, strangers

\* The method that there is before.
Seeded == <<"IDRAM">>

\* Sources of two rows: a station after a broken row or after another, its other
\* connector, other facts of the same one, and a row without an id.
SourceRow(kind, s, fact, e, status) ==
  [kind |-> kind, station |-> s, fact |-> fact, evse |-> e, status |-> status]
FirstRows ==
  {SourceRow("good", "k1", "f1", "e1", "AVAILABLE"),
   SourceRow("broken", "k2", "f1", "e1", "AVAILABLE")}
SecondRows ==
  {SourceRow("good", "k1", "f2", "e1", "OFFLINE"),
   SourceRow("good", "k1", "f2", "e2", "AVAILABLE"),
   SourceRow("good", "k2", "f1", "e1", "AVAILABLE"),
   SourceRow("blank", "k2", "f2", "e1", "AVAILABLE")}
Files == {<<first, second>> : first \in FirstRows, second \in SecondRows}

Accounts == INSTANCE Auth WITH Phones <- Numbers, MaxToken <- MaxRefresh, req <- accountReq
Methods == INSTANCE PaymentMethods WITH req <- methodReq, disturbed <- cutOff
Metering == INSTANCE SessionMetering WITH Slots <- Requests, MaxClock <- MaxReading, clock <- time
Content == INSTANCE UserContent WITH
  Users <- Writers, users <- writers, reports <- problems, req <- contentReq
Cars == INSTANCE VehicleProfiles WITH req <- vehicleReq
Believed == INSTANCE StatusReports WITH Users <- Reporters, req <- reportReq
Import == INSTANCE StationImport WITH Stations <- Sites
Api == INSTANCE ApiCalls WITH Users <- AppUsers, Calls <- Requests, session <- signedIn

ASSUME ServicesAssumptions ==
  /\ Accounts!BoundsAssumption /\ Methods!MethodsAssumption /\ Metering!MeteringAssumption
  /\ Content!ContentAssumption /\ Cars!VehiclesAssumption /\ Believed!ReportsAssumption
  /\ Import!ImportAssumption /\ Api!CallsAssumption

SlotSymmetry == Permutations(Requests)

accountVars == <<users, otp, session, accountReq, codes, tokens, issued, rotated, held, disturbed>>
methodVars == <<methods, methodReq, chosen, cutOff>>
meterVars == <<time, readings, samples, ingest, shown, stop, overlapped, late>>
contentVars == <<writers, reviews, favorites, problems, lastId, contentReq, crossed>>
vehicleVars == <<vehicles, vehicleReq, entangled>>
reportVars == <<reports, merits, hour, reportReq>>
importVars == <<station, connector, run, imported, touched>>
apiVars == <<server, signedIn, clock, cache, calls, ended, floor, raced, strangers>>
vars == <<part, accountVars, methodVars, meterVars, contentVars, vehicleVars, reportVars,
          importVars, apiVars>>

Init ==
  /\ part \in {"accounts", "methods", "metering", "content", "vehicles", "reports", "import", "api"}
  /\ Accounts!Init /\ Methods!Init /\ Metering!Init /\ Content!Init /\ Cars!Init
  /\ Believed!Init /\ Import!Init /\ Api!Init
  /\ part # "reports" =>
       \A u \in Reporters : merits[u] = [reviews |-> 0, sessions |-> 0]

AccountsStep == part = "accounts" /\ Accounts!Next
  /\ UNCHANGED <<part, methodVars, meterVars, contentVars, vehicleVars, reportVars, importVars, apiVars>>
MethodsStep == part = "methods" /\ Methods!Next
  /\ UNCHANGED <<part, accountVars, meterVars, contentVars, vehicleVars, reportVars, importVars, apiVars>>
MeteringStep == part = "metering" /\ Metering!Next
  /\ UNCHANGED <<part, accountVars, methodVars, contentVars, vehicleVars, reportVars, importVars, apiVars>>
ContentStep == part = "content" /\ Content!Next
  /\ UNCHANGED <<part, accountVars, methodVars, meterVars, vehicleVars, reportVars, importVars, apiVars>>
VehiclesStep == part = "vehicles" /\ Cars!Next
  /\ UNCHANGED <<part, accountVars, methodVars, meterVars, contentVars, reportVars, importVars, apiVars>>
ReportsStep == part = "reports" /\ Believed!Next
  /\ UNCHANGED <<part, accountVars, methodVars, meterVars, contentVars, vehicleVars, importVars, apiVars>>
ImportStep == part = "import" /\ Import!Next
  /\ UNCHANGED <<part, accountVars, methodVars, meterVars, contentVars, vehicleVars, reportVars, apiVars>>
ApiStep == part = "api" /\ Api!Next
  /\ UNCHANGED <<part, accountVars, methodVars, meterVars, contentVars, vehicleVars, reportVars, importVars>>

Next ==
  \/ AccountsStep \/ MethodsStep \/ MeteringStep \/ ContentStep
  \/ VehiclesStep \/ ReportsStep \/ ImportStep \/ ApiStep

Spec == Init /\ [][Next]_vars

-----------------------------------------------------------------------------
\* The types of the parts. A part at rest keeps its initial state, so that each
\* part is examined in its own behaviours only, here and below.
TypeOK ==
  /\ part = "accounts" => Accounts!TypeOK
  /\ part = "methods" => Methods!TypeOK
  /\ part = "metering" => Metering!TypeOK
  /\ part = "content" => Content!TypeOK
  /\ part = "vehicles" => Cars!TypeOK
  /\ part = "reports" => Believed!TypeOK
  /\ part = "import" => Import!TypeOK
  /\ part = "api" => Api!TypeOK

\* No two accounts share a phone or an email, and a refresh token is of use once.
AccountsAreSafe == part = "accounts" => Accounts!AccountsAreUnique /\ Accounts!TokensRotate

\* The payment method that a user has chosen is the default and pays the sessions.
ChoicesAreKept == part = "methods" => Methods!DefaultIsTheChoice /\ Methods!ChargesTheChoice

\* A session is billed for the energy that its charger has measured.
BilledAsMeasured == part = "metering" => Metering!BilledAsMeasured

\* What users write: one review of a station, reports that reach the operator, and
\* vehicles with a connector that fits them.
ContentIsSound ==
  /\ part = "content" => Content!OneReviewEach /\ Content!AnsweredReportsAreMailed
  /\ part = "vehicles" => Cars!ConnectorFits

\* Of the reports of a connector, a recent one of a trusted user is believed.
ReportsAreBelieved == part = "reports" => Believed!BelievedIsRecent /\ Believed!BelievedIsTrusted

\* The last complete import is in the database, however many were cut off before.
ImportIsComplete == part = "import" => Import!ImportIsComplete

\* The app is told the truth by its client, and by the cache in front of it.
AnswersAreTrue == part = "api" => Api!OutcomeIsTrue /\ Api!CacheIsTrue

\* No step of one goes back on another: live updates do not go back, content stays,
\* and an import leaves alone what its source says nothing of.
StepsKeepOthers ==
  [][/\ part = "metering" => Metering!LiveGoesOn
     /\ part = "content" => Content!TakesNothing
     /\ part = "import" => Import!TouchesItsRows]_vars

=============================================================================
