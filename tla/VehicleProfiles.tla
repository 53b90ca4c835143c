-------------------------- MODULE VehicleProfiles --------------------------
(***************************************************************************)
(* The vehicles of a user and the connector type that the service derives  *)
(* from make, model and year (vehicles.service.ts).  An update reads the   *)
(* row, computes from it what it writes, and writes only the fields that   *)
(* the request names: each await ends a step.  Names are compared after    *)
(* normalizeForMatching, and stand here in that form.                      *)
(***************************************************************************)
EXTENDS Integers, FiniteSets

CONSTANTS
  Vehicles,            \* ids of rows
  Makes, Models, Years,
  Requests             \* slots for requests in progress

VARIABLES
  vehicles,   \* rows by id, or Missing
  req,        \* requests in progress
  entangled   \* history: vehicles that two updates overlapped on

vars == <<vehicles, req, entangled>>

Connectors == {"TYPE_1", "TYPE_2", "CCS", "CHADEMO", "TESLA", "GBT"}
Keep == "keep"   \* an optional field that the request leaves out
KeepYear == 0

VehiclesAssumption ==
  /\ Years \subseteq Nat \ {KeepYear} /\ Keep \notin Makes \cup Models

Missing == [make |-> "missing"]
Identity == [make : Makes, model : Models, year : Years]
\* chosen: history, does the connector come from a request?
Vehicle == [make : Makes, model : Models, year : Years, connector : Connectors,
            chosen : BOOLEAN]
Fields == [make : Makes \cup {Keep}, model : Models \cup {Keep}, year : Years \cup {KeepYear},
           connector : Connectors \cup {Keep}]
Idle == [op |-> "idle"]
Update == [op : {"update"}, pc : {"find", "write"}, id : Vehicles, fields : Fields,
           named : BOOLEAN]   \* does the request name a connector?

TypeOK ==
  /\ vehicles \in [Vehicles -> {Missing} \cup Vehicle]
  /\ req \in [Requests -> {Idle} \cup Update]
  /\ entangled \subseteq Vehicles

Init ==
  /\ vehicles = [v \in Vehicles |-> Missing]
  /\ req = [r \in Requests |-> Idle]
  /\ entangled = {}

-----------------------------------------------------------------------------
GbtMakes == {"AION", "BYD", "CHANGAN", "GEELY", "LI AUTO", "NIO", "XPENG", "ZEEKR"}
ChademoMakes == {"LEXUS", "MITSUBISHI", "NISSAN"}
ChademoModels == {"LEAF", "I-MIEV", "E-NV200"}
Type2Models == {"ZOE", "TWINGO E-TECH"}
Type1Models == {"SPARK EV", "B-CLASS ELECTRIC DRIVE"}

\* Mutant: the year decides alone.
DetectByYear(make, model, year) ==
  CASE "TESLA" \in {make, model}                -> "TESLA"
    [] make \in GbtMakes                        -> "GBT"
    [] model \in Type2Models                    -> "TYPE_2"
    [] make \in ChademoMakes /\ year <= 2020    -> "CHADEMO"
    [] model \in Type1Models                    -> "TYPE_1"
    [] OTHER                                    -> "CCS"

\* detectConnectorType: the rules are tried in order.
DetectConnector(make, model, year) ==
  IF "TESLA" \in {make, model} THEN "TESLA"
  ELSE IF make \in GbtMakes THEN "GBT"
  ELSE IF model \in Type2Models THEN "TYPE_2"
  ELSE IF make \in ChademoMakes /\ (year <= 2020 \/ model \in ChademoModels) THEN "CHADEMO"
  ELSE IF model \in Type1Models THEN "TYPE_1"
  ELSE "CCS"

Merged(row, fields) ==
  [make |-> IF fields.make = Keep THEN row.make ELSE fields.make,
   model |-> IF fields.model = Keep THEN row.model ELSE fields.model,
   year |-> IF fields.year = KeepYear THEN row.year ELSE fields.year]

IdentityOf(row) == [make |-> row.make, model |-> row.model, year |-> row.year]

\* Mutant: the connector is derived only when the make changes.
UpdateDataForMake(row, fields) ==
  LET new == Merged(row, fields) IN
  IF fields.connector # Keep \/ new.make = row.make THEN fields
  ELSE [fields EXCEPT !.connector = DetectConnector(new.make, new.model, new.year)]

\* buildVehicleUpdateData
UpdateData(row, fields) ==
  LET new == Merged(row, fields) IN
  IF fields.connector # Keep \/ new = IdentityOf(row) THEN fields
  ELSE [fields EXCEPT !.connector = DetectConnector(new.make, new.model, new.year)]

NoFields == [make |-> Keep, model |-> Keep, year |-> KeepYear, connector |-> Keep]
\* Requests that name one field, or the make and a connector.
Requested ==
  {[NoFields EXCEPT !.make = m] : m \in Makes} \cup {[NoFields EXCEPT !.model = m] : m \in Models}
    \cup {[NoFields EXCEPT !.year = y] : y \in Years}
    \cup {[NoFields EXCEPT !.make = m, !.connector = "CCS"] : m \in Makes \cup {Keep}}
    \cup {NoFields}

-----------------------------------------------------------------------------
Updating == {r \in Requests : req[r].op = "update"}

\* buildCreateVehicleData
CreateData(identity, connector) ==
  [make |-> identity.make, model |-> identity.model, year |-> identity.year,
   chosen |-> connector # Keep,
   connector |-> IF connector # Keep THEN connector
                 ELSE DetectConnector(identity.make, identity.model, identity.year)]

\* createVehicle: one statement.
Create(v, identity, connector) ==
  /\ vehicles[v] = Missing
  /\ v \notin {req[r].id : r \in Updating}   \* ids are not used twice
  /\ vehicles' = [vehicles EXCEPT ![v] = CreateData(identity, connector)]
  /\ entangled' = entangled \ {v}
  /\ UNCHANGED req

BeginUpdate(r, v, fields) ==
  /\ req[r] = Idle
  /\ req' = [req EXCEPT ![r] = [op |-> "update", pc |-> "find", id |-> v, fields |-> fields,
                                 named |-> fields.connector # Keep]]
  /\ UNCHANGED <<vehicles, entangled>>

\* findFirst, and what is to be written: nothing is not allowed.
FindVehicle(r) ==
  /\ req[r].op = "update" /\ req[r].pc = "find"
  /\ LET row == vehicles[req[r].id]
         fields == req[r].fields
     IN  req' = [req EXCEPT ![r] =
           IF row = Missing \/ fields = NoFields THEN Idle
           ELSE [@ EXCEPT !.pc = "write", !.fields = UpdateData(row, fields)]]
  /\ UNCHANGED <<vehicles, entangled>>

\* update writes the fields; it fails when the row has gone.
WriteVehicle(r) ==
  /\ req[r].op = "update" /\ req[r].pc = "write"
  /\ LET v == req[r].id
         row == vehicles[v]
         fields == req[r].fields
         new == Merged(row, fields)
         others == {q \in Updating \ {r} : req[q].id = v /\ req[q].pc = "write"}
     IN  /\ vehicles' = IF row = Missing THEN vehicles ELSE
              [vehicles EXCEPT ![v] =
                 [make |-> new.make, model |-> new.model, year |-> new.year,
                  connector |-> IF fields.connector = Keep THEN row.connector ELSE fields.connector,
                  chosen |-> req[r].named \/ (row.chosen /\ fields.connector = Keep)]]
         /\ entangled' = IF others # {} THEN entangled \cup {v} ELSE entangled
  /\ req' = [req EXCEPT ![r] = Idle]

\* deleteVehicle
Delete(v) ==
  /\ vehicles[v] # Missing
  /\ vehicles' = [vehicles EXCEPT ![v] = Missing]
  /\ UNCHANGED <<req, entangled>>

Next ==
  \/ \E v \in Vehicles :
       \/ \E identity \in Identity, connector \in {Keep, "CCS"} : Create(v, identity, connector)
       \/ Delete(v)
  \/ \E r \in Requests :
       \/ \E v \in Vehicles, fields \in Requested : BeginUpdate(r, v, fields)
       \/ FindVehicle(r) \/ WriteVehicle(r)

Spec == Init /\ [][Next]_vars

-----------------------------------------------------------------------------
\* The connector of a vehicle whose last change of identity named none fits the
\* vehicle as it is now, however it came to be that, unless updates overlapped;
\* told by the makes and models themselves, not by the order of the rules.
ConnectorFits ==
  \A v \in Vehicles :
    LET car == vehicles[v] IN
    car # Missing /\ v \notin entangled /\ ~car.chosen =>
      /\ car.connector = "CHADEMO" <=>
           /\ car.make \in ChademoMakes /\ car.model \notin Type2Models \cup {"TESLA"}
           /\ car.year > 2020 => car.model \in ChademoModels
      /\ car.connector = "TESLA" <=> "TESLA" \in {car.make, car.model}
      /\ car.connector = "GBT" <=> car.make \in GbtMakes /\ car.model # "TESLA"
      /\ car.connector = "TYPE_2" =>
           car.model \in Type2Models /\ car.make \notin GbtMakes \cup {"TESLA"}
      /\ car.connector = "TYPE_1" => car.model \in Type1Models
      /\ car.connector = "CCS" => car.model \notin Type1Models \cup Type2Models

=============================================================================
