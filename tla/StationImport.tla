--------------------------- MODULE StationImport ---------------------------
(***************************************************************************)
(* The import of stations from an operator's CSV file or from Open Charge  *)
(* Map (station-import): all of the source is read into records first,     *)
(* then the records are upserted one by one, while chargers go on to       *)
(* report the status of their connectors.  A script that fails is run      *)
(* again by hand.  What a row says of a station is one value, and what it  *)
(* says of a connector is its status.                                      *)
(***************************************************************************)
EXTENDS Integers, SequencesExt, FiniteSetsExt

CONSTANTS
  Stations,   \* operator and external id: the seed of the deterministic id
  Evses,
  Facts,      \* what a row says of its station
  Files       \* contents of the sources: sequences of rows

Statuses == {"AVAILABLE", "OCCUPIED", "OFFLINE"}   \* MAINTENANCE is like OFFLINE here
None == "none"

\* A row of a file, or a connection of a point of interest: "broken" lacks a
\* required value or has a number that is none, "blank" has only empty fields.
Row == [kind : {"good", "broken", "blank"}, station : Stations, fact : Facts, evse : Evses,
        status : Statuses]

ImportAssumption == None \notin Facts /\ \A file \in Files : file \in Seq(Row)

VARIABLES
  station,    \* Station rows: what is known of each, or None
  connector,  \* Connector rows: the status of each, or None
  run,        \* the script in progress
  imported,   \* history: the last file that was imported to its end, and its source
  touched     \* history: connectors whose charger has reported since they were written

vars == <<station, connector, run, imported, touched>>

Connectors == Stations \X Evses
Idle == [pc |-> "idle"]
Record == [station : Stations, fact : Facts, connectors : Seq([evse : Evses, status : Statuses])]

TypeOK ==
  /\ station \in [Stations -> Facts \cup {None}]
  /\ connector \in [Connectors -> Statuses \cup {None}]
  /\ run.pc \in {"idle", "station", "connector"}
  /\ run.pc # "idle" =>
       /\ run.file \in Files /\ run.source \in {"csv", "ocm"}
       /\ \A record \in ToSet(run.records) : record.station \in Stations /\ record.fact \in Facts
  /\ imported.file \in Files \cup {<<>>} /\ imported.source \in {"csv", "ocm"}
  /\ touched \subseteq Connectors
  /\ \A c \in Connectors : connector[c] # None => station[c[1]] # None

Init ==
  /\ station = [s \in Stations |-> None]
  /\ connector = [c \in Connectors |-> None]
  /\ run = Idle
  /\ imported = [file |-> <<>>, source |-> "csv"]
  /\ touched = {}

-----------------------------------------------------------------------------
(* Reading the source                                                      *)

\* Map.set: the value of a key is replaced, its place is not.
SetConnector(list, new) ==
  IF \E i \in DOMAIN list : list[i].evse = new.evse
  THEN [i \in DOMAIN list |-> IF list[i].evse = new.evse THEN new ELSE list[i]]
  ELSE Append(list, new)

\* Mutant: the rows of a station that follow the first are left out.
AddFirstRow(records, row) ==
  IF \E i \in DOMAIN records : records[i].station = row.station THEN records
  ELSE Append(records, [station |-> row.station, fact |-> row.fact,
                        connectors |-> <<[evse |-> row.evse, status |-> row.status]>>])

\* The loop of parseOperatorStationsCsv: the first row of a station tells what is
\* known of it, each row adds its connector.
AddRow(records, row) ==
  LET new == [evse |-> row.evse, status |-> row.status] IN
  IF \E i \in DOMAIN records : records[i].station = row.station
  THEN [i \in DOMAIN records |->
          IF records[i].station = row.station
          THEN [records[i] EXCEPT !.connectors = SetConnector(@, new)] ELSE records[i]]
  ELSE Append(records, [station |-> row.station, fact |-> row.fact, connectors |-> <<new>>])

\* parseStationDraftRow and parseConnectorFromRow throw at a broken row.
IsRejected(file) == \E row \in ToSet(file) : row.kind = "broken"

\* mapOpenChargeMapPoiToStation: each point of interest is a record of its own, with
\* its connections as they come.
AddPoi(records, row) ==
  Append(records, [station |-> row.station, fact |-> row.fact,
                   connectors |-> <<[evse |-> row.evse, status |-> row.status]>>])

\* An empty row, or a point of interest without what is needed, is skipped.
Add(source, records, row) ==
  IF row.kind # "good" THEN records
  ELSE IF source = "csv" THEN AddRow(records, row) ELSE AddPoi(records, row)

\* The loops over the rows of a source: what they have made of the first n rows.
RecordsOf(source, file) ==
  LET records[n \in 0..Len(file)] ==
        IF n = 0 THEN <<>> ELSE Add(source, records[n - 1], file[n])
  IN  records[Len(file)]

Begin(file, source) ==
  LET records == RecordsOf(source, file) IN
  /\ run = Idle
  /\ IF records = <<>> THEN imported' = [file |-> file, source |-> source] /\ UNCHANGED run
     ELSE /\ run' = [pc |-> "station", file |-> file, source |-> source, records |-> records]
          /\ UNCHANGED imported
  /\ UNCHANGED <<station, connector, touched>>

\* The scripts: a rejected file, or a request that fails, ends them here.
BeginCsv(file) == ~IsRejected(file) /\ Begin(file, "csv")
BeginOcm(file) == Begin(file, "ocm")

-----------------------------------------------------------------------------
(* importStations                                                          *)

\* The upsert of a station: its id is that of the same station in every run.
UpsertStation ==
  /\ run.pc = "station"
  /\ LET record == Head(run.records) IN
       station' = [station EXCEPT ![record.station] = record.fact]
  /\ run' = [run EXCEPT !.pc = "connector"]
  /\ UNCHANGED <<connector, imported, touched>>

\* The upsert of a connector: the status of the source replaces what the charger
\* has reported, and no cached answer is invalidated.
UpsertConnector ==
  /\ run.pc = "connector"
  /\ LET record == Head(run.records)
         first == Head(record.connectors)
         more == Tail(record.connectors)
         left == Tail(run.records)
     IN  /\ connector' = [connector EXCEPT ![<<record.station, first.evse>>] = first.status]
         /\ touched' = touched \ {<<record.station, first.evse>>}
         /\ IF more # <<>>
            THEN run' = [run EXCEPT !.records[1].connectors = more] /\ UNCHANGED imported
            ELSE IF left # <<>>
            THEN run' = [run EXCEPT !.records = left, !.pc = "station"] /\ UNCHANGED imported
            ELSE run' = Idle /\ imported' = [file |-> run.file, source |-> run.source]
  /\ UNCHANGED station

\* importStations: the loops over the records and their connectors.
ImportStep == UpsertStation \/ UpsertConnector

\* The database fails or the script is stopped: what has been written stays.
Abort ==
  /\ run # Idle
  /\ run' = Idle
  /\ imported' = [file |-> <<>>, source |-> "csv"]
  /\ UNCHANGED <<station, connector, touched>>

\* A StatusNotification of a charger.
Report(c, status) ==
  /\ connector[c] # None
  /\ connector' = [connector EXCEPT ![c] = status]
  /\ touched' = touched \cup {c}
  /\ UNCHANGED <<station, run, imported>>

Next ==
  \/ \E file \in Files : BeginCsv(file) \/ BeginOcm(file)
  \/ ImportStep \/ Abort
  \/ \E c \in Connectors, status \in {"OCCUPIED", "OFFLINE"} : Report(c, status)

Spec == Init /\ [][Next]_vars

-----------------------------------------------------------------------------
\* The places of the good rows of a file that are about a station, or a connector.
RowsOf(file, s) == {i \in DOMAIN file : file[i].kind = "good" /\ file[i].station = s}
RowsAbout(file, c) == {i \in RowsOf(file, c[1]) : file[i].evse = c[2]}

\* When no script is at work, the last complete import is in the database, however
\* many runs were cut off or came before it: a CSV file says of a station what its
\* first row says, Open Charge Map what its last one does, and both say of a
\* connector what the last row does, until its charger reports.
ImportIsComplete ==
  run = Idle =>
    LET file == imported.file IN
    /\ \A s \in Stations : RowsOf(file, s) # {} =>
         station[s] = file[IF imported.source = "csv" THEN Min(RowsOf(file, s))
                           ELSE Max(RowsOf(file, s))].fact
    /\ \A c \in Connectors \ touched : RowsAbout(file, c) # {} =>
         connector[c] = file[Max(RowsAbout(file, c))].status

\* An import takes nothing away, and touches only what its source speaks of.
TouchesItsRows ==
  /\ \A s \in Stations : station'[s] # station[s] => run # Idle /\ RowsOf(run.file, s) # {}
  /\ \A c \in Connectors : connector'[c] # connector[c] =>
       c \in touched' \/ (run # Idle /\ RowsAbout(run.file, c) # {})
ImportKeepsOthers == [][TouchesItsRows]_vars

=============================================================================
