---------------------------- MODULE ImportProofs ----------------------------
(***************************************************************************)
(* Proofs about the station import in MCServices: what the records read    *)
(* from a source say of its rows, and that the loop over them leaves the   *)
(* database with what the rows say, for every file and any number of runs. *)
(***************************************************************************)
EXTENDS MCServices, Sequences, FiniteSetTheorems, WellFoundedInduction, TLAPS

(* A step is one of the part that the behaviour is of, or of nothing.       *)
LEMMA PartStep ==
  ASSUME [Next]_vars
  PROVE  /\ part' = part
         /\ part = "accounts" => [Accounts!Next]_accountVars
         /\ part = "methods" => [Methods!Next]_methodVars
         /\ part = "metering" => [Metering!Next]_meterVars
         /\ part = "content" => [Content!Next]_contentVars
         /\ part = "vehicles" => [Cars!Next]_vehicleVars
         /\ part = "reports" => [Believed!Next]_reportVars
         /\ part = "import" => [Import!Next]_importVars
         /\ part = "api" => [Api!Next]_apiVars
<1>1. CASE AccountsStep
  BY <1>1 DEF AccountsStep
<1>2. CASE MethodsStep
  BY <1>2 DEF MethodsStep
<1>3. CASE MeteringStep
  BY <1>3 DEF MeteringStep
<1>4. CASE ContentStep
  BY <1>4 DEF ContentStep
<1>5. CASE VehiclesStep
  BY <1>5 DEF VehiclesStep
<1>6. CASE ReportsStep
  BY <1>6 DEF ReportsStep
<1>7. CASE ImportStep
  BY <1>7 DEF ImportStep
<1>8. CASE ApiStep
  BY <1>8 DEF ApiStep
<1>9. CASE UNCHANGED vars
  BY <1>9 DEF vars
<1> QED BY <1>1, <1>2, <1>3, <1>4, <1>5, <1>6, <1>7, <1>8, <1>9 DEF Next

(* A set of natural numbers has a least one.                                *)
LEMMA LeastNumber ==
  ASSUME NEW S, S \subseteq Nat, S # {}
  PROVE  \E i \in S : \A j \in S : i <= j
<1>1. PICK i \in S : \A j \in S : ~(<<j, i>> \in OpToRel(<, Nat))
  BY NatLessThanWellFounded, WFMin
<1>2. \A j \in S : ~(j < i)
  BY <1>1 DEF OpToRel
<1> QED BY <1>2

-----------------------------------------------------------------------------
(* Station import                                                          *)

(* The rows among the first n of a file that are about a station, and about *)
(* a connector of it.                                                       *)
UpTo(file, n, s) == {i \in Import!RowsOf(file, s) : i <= n}
AboutUpTo(file, n, s, e) == {i \in Import!RowsAbout(file, <<s, e>>) : i <= n}

(* What these rows say: of a station what the first one of a CSV file says, *)
(* or the last one of Open Charge Map; of a connector what the last says.   *)
TellsFact(source, file, n, s, fact) ==
  \E i \in UpTo(file, n, s) :
    /\ fact = file[i].fact
    /\ \A j \in UpTo(file, n, s) : IF source = "csv" THEN i <= j ELSE j <= i
TellsStatus(file, n, s, e, status) ==
  \E i \in AboutUpTo(file, n, s, e) :
    status = file[i].status /\ \A j \in AboutUpTo(file, n, s, e) : j <= i

(* Where records speak of a station, and of a connector.                    *)
Names(records, i, s) == i \in 1..Len(records) /\ records[i].station = s
About(records, i, k, s, e) ==
  /\ i \in 1..Len(records) /\ k \in 1..Len(records[i].connectors)
  /\ records[i].station = s /\ records[i].connectors[k].evse = e

LastOf(records, i, s) ==
  Names(records, i, s) /\ \A j \in Nat : Names(records, j, s) => j <= i
LastAbout(records, i, k, s, e) ==
  /\ About(records, i, k, s, e)
  /\ \A j, l \in Nat : About(records, j, l, s, e) => j < i \/ (j = i /\ l <= k)

Plugs == [evse : Evses, status : Import!Statuses]
IsList(records) ==
  /\ records \in Seq(Import!Record)
  /\ \A i \in 1..Len(records) : records[i].connectors # <<>>

(* Records that come from these rows, and of which the last one about a     *)
(* station, or a connector, says what the rows say.                         *)
Remains(source, file, n, records) ==
  /\ IsList(records)
  /\ \A s \in Sites, i \in Nat : Names(records, i, s) => UpTo(file, n, s) # {}
  /\ \A s \in Sites, e \in Evses, i, k \in Nat :
       About(records, i, k, s, e) => AboutUpTo(file, n, s, e) # {}
  /\ \A s \in Sites, i \in Nat :
       LastOf(records, i, s) => TellsFact(source, file, n, s, records[i].fact)
  /\ \A s \in Sites, e \in Evses, i, k \in Nat :
       LastAbout(records, i, k, s, e) =>
         TellsStatus(file, n, s, e, records[i].connectors[k].status)

(* And there is one about each of the stations and connectors of the rows.  *)
ReadsRows(source, file, n, records) ==
  /\ Remains(source, file, n, records)
  /\ \A s \in Sites : UpTo(file, n, s) # {} => \E i \in Nat : Names(records, i, s)
  /\ \A s \in Sites, e \in Evses :
       AboutUpTo(file, n, s, e) # {} => \E i, k \in Nat : About(records, i, k, s, e)

(* What one more row adds.                                                  *)
LEMMA OneMoreRow ==
  ASSUME NEW file \in Seq(Import!Row), NEW n \in 1..Len(file)
  PROVE  /\ n - 1 \in Nat /\ file[n] \in Import!Row
         /\ \A s : UpTo(file, n, s) =
              UpTo(file, n - 1, s) \cup
                (IF file[n].kind = "good" /\ file[n].station = s THEN {n} ELSE {})
         /\ \A s, e : AboutUpTo(file, n, s, e) =
              AboutUpTo(file, n - 1, s, e) \cup
                (IF file[n].kind = "good" /\ file[n].station = s /\ file[n].evse = e
                 THEN {n} ELSE {})
         /\ \A s : UpTo(file, n - 1, s) \subseteq 1..(n - 1)
         /\ \A s, e : AboutUpTo(file, n - 1, s, e) \subseteq 1..(n - 1)
<1>1. /\ n \in Nat /\ n - 1 \in Nat /\ Len(file) \in Nat /\ DOMAIN file = 1..Len(file)
      /\ file[n] \in Import!Row
  OBVIOUS
<1>2. ASSUME NEW i \in 1..Len(file)
      PROVE  /\ i <= n <=> (i = n \/ i <= n - 1)
             /\ i <= n - 1 => i \in 1..(n - 1)
  BY <1>1
<1>3. \A s : Import!RowsOf(file, s) = {i \in 1..Len(file) : file[i].kind = "good" /\ file[i].station = s}
  BY <1>1 DEF Import!RowsOf
<1>4. \A s, e : Import!RowsAbout(file, <<s, e>>)
                 = {i \in 1..Len(file) : file[i].kind = "good" /\ file[i].station = s
                                         /\ file[i].evse = e}
  BY <1>3 DEF Import!RowsAbout
<1>5. ASSUME NEW s
      PROVE  /\ UpTo(file, n, s) = UpTo(file, n - 1, s) \cup
                  (IF file[n].kind = "good" /\ file[n].station = s THEN {n} ELSE {})
             /\ UpTo(file, n - 1, s) \subseteq 1..(n - 1)
  <2>1. \A i : i \in UpTo(file, n, s) <=>
           i \in 1..Len(file) /\ file[i].kind = "good" /\ file[i].station = s /\ i <= n
    BY <1>3 DEF UpTo
  <2>2. \A i : i \in UpTo(file, n - 1, s) <=>
           i \in 1..Len(file) /\ file[i].kind = "good" /\ file[i].station = s /\ i <= n - 1
    BY <1>3 DEF UpTo
  <2> QED BY <1>1, <1>2, <2>1, <2>2
<1>6. ASSUME NEW s, NEW e
      PROVE  /\ AboutUpTo(file, n, s, e) = AboutUpTo(file, n - 1, s, e) \cup
                  (IF file[n].kind = "good" /\ file[n].station = s /\ file[n].evse = e
                   THEN {n} ELSE {})
             /\ AboutUpTo(file, n - 1, s, e) \subseteq 1..(n - 1)
  <2>1. \A i : i \in AboutUpTo(file, n, s, e) <=>
           i \in 1..Len(file) /\ file[i].kind = "good" /\ file[i].station = s
             /\ file[i].evse = e /\ i <= n
    BY <1>4 DEF AboutUpTo
  <2>2. \A i : i \in AboutUpTo(file, n - 1, s, e) <=>
           i \in 1..Len(file) /\ file[i].kind = "good" /\ file[i].station = s
             /\ file[i].evse = e /\ i <= n - 1
    BY <1>4 DEF AboutUpTo
  <2> QED BY <1>1, <1>2, <2>1, <2>2
<1> QED BY <1>1, <1>5, <1>6

(* What the rows say with one more.                                         *)
LEMMA RowsTell ==
  ASSUME NEW file \in Seq(Import!Row), NEW n \in 1..Len(file), NEW source
  PROVE  /\ \A s, fact : file[n].kind # "good" \/ file[n].station # s =>
              (TellsFact(source, file, n, s, fact) <=> TellsFact(source, file, n - 1, s, fact))
         /\ \A s, e, status :
              file[n].kind # "good" \/ file[n].station # s \/ file[n].evse # e =>
                (TellsStatus(file, n, s, e, status) <=> TellsStatus(file, n - 1, s, e, status))
         /\ file[n].kind = "good" =>
              /\ source # "csv" \/ UpTo(file, n - 1, file[n].station) = {} =>
                   TellsFact(source, file, n, file[n].station, file[n].fact)
              /\ \A fact : source = "csv"
                             /\ TellsFact(source, file, n - 1, file[n].station, fact) =>
                   TellsFact(source, file, n, file[n].station, fact)
              /\ TellsStatus(file, n, file[n].station, file[n].evse, file[n].status)
<1> DEFINE row == file[n]
<1>1. n \in Nat /\ \A i \in 1..(n - 1) : i <= n /\ i \in Nat
  OBVIOUS
<1>2. ASSUME NEW s, row.kind # "good" \/ row.station # s
      PROVE  UpTo(file, n, s) = UpTo(file, n - 1, s)
  <2>1. ~(file[n].kind = "good" /\ file[n].station = s)
    BY <1>2
  <2>2. UpTo(file, n, s) = UpTo(file, n - 1, s) \cup
          (IF file[n].kind = "good" /\ file[n].station = s THEN {n} ELSE {})
    BY OneMoreRow
  <2> QED BY <2>1, <2>2
<1>3. ASSUME NEW s, NEW e, row.kind # "good" \/ row.station # s \/ row.evse # e
      PROVE  AboutUpTo(file, n, s, e) = AboutUpTo(file, n - 1, s, e)
  <2>1. ~(file[n].kind = "good" /\ file[n].station = s /\ file[n].evse = e)
    BY <1>3
  <2>2. AboutUpTo(file, n, s, e) = AboutUpTo(file, n - 1, s, e) \cup
          (IF file[n].kind = "good" /\ file[n].station = s /\ file[n].evse = e
           THEN {n} ELSE {})
    BY OneMoreRow
  <2> QED BY <2>1, <2>2
<1>4. ASSUME row.kind = "good"
      PROVE  /\ UpTo(file, n, row.station) = UpTo(file, n - 1, row.station) \cup {n}
             /\ UpTo(file, n - 1, row.station) \subseteq 1..(n - 1)
             /\ AboutUpTo(file, n, row.station, row.evse)
                  = AboutUpTo(file, n - 1, row.station, row.evse) \cup {n}
             /\ AboutUpTo(file, n - 1, row.station, row.evse) \subseteq 1..(n - 1)
  BY <1>4, OneMoreRow
<1>5. ASSUME row.kind = "good", source # "csv" \/ UpTo(file, n - 1, row.station) = {}
      PROVE  TellsFact(source, file, n, row.station, row.fact)
  <2>1. n \in UpTo(file, n, row.station)
    BY <1>4, <1>5
  <2>2. \A j \in UpTo(file, n, row.station) : IF source = "csv" THEN n <= j ELSE j <= n
    BY <1>1, <1>4, <1>5
  <2> QED BY <2>1, <2>2 DEF TellsFact
<1>6. ASSUME row.kind = "good", source = "csv", NEW fact,
             TellsFact(source, file, n - 1, row.station, fact)
      PROVE  TellsFact(source, file, n, row.station, fact)
  <2>1. PICK i \in UpTo(file, n - 1, row.station) :
          fact = file[i].fact /\ \A j \in UpTo(file, n - 1, row.station) : i <= j
    BY <1>6 DEF TellsFact
  <2>2. i \in UpTo(file, n, row.station) /\ i <= n
    BY <1>1, <1>4, <1>6
  <2>3. \A j \in UpTo(file, n, row.station) : i <= j
    BY <1>4, <1>6, <2>1, <2>2
  <2> QED BY <1>6, <2>1, <2>2, <2>3 DEF TellsFact
<1>7. ASSUME row.kind = "good"
      PROVE  TellsStatus(file, n, row.station, row.evse, row.status)
  <2>1. n \in AboutUpTo(file, n, row.station, row.evse)
    BY <1>4, <1>7
  <2>2. \A j \in AboutUpTo(file, n, row.station, row.evse) : j <= n
    BY <1>1, <1>4, <1>7
  <2> QED BY <2>1, <2>2 DEF TellsStatus
<1>8. \A s, fact : row.kind # "good" \/ row.station # s =>
        (TellsFact(source, file, n, s, fact) <=> TellsFact(source, file, n - 1, s, fact))
  BY <1>2 DEF TellsFact
<1>9. \A s, e, status : row.kind # "good" \/ row.station # s \/ row.evse # e =>
        (TellsStatus(file, n, s, e, status) <=> TellsStatus(file, n - 1, s, e, status))
  BY <1>3 DEF TellsStatus
<1> QED BY <1>5, <1>6, <1>7, <1>8, <1>9

(* A row is about its station and its connector, and takes no other away.   *)
LEMMA RowsTellMore ==
  ASSUME NEW file \in Seq(Import!Row), NEW n \in 1..Len(file), file[n].kind = "good"
  PROVE  /\ \A s \in Sites : UpTo(file, n - 1, s) # {} => UpTo(file, n, s) # {}
         /\ \A s \in Sites, e \in Evses :
              AboutUpTo(file, n - 1, s, e) # {} => AboutUpTo(file, n, s, e) # {}
         /\ UpTo(file, n, file[n].station) # {}
         /\ AboutUpTo(file, n, file[n].station, file[n].evse) # {}
         /\ \A s : s # file[n].station => UpTo(file, n, s) = UpTo(file, n - 1, s)
         /\ \A s, e : s # file[n].station \/ e # file[n].evse =>
              AboutUpTo(file, n, s, e) = AboutUpTo(file, n - 1, s, e)
<1>1. ASSUME NEW s
      PROVE  /\ UpTo(file, n - 1, s) # {} => UpTo(file, n, s) # {}
             /\ s # file[n].station => UpTo(file, n, s) = UpTo(file, n - 1, s)
  <2>1. UpTo(file, n, s) = UpTo(file, n - 1, s) \cup
          (IF file[n].kind = "good" /\ file[n].station = s THEN {n} ELSE {})
    BY OneMoreRow
  <2> QED BY <2>1
<1>2. ASSUME NEW s, NEW e
      PROVE  /\ AboutUpTo(file, n - 1, s, e) # {} => AboutUpTo(file, n, s, e) # {}
             /\ s # file[n].station \/ e # file[n].evse =>
                  AboutUpTo(file, n, s, e) = AboutUpTo(file, n - 1, s, e)
  <2>1. AboutUpTo(file, n, s, e) = AboutUpTo(file, n - 1, s, e) \cup
          (IF file[n].kind = "good" /\ file[n].station = s /\ file[n].evse = e
           THEN {n} ELSE {})
    BY OneMoreRow
  <2> QED BY <2>1
<1>3. n \in UpTo(file, n, file[n].station) /\ n \in AboutUpTo(file, n, file[n].station, file[n].evse)
  BY OneMoreRow
<1> QED BY <1>1, <1>2, <1>3

(* A connector replaces those with its id, or is added; the others stay.    *)
IsSetTo(after, list, new) ==
  /\ after \in Seq(Plugs) /\ after # <<>>
  /\ \E k \in 1..Len(after) : after[k] = new
  /\ \A k \in 1..Len(after) : after[k].evse = new.evse => after[k] = new
  /\ \A k \in 1..Len(after) : after[k].evse # new.evse =>
       k \in 1..Len(list) /\ after[k] = list[k]
  /\ \A k \in 1..Len(list) : list[k].evse # new.evse =>
       k \in 1..Len(after) /\ after[k] = list[k]

LEMMA ConnectorIsSet ==
  ASSUME NEW list \in Seq(Plugs), NEW new \in Plugs, NEW after,
         after = Import!SetConnector(list, new)
  PROVE  IsSetTo(after, list, new)
<1>1. Len(list) \in Nat /\ DOMAIN list = 1..Len(list) /\ \A k \in 1..Len(list) : list[k] \in Plugs
  OBVIOUS
<1>2. CASE \E k \in 1..Len(list) : list[k].evse = new.evse
  <2> DEFINE set == [k \in 1..Len(list) |-> IF list[k].evse = new.evse THEN new ELSE list[k]]
  <2>1. after = set
    BY <1>1, <1>2 DEF Import!SetConnector
  <2>2. /\ set \in Seq(Plugs) /\ Len(set) = Len(list)
    BY <1>1
  <2>3. \A k \in 1..Len(list) : set[k] = IF list[k].evse = new.evse THEN new ELSE list[k]
    OBVIOUS
  <2> HIDE DEF set
  <2>4. PICK k \in 1..Len(list) : set[k] = new
    BY <1>2, <2>3
  <2>5. set # <<>>
    BY <1>1, <2>2, <2>4
  <2> QED BY <2>1, <2>2, <2>3, <2>4, <2>5 DEF IsSetTo
<1>3. CASE ~(\E k \in 1..Len(list) : list[k].evse = new.evse)
  <2> DEFINE L == Len(list) + 1
  <2>1. after = Append(list, new)
    BY <1>1, <1>3 DEF Import!SetConnector
  <2>2. /\ after \in Seq(Plugs) /\ Len(after) = L /\ after[L] = new /\ after # <<>>
        /\ \A k \in 1..Len(list) : after[k] = list[k]
    BY <1>1, <2>1
  <2>3. L \in 1..Len(after) /\ \A k \in Nat : k \in 1..L <=> k = L \/ k \in 1..Len(list)
    BY <1>1, <2>2
  <2> QED BY <1>3, <2>2, <2>3 DEF IsSetTo
<1> QED BY <1>2, <1>3

RecordOf(row) == [station |-> row.station, fact |-> row.fact,
                  connectors |-> <<[evse |-> row.evse, status |-> row.status]>>]

(* A record of its own for a row: of a station that has none yet, or of     *)
(* Open Charge Map, where later records replace what earlier ones say.      *)
LEMMA RecordIsAppended ==
  ASSUME NEW file \in Seq(Import!Row), NEW n \in 1..Len(file), file[n].kind = "good",
         NEW source, NEW records, ReadsRows(source, file, n - 1, records),
         source # "csv" \/ \A i \in Nat : ~Names(records, i, file[n].station)
  PROVE  ReadsRows(source, file, n, Append(records, RecordOf(file[n])))
<1> DEFINE row == file[n]
           plug == [evse |-> row.evse, status |-> row.status]
           rec == RecordOf(row)
           new == Append(records, rec)
           L == Len(records) + 1
<1>1. /\ row \in Import!Row /\ row.station \in Sites /\ row.evse \in Evses
      /\ plug \in Plugs /\ plug.evse = row.evse /\ plug.status = row.status
  <2>1. row \in Import!Row
    OBVIOUS
  <2> HIDE DEF row
  <2> QED BY <2>1 DEF Import!Row, Plugs
<1>2. /\ rec \in Import!Record /\ rec.station = row.station /\ rec.fact = row.fact
      /\ rec.connectors = <<plug>> /\ Len(rec.connectors) = 1 /\ rec.connectors # <<>>
      /\ rec.connectors[1] = plug
  <2>1. <<plug>> \in Seq(Plugs) /\ Len(<<plug>>) = 1 /\ <<plug>>[1] = plug /\ <<plug>> # <<>>
    BY <1>1
  <2> QED BY <1>1, <2>1 DEF RecordOf, Import!Record, Import!Row, Plugs
<1> HIDE DEF rec, plug
<1>3. /\ new \in Seq(Import!Record) /\ Len(new) = L /\ L \in Nat /\ new[L] = rec
      /\ records \in Seq(Import!Record) /\ Len(records) \in Nat
      /\ \A i \in 1..Len(records) : new[i] = records[i] /\ i # L /\ i < L
      /\ \A i \in Nat : i \in 1..L <=> i = L \/ i \in 1..Len(records)
  BY <1>2 DEF ReadsRows, Remains, IsList
<1> HIDE DEF new, L
<1>4. IsList(new)
  <2>1. ASSUME NEW i \in 1..Len(new)
        PROVE  new[i].connectors # <<>>
    <3>1. i \in Nat /\ (i = L \/ i \in 1..Len(records))
      BY <1>3
    <3> QED BY <1>2, <1>3, <3>1 DEF IsList, ReadsRows, Remains
  <2> QED BY <1>3, <2>1 DEF IsList
<1>5. \A i \in Nat, s \in Sites : Names(new, i, s) <=> Names(records, i, s) \/ (i = L /\ s = row.station)
  BY <1>2, <1>3 DEF Names
<1>6. \A i, k \in Nat, s \in Sites, e \in Evses : About(new, i, k, s, e) <=>
        About(records, i, k, s, e) \/ (i = L /\ k = 1 /\ s = row.station /\ e = row.evse)
  <2>1. \A k \in Nat : k \in 1..1 <=> k = 1
    OBVIOUS
  <2>2. ASSUME NEW i \in Nat, NEW k \in Nat, NEW s \in Sites, NEW e \in Evses
        PROVE  About(new, i, k, s, e) <=>
                 About(records, i, k, s, e) \/ (i = L /\ k = 1 /\ s = row.station /\ e = row.evse)
    <3>1. CASE i = L
      BY <1>1, <1>2, <1>3, <2>1, <3>1 DEF About
    <3>2. CASE i # L
      BY <1>3, <3>2 DEF About
    <3> QED BY <3>1, <3>2
  <2> QED BY <2>2
<1>7. /\ \A s \in Sites : UpTo(file, n - 1, s) # {} => UpTo(file, n, s) # {}
      /\ \A s \in Sites, e \in Evses : AboutUpTo(file, n - 1, s, e) # {} => AboutUpTo(file, n, s, e) # {}
      /\ UpTo(file, n, row.station) # {} /\ AboutUpTo(file, n, row.station, row.evse) # {}
      /\ \A s : s # row.station => UpTo(file, n, s) = UpTo(file, n - 1, s)
      /\ \A s, e : s # row.station \/ e # row.evse =>
           AboutUpTo(file, n, s, e) = AboutUpTo(file, n - 1, s, e)
  BY RowsTellMore
<1>8. ASSUME NEW s \in Sites, NEW i \in Nat, LastOf(new, i, s)
      PROVE  TellsFact(source, file, n, s, new[i].fact)
  <2>1. CASE s = row.station
    <3>1. i = L
      <4>1. Names(new, L, s) /\ i \in 1..L
        BY <1>3, <1>5, <1>8, <2>1 DEF LastOf, Names
      <4>2. L <= i
        BY <1>3, <1>8, <4>1 DEF LastOf
      <4> QED BY <1>3, <4>1, <4>2
    <3>2. source # "csv" \/ UpTo(file, n - 1, row.station) = {}
      BY <1>1 DEF ReadsRows
    <3> QED BY <1>2, <1>3, <2>1, <3>1, <3>2, RowsTell
  <2>2. CASE s # row.station
    <3>1. LastOf(records, i, s)
      BY <1>5, <1>8, <2>2 DEF LastOf
    <3>2. TellsFact(source, file, n - 1, s, records[i].fact)
      BY <3>1 DEF ReadsRows, Remains
    <3>3. new[i] = records[i]
      BY <1>3, <3>1 DEF LastOf, Names
    <3> QED BY <2>2, <3>2, <3>3, RowsTell
  <2> QED BY <2>1, <2>2
<1>9. ASSUME NEW s \in Sites, NEW e \in Evses, NEW i \in Nat, NEW k \in Nat, LastAbout(new, i, k, s, e)
      PROVE  TellsStatus(file, n, s, e, new[i].connectors[k].status)
  <2>1. CASE s = row.station /\ e = row.evse
    <3>1. About(new, L, 1, s, e) /\ About(new, i, k, s, e)
      BY <1>3, <1>6, <1>9, <2>1 DEF LastAbout
    <3>2. L < i \/ (L = i /\ 1 <= k)
      BY <1>3, <1>9, <3>1 DEF LastAbout
    <3>3. i = L
      BY <1>3, <3>1, <3>2 DEF About
    <3>4. k = 1
      BY <1>2, <1>3, <3>1, <3>3 DEF About
    <3> QED BY <1>1, <1>2, <1>3, <2>1, <3>3, <3>4, RowsTell
  <2>2. CASE s # row.station \/ e # row.evse
    <3>1. LastAbout(records, i, k, s, e)
      BY <1>6, <1>9, <2>2 DEF LastAbout
    <3>2. TellsStatus(file, n - 1, s, e, records[i].connectors[k].status)
      BY <3>1 DEF ReadsRows, Remains
    <3>3. new[i] = records[i]
      BY <1>3, <3>1 DEF LastAbout, About
    <3> QED BY <2>2, <3>2, <3>3, RowsTell
  <2> QED BY <2>1, <2>2
<1>10. \A s \in Sites, i \in Nat : Names(new, i, s) => UpTo(file, n, s) # {}
  BY <1>5, <1>7 DEF ReadsRows, Remains
<1>11. \A s \in Sites, e \in Evses, i, k \in Nat :
         About(new, i, k, s, e) => AboutUpTo(file, n, s, e) # {}
  BY <1>6, <1>7 DEF ReadsRows, Remains
<1>12. Remains(source, file, n, new)
  BY <1>4, <1>8, <1>9, <1>10, <1>11 DEF Remains
<1>13. ASSUME NEW s \in Sites, UpTo(file, n, s) # {}
       PROVE  \E i \in Nat : Names(new, i, s)
  <2>1. CASE s = row.station
    BY <1>3, <1>5, <2>1
  <2>2. CASE s # row.station
    BY <1>5, <1>7, <1>13, <2>2 DEF ReadsRows
  <2> QED BY <2>1, <2>2
<1>14. ASSUME NEW s \in Sites, NEW e \in Evses, AboutUpTo(file, n, s, e) # {}
       PROVE  \E i, k \in Nat : About(new, i, k, s, e)
  <2>1. CASE s = row.station /\ e = row.evse
    BY <1>3, <1>6, <2>1
  <2>2. CASE s # row.station \/ e # row.evse
    BY <1>6, <1>7, <1>14, <2>2 DEF ReadsRows
  <2> QED BY <2>1, <2>2
<1>15. ReadsRows(source, file, n, new)
  BY <1>12, <1>13, <1>14 DEF ReadsRows
<1> QED BY <1>15 DEF new, rec

LEMMA SequenceOf ==
  ASSUME NEW S, NEW n \in Nat, NEW f, f = [i \in 1..n |-> f[i]], \A i \in 1..n : f[i] \in S
  PROVE  f \in Seq(S) /\ Len(f) = n
OBVIOUS

(* A further row of a station of a CSV file sets a connector of it.         *)
LEMMA RecordIsExtended ==
  ASSUME NEW file \in Seq(Import!Row), NEW n \in 1..Len(file), file[n].kind = "good",
         NEW source, source = "csv", NEW records, ReadsRows(source, file, n - 1, records),
         NEW at \in Nat, Names(records, at, file[n].station), NEW new,
         new = [i \in 1..Len(records) |->
                  IF records[i].station = file[n].station
                  THEN [records[i] EXCEPT !.connectors =
                          Import!SetConnector(records[i].connectors,
                                              [evse |-> file[n].evse, status |-> file[n].status])]
                  ELSE records[i]]
  PROVE  ReadsRows(source, file, n, new)
<1> DEFINE row == file[n]
           plug == [evse |-> row.evse, status |-> row.status]
<1>1. /\ row.station \in Sites /\ row.evse \in Evses
      /\ plug \in Plugs /\ plug.evse = row.evse /\ plug.status = row.status
  <2>1. row \in Import!Row
    OBVIOUS
  <2> HIDE DEF row
  <2> QED BY <2>1 DEF Import!Row, Plugs
<1>2. records \in Seq(Import!Record) /\ Len(records) \in Nat /\ \A i \in 1..Len(records) : i \in Nat
  BY DEF ReadsRows, Remains, IsList
<1>3. new = [i \in 1..Len(records) |->
               IF records[i].station = row.station
               THEN [records[i] EXCEPT !.connectors = Import!SetConnector(@, plug)]
               ELSE records[i]]
  OBVIOUS
<1> HIDE DEF plug
<1>4. ASSUME NEW i \in 1..Len(records), records[i].station # row.station
      PROVE  new[i] = records[i]
  BY <1>3, <1>4
<1>5. ASSUME NEW i \in 1..Len(records), records[i].station = row.station
      PROVE  /\ new[i].station = records[i].station /\ new[i].fact = records[i].fact
             /\ new[i].connectors = Import!SetConnector(records[i].connectors, plug)
             /\ new[i] = [records[i] EXCEPT !.connectors = Import!SetConnector(@, plug)]
             /\ records[i].connectors \in Seq(Plugs) /\ records[i] \in Import!Record
  <2>1. records[i] \in Import!Record
    BY <1>2
  <2>2. new[i] = [records[i] EXCEPT !.connectors = Import!SetConnector(@, plug)]
    BY <1>3, <1>5
  <2>3. records[i].connectors \in Seq(Plugs)
    BY <2>1 DEF Import!Record, Plugs
  <2> QED BY <2>1, <2>2, <2>3 DEF Import!Record
<1>6. ASSUME NEW i \in 1..Len(records), records[i].station = row.station
      PROVE  /\ new[i] \in Import!Record /\ new[i].connectors # <<>>
             /\ IsSetTo(new[i].connectors, records[i].connectors, plug)
  <2>1. IsSetTo(new[i].connectors, records[i].connectors, plug)
    <3>1. /\ new[i].connectors = Import!SetConnector(records[i].connectors, plug)
          /\ records[i].connectors \in Seq(Plugs) /\ plug \in Plugs
      BY <1>1, <1>5, <1>6
    <3> QED BY <3>1, ConnectorIsSet
  <2>2. new[i].connectors \in Seq(Plugs) /\ new[i].connectors # <<>>
    BY <2>1 DEF IsSetTo
  <2>3. new[i] \in Import!Record
    BY <1>5, <1>6, <2>2 DEF Import!Record, Plugs
  <2> QED BY <2>1, <2>2, <2>3
<1>7. /\ new \in Seq(Import!Record) /\ Len(new) = Len(records)
      /\ \A i \in 1..Len(records) :
           /\ new[i].station = records[i].station /\ new[i].fact = records[i].fact
           /\ new[i].connectors # <<>>
  <2>1. \A i \in 1..Len(records) :
           /\ new[i] \in Import!Record
           /\ new[i].station = records[i].station /\ new[i].fact = records[i].fact
           /\ new[i].connectors # <<>>
    <3>1. SUFFICES ASSUME NEW i \in 1..Len(records)
                   PROVE  /\ new[i] \in Import!Record
                          /\ new[i].station = records[i].station /\ new[i].fact = records[i].fact
                          /\ new[i].connectors # <<>>
      OBVIOUS
    <3>2. CASE records[i].station = row.station
      BY <1>5, <1>6, <3>2
    <3>3. CASE records[i].station # row.station
      BY <1>2, <1>4, <3>3 DEF ReadsRows, Remains, IsList
    <3> QED BY <3>2, <3>3
  <2>2. new = [i \in 1..Len(records) |-> new[i]]
    BY <1>3
  <2>3. new \in Seq(Import!Record) /\ Len(new) = Len(records)
    BY <1>2, <2>1, <2>2, SequenceOf
  <2> QED BY <2>1, <2>3
<1>8. \A i \in Nat, s \in Sites : Names(new, i, s) <=> Names(records, i, s)
  BY <1>7 DEF Names
<1>9. ASSUME NEW i \in Nat, NEW k \in Nat, NEW s \in Sites, NEW e \in Evses,
             s # row.station \/ e # row.evse
      PROVE  /\ About(new, i, k, s, e) <=> About(records, i, k, s, e)
             /\ About(new, i, k, s, e) => new[i].connectors[k] = records[i].connectors[k]
  <2>1. CASE ~(i \in 1..Len(records) /\ records[i].station = s)
    BY <1>7, <2>1 DEF About
  <2>2. CASE i \in 1..Len(records) /\ records[i].station = s /\ s # row.station
    BY <1>4, <1>7, <2>2 DEF About
  <2>3. CASE i \in 1..Len(records) /\ records[i].station = s /\ s = row.station
    <3>1. e # plug.evse
      BY <1>1, <1>9, <2>3
    <3>2. IsSetTo(new[i].connectors, records[i].connectors, plug)
      BY <1>6, <2>3
    <3>3. i \in 1..Len(new) /\ new[i].station = s
      BY <1>7, <2>3
    <3> QED BY <2>3, <3>1, <3>2, <3>3 DEF About, IsSetTo
  <2> QED BY <2>1, <2>2, <2>3
<1>10. \A i, k \in Nat : About(new, i, k, row.station, row.evse) => new[i].connectors[k] = plug
  <2>1. ASSUME NEW i \in Nat, NEW k \in Nat, About(new, i, k, row.station, row.evse)
        PROVE  new[i].connectors[k] = plug
    <3>1. i \in 1..Len(records) /\ records[i].station = row.station
      BY <1>7, <2>1 DEF About
    <3>2. IsSetTo(new[i].connectors, records[i].connectors, plug)
      BY <1>6, <3>1
    <3> QED BY <1>1, <2>1, <3>2, ZenonT(30) DEF About, IsSetTo
  <2> QED BY <2>1, Zenon
<1>11. \E i, k \in Nat : About(new, i, k, row.station, row.evse)
  <2>1. at \in 1..Len(records) /\ records[at].station = row.station
    BY DEF Names
  <2>2. PICK k \in 1..Len(new[at].connectors) : new[at].connectors[k] = plug
    BY <1>6, <2>1, ZenonT(30) DEF IsSetTo
  <2>3. k \in Nat /\ About(new, at, k, row.station, row.evse)
    <3>1. k \in Nat /\ new[at].connectors[k].evse = row.evse
      BY <1>1, <2>2
    <3>2. at \in 1..Len(new) /\ new[at].station = row.station
      BY <1>7, <2>1
    <3> QED BY <2>2, <3>1, <3>2, ZenonT(30) DEF About
  <2> QED BY <2>3
<1>12. ASSUME NEW s \in Sites, NEW i \in Nat, LastOf(new, i, s)
       PROVE  TellsFact(source, file, n, s, new[i].fact)
  <2>1. LastOf(records, i, s)
    BY <1>8, <1>12 DEF LastOf
  <2>2. TellsFact(source, file, n - 1, s, records[i].fact)
    BY <2>1 DEF ReadsRows, Remains
  <2>3. new[i].fact = records[i].fact
    BY <1>7, <2>1 DEF LastOf, Names
  <2>4. CASE s = row.station
    BY <2>2, <2>3, <2>4, RowsTell
  <2>5. CASE s # row.station
    BY <2>2, <2>3, <2>5, RowsTell
  <2> QED BY <2>4, <2>5
<1>13. ASSUME NEW s \in Sites, NEW e \in Evses, NEW i \in Nat, NEW k \in Nat,
              LastAbout(new, i, k, s, e)
       PROVE  TellsStatus(file, n, s, e, new[i].connectors[k].status)
  <2>1. CASE s = row.station /\ e = row.evse
    <3>1. new[i].connectors[k] = plug
      BY <1>10, <1>13, <2>1 DEF LastAbout
    <3> QED BY <1>1, <2>1, <3>1, RowsTell
  <2>2. CASE s # row.station \/ e # row.evse
    <3>1. LastAbout(records, i, k, s, e)
      BY <1>9, <1>13, <2>2 DEF LastAbout
    <3>2. TellsStatus(file, n - 1, s, e, records[i].connectors[k].status)
      BY <3>1 DEF ReadsRows, Remains
    <3>3. new[i].connectors[k] = records[i].connectors[k]
      BY <1>9, <1>13, <2>2 DEF LastAbout
    <3> QED BY <2>2, <3>2, <3>3, RowsTell
  <2> QED BY <2>1, <2>2
<1>14. ASSUME NEW s \in Sites, NEW e \in Evses, NEW i \in Nat, NEW k \in Nat,
              About(new, i, k, s, e)
       PROVE  AboutUpTo(file, n, s, e) # {}
  <2>1. CASE s = row.station /\ e = row.evse
    BY <2>1, RowsTellMore
  <2>2. CASE s # row.station \/ e # row.evse
    <3>1. AboutUpTo(file, n - 1, s, e) # {}
      BY <1>9, <1>14, <2>2 DEF ReadsRows, Remains
    <3> QED BY <3>1, RowsTellMore
  <2> QED BY <2>1, <2>2
<1>15. \A s \in Sites, i \in Nat : Names(new, i, s) => UpTo(file, n, s) # {}
  <2>1. \A s \in Sites, i \in Nat : Names(new, i, s) => UpTo(file, n - 1, s) # {}
    BY <1>8 DEF ReadsRows, Remains
  <2> QED BY <2>1, RowsTellMore
<1>16. IsList(new)
  BY <1>7 DEF IsList
<1>17. Remains(source, file, n, new)
  BY <1>12, <1>13, <1>14, <1>15, <1>16 DEF Remains
<1>18. ASSUME NEW s \in Sites, UpTo(file, n, s) # {}
       PROVE  \E i \in Nat : Names(new, i, s)
  <2>1. CASE s = row.station
    BY <1>8, <2>1
  <2>2. CASE s # row.station
    <3>1. UpTo(file, n - 1, s) # {}
      BY <1>18, <2>2, RowsTellMore
    <3> QED BY <1>8, <3>1 DEF ReadsRows
  <2> QED BY <2>1, <2>2
<1>19. ASSUME NEW s \in Sites, NEW e \in Evses, AboutUpTo(file, n, s, e) # {}
       PROVE  \E i, k \in Nat : About(new, i, k, s, e)
  <2>1. CASE s = row.station /\ e = row.evse
    BY <1>11, <2>1
  <2>2. CASE s # row.station \/ e # row.evse
    <3>1. AboutUpTo(file, n - 1, s, e) # {}
      BY <1>19, <2>2, RowsTellMore
    <3> QED BY <1>9, <2>2, <3>1 DEF ReadsRows
  <2> QED BY <2>1, <2>2
<1> QED BY <1>17, <1>18, <1>19 DEF ReadsRows

LEMMA RowIsAdded ==
  ASSUME NEW file \in Seq(Import!Row), NEW n \in 1..Len(file), NEW source,
         NEW records, ReadsRows(source, file, n - 1, records)
  PROVE  ReadsRows(source, file, n, Import!Add(source, records, file[n]))
<1> DEFINE row == file[n]
           plug == [evse |-> row.evse, status |-> row.status]
           known == \E i \in DOMAIN records : records[i].station = row.station
<1>1. /\ Len(records) \in Nat /\ DOMAIN records = 1..Len(records)
      /\ known <=> \E i \in Nat : Names(records, i, row.station)
  BY DEF ReadsRows, Remains, IsList, Names
<1>2. CASE row.kind # "good"
  <2>1. Import!Add(source, records, row) = records
    BY <1>2 DEF Import!Add
  <2>2. ASSUME NEW s PROVE UpTo(file, n, s) = UpTo(file, n - 1, s)
    <3>1. UpTo(file, n, s) = UpTo(file, n - 1, s) \cup
            (IF file[n].kind = "good" /\ file[n].station = s THEN {n} ELSE {})
      BY OneMoreRow
    <3> QED BY <1>2, <3>1
  <2>3. ASSUME NEW s, NEW e PROVE AboutUpTo(file, n, s, e) = AboutUpTo(file, n - 1, s, e)
    <3>1. AboutUpTo(file, n, s, e) = AboutUpTo(file, n - 1, s, e) \cup
            (IF file[n].kind = "good" /\ file[n].station = s /\ file[n].evse = e
             THEN {n} ELSE {})
      BY OneMoreRow
    <3> QED BY <1>2, <3>1
  <2>4. ReadsRows(source, file, n, records)
    BY <2>2, <2>3 DEF ReadsRows, Remains, TellsFact, TellsStatus
  <2> QED BY <2>1, <2>4
<1>3. CASE row.kind = "good" /\ source = "csv" /\ known
  <2> DEFINE new == [i \in 1..Len(records) |->
                       IF records[i].station = row.station
                       THEN [records[i] EXCEPT !.connectors =
                               Import!SetConnector(records[i].connectors, plug)]
                       ELSE records[i]]
  <2>1. Import!Add(source, records, row) = new
    BY <1>1, <1>3, ZenonT(30) DEF Import!Add, Import!AddRow
  <2>2. PICK i \in Nat : Names(records, i, row.station)
    BY <1>1, <1>3
  <2>3. ReadsRows(source, file, n, new)
    BY <1>3, <2>2, RecordIsExtended
  <2> HIDE DEF new
  <2> QED BY <2>1, <2>3, SMTT(30)
<1>4. CASE row.kind = "good" /\ ~(source = "csv" /\ known)
  <2>1. Import!Add(source, records, row) = Append(records, RecordOf(row))
    BY <1>4 DEF Import!Add, Import!AddRow, Import!AddPoi, RecordOf
  <2>2. ReadsRows(source, file, n, Append(records, RecordOf(row)))
    BY <1>1, <1>4, RecordIsAppended
  <2> QED BY <2>1, <2>2
<1> QED BY <1>2, <1>3, <1>4

ReadStep(source, file, records, n) ==
  IF n = 0 THEN <<>> ELSE Import!Add(source, records[n - 1], file[n])

(* The records of the first rows are a function of the number of rows.      *)
LEMMA ReadingExists ==
  ASSUME NEW source, NEW file, NEW m \in Nat
  PROVE  \E records : records = [n \in 0..m |-> ReadStep(source, file, records, n)]
<1> DEFINE Has(k) == \E records : records = [n \in 0..k |-> ReadStep(source, file, records, n)]
           missing == {k \in Nat : ~Has(k)}
<1>1. SUFFICES ASSUME missing # {}
               PROVE  FALSE
  OBVIOUS
<1>2. PICK k \in missing : \A j \in missing : k <= j
  <2>1. missing \subseteq Nat
    OBVIOUS
  <2> HIDE DEF missing
  <2> QED BY <1>1, <2>1, LeastNumber
<1>3. k \in Nat /\ ~Has(k)
  OBVIOUS
<1>4. CASE k = 0
  <2> DEFINE none == [n \in 0..0 |-> <<>>]
  <2>1. none = [n \in 0..0 |-> ReadStep(source, file, none, n)]
    BY DEF ReadStep
  <2> QED BY <1>3, <1>4, <2>1
<1>5. CASE k # 0
  <2>1. k - 1 \in Nat /\ ~(k <= k - 1)
    BY <1>3, <1>5
  <2>2. Has(k - 1)
    BY <1>2, <2>1
  <2>3. PICK records : records = [n \in 0..(k - 1) |-> ReadStep(source, file, records, n)]
    BY <2>2
  <2> DEFINE longer == [n \in 0..k |-> IF n = k THEN ReadStep(source, file, records, k)
                                       ELSE records[n]]
  <2>4. \A n \in 0..k : longer[n] = ReadStep(source, file, longer, n)
    <3>1. SUFFICES ASSUME NEW n \in 0..k
                   PROVE  longer[n] = ReadStep(source, file, longer, n)
      OBVIOUS
    <3>2. n = 0 \/ (n - 1 \in 0..(k - 1) /\ n - 1 # k /\ n - 1 \in 0..k)
      BY <1>3
    <3>3. n # 0 => longer[n - 1] = records[n - 1]
      BY <3>2
    <3>4. ReadStep(source, file, longer, n) = ReadStep(source, file, records, n)
      BY <3>3 DEF ReadStep
    <3>5. n # k => n \in 0..(k - 1)
      BY <1>3
    <3>6. n # k => records[n] = ReadStep(source, file, records, n)
      BY <2>3, <3>5
    <3> QED BY <3>1, <3>4, <3>6
  <2>5. longer = [n \in 0..k |-> longer[n]]
    OBVIOUS
  <2> HIDE DEF longer
  <2>6. longer = [n \in 0..k |-> ReadStep(source, file, longer, n)]
    BY <2>4, <2>5
  <2> QED BY <1>3, <2>6
<1> QED BY <1>4, <1>5

(* The records of a file say what its rows say.                             *)
LEMMA RecordsAreRead ==
  ASSUME NEW source, NEW file \in Seq(Import!Row)
  PROVE  ReadsRows(source, file, Len(file), Import!RecordsOf(source, file))
<1> DEFINE IsRead(f) == f = [n \in 0..Len(file) |-> ReadStep(source, file, f, n)]
           records == CHOOSE f : IsRead(f)
<1>1. Len(file) \in Nat /\ DOMAIN file = 1..Len(file)
  OBVIOUS
<1>2. \E f : IsRead(f)
  BY <1>1, ReadingExists
<1>3. IsRead(records)
  BY <1>2
<1>4. Import!RecordsOf(source, file) = records[Len(file)]
  BY DEF Import!RecordsOf, ReadStep
<1>5. \A n \in 0..Len(file) : records[n] = ReadStep(source, file, records, n)
  BY <1>3
<1> HIDE DEF records, IsRead
<1> DEFINE bad == {n \in 0..Len(file) : ~ReadsRows(source, file, n, records[n])}
<1>6. SUFFICES ASSUME bad # {}
               PROVE  FALSE
  BY <1>1, <1>4
<1>7. PICK k \in bad : \A j \in bad : k <= j
  <2>1. bad \subseteq Nat
    OBVIOUS
  <2> HIDE DEF bad
  <2> QED BY <1>6, <2>1, LeastNumber
<1>8. k \in 0..Len(file) /\ k \in Nat /\ ~ReadsRows(source, file, k, records[k])
  OBVIOUS
<1>9. CASE k = 0
  <2>1. records[0] = <<>>
    BY <1>5, <1>8, <1>9 DEF ReadStep
  <2>2. \A s : UpTo(file, 0, s) = {}
    BY <1>1 DEF UpTo, Import!RowsOf
  <2>3. \A s, e : AboutUpTo(file, 0, s, e) = {}
    BY <1>1 DEF AboutUpTo, Import!RowsAbout, Import!RowsOf
  <2>4. /\ <<>> \in Seq(Import!Record) /\ Len(<<>>) = 0
        /\ \A i \in 1..0 : FALSE
    BY SMTT(30)
  <2>5. ReadsRows(source, file, 0, <<>>)
    BY <2>2, <2>3, <2>4 DEF ReadsRows, Remains, IsList, LastOf, LastAbout, Names, About
  <2> QED BY <1>8, <1>9, <2>1, <2>5
<1>10. CASE k # 0
  <2>1. k \in 1..Len(file) /\ k - 1 \in 0..Len(file) /\ ~(k <= k - 1)
    BY <1>1, <1>8, <1>10
  <2>2. ReadsRows(source, file, k - 1, records[k - 1])
    BY <1>7, <2>1
  <2>3. records[k] = Import!Add(source, records[k - 1], file[k])
    BY <1>5, <1>8, <1>10 DEF ReadStep
  <2> QED BY <1>8, <2>1, <2>2, <2>3, RowIsAdded
<1> QED BY <1>9, <1>10

(* What the database says of a station is what the rows say, or a record    *)
(* that says it is still to be written; and the same of a connector whose   *)
(* charger has not reported since.                                          *)
StationsTold(source, file, records, pc, known) ==
  \A s \in Sites : UpTo(file, Len(file), s) # {} =>
    \/ TellsFact(source, file, Len(file), s, known[s])
    \/ \E i \in Nat : Names(records, i, s) /\ (i = 1 => pc = "station")
ConnectorsTold(file, records, plugs, reported) ==
  \A s \in Sites, e \in Evses :
    <<s, e>> \notin reported /\ AboutUpTo(file, Len(file), s, e) # {} =>
      \/ TellsStatus(file, Len(file), s, e, plugs[<<s, e>>])
      \/ \E i, k \in Nat : About(records, i, k, s, e)
Fulfils(source, file, records, pc, known, plugs, reported) ==
  /\ Remains(source, file, Len(file), records)
  /\ StationsTold(source, file, records, pc, known)
  /\ ConnectorsTold(file, records, plugs, reported)

(* When the source has been read, every record is still to be written.      *)
LEMMA ReadingFulfils ==
  ASSUME NEW source, NEW file, NEW records, NEW pc, NEW known, NEW plugs, NEW reported,
         ReadsRows(source, file, Len(file), records), pc = "station" \/ records = <<>>
  PROVE  Fulfils(source, file, records, pc, known, plugs, reported)
<1>1. Remains(source, file, Len(file), records)
  BY DEF ReadsRows
<1>2. ASSUME NEW i \in Nat, NEW s, Names(records, i, s)
      PROVE  pc = "station"
  BY <1>2 DEF Names
<1>3. StationsTold(source, file, records, pc, known)
  BY <1>2 DEF ReadsRows, StationsTold
<1>4. ConnectorsTold(file, records, plugs, reported)
  BY DEF ReadsRows, ConnectorsTold
<1> QED BY <1>1, <1>3, <1>4 DEF Fulfils

(* Nothing is left to write: the rows are in the database.                  *)
LEMMA NothingRemains ==
  ASSUME NEW source, NEW file, NEW pc, NEW known, NEW plugs, NEW reported,
         Fulfils(source, file, <<>>, pc, known, plugs, reported)
  PROVE  /\ \A s \in Sites : UpTo(file, Len(file), s) # {} =>
              TellsFact(source, file, Len(file), s, known[s])
         /\ \A s \in Sites, e \in Evses :
              <<s, e>> \notin reported /\ AboutUpTo(file, Len(file), s, e) # {} =>
                TellsStatus(file, Len(file), s, e, plugs[<<s, e>>])
<1>1. \A i, s : ~Names(<<>>, i, s)
  BY DEF Names
<1>2. \A i, k, s, e : ~About(<<>>, i, k, s, e)
  BY DEF About
<1> QED BY <1>1, <1>2 DEF Fulfils, StationsTold, ConnectorsTold

(* A station is upserted: it says what its last record says, or another one *)
(* follows.                                                                 *)
LEMMA StationFulfils ==
  ASSUME NEW source, NEW file, NEW records, records # <<>>,
         NEW known \in [Sites -> Facts \cup {Import!None}], NEW plugs, NEW reported,
         NEW after, after = [known EXCEPT ![records[1].station] = records[1].fact],
         Fulfils(source, file, records, "station", known, plugs, reported)
  PROVE  Fulfils(source, file, records, "connector", after, plugs, reported)
<1>1. /\ IsList(records) /\ 1 \in 1..Len(records) /\ records[1].station \in Sites
      /\ Remains(source, file, Len(file), records)
  <2>1. IsList(records) /\ Remains(source, file, Len(file), records)
    BY DEF Fulfils, Remains
  <2>2. 1 \in 1..Len(records) /\ records[1] \in Import!Record
    BY <2>1 DEF IsList
  <2> QED BY <2>1, <2>2 DEF Import!Record
<1>2. /\ after[records[1].station] = records[1].fact
      /\ \A s \in Sites : s # records[1].station => after[s] = known[s]
  BY <1>1
<1>3. ASSUME NEW s \in Sites, UpTo(file, Len(file), s) # {}
      PROVE  \/ TellsFact(source, file, Len(file), s, after[s])
             \/ \E i \in Nat : Names(records, i, s) /\ i # 1
  <2>1. CASE s = records[1].station
    <3>1. CASE \A j \in Nat : Names(records, j, s) => j <= 1
      <4>1. LastOf(records, 1, s)
        BY <1>1, <2>1, <3>1 DEF LastOf, Names
      <4> QED BY <1>1, <1>2, <2>1, <4>1 DEF Remains
    <3>2. CASE ~(\A j \in Nat : Names(records, j, s) => j <= 1)
      BY <3>2
    <3> QED BY <3>1, <3>2
  <2>2. CASE s # records[1].station
    <3>1. ~Names(records, 1, s)
      BY <2>2 DEF Names
    <3>2. \/ TellsFact(source, file, Len(file), s, known[s])
          \/ \E i \in Nat : Names(records, i, s)
      BY <1>3 DEF Fulfils, StationsTold
    <3> QED BY <1>2, <2>2, <3>1, <3>2
  <2> QED BY <2>1, <2>2
<1>4. StationsTold(source, file, records, "connector", after)
  BY <1>3 DEF StationsTold
<1> QED BY <1>4 DEF Fulfils

(* What is left of the records after the first connector of the first one:  *)
(* the others stay in their order, one record (d = 1) or one connector      *)
(* (d = 0) nearer.                                                          *)
Skips(d, i) == IF d = 0 /\ i = 1 THEN 1 ELSE 0
IsLeft(after, records, d) ==
  /\ d \in {0, 1} /\ IsList(after)
  /\ \A i \in Nat, s \in Sites : Names(after, i, s) =>
       Names(records, i + d, s) /\ after[i].fact = records[i + d].fact
  /\ \A j \in Nat, s \in Sites : Names(records, j, s) /\ j > d => Names(after, j - d, s)
  /\ \A i, k \in Nat, s \in Sites, e \in Evses : About(after, i, k, s, e) =>
       /\ About(records, i + d, k + Skips(d, i), s, e)
       /\ after[i].connectors[k] = records[i + d].connectors[k + Skips(d, i)]
  /\ \A j, l \in Nat, s \in Sites, e \in Evses :
       About(records, j, l, s, e) /\ (j # 1 \/ l # 1) =>
         j - d \in Nat /\ l - Skips(d, j) \in Nat /\ About(after, j - d, l - Skips(d, j), s, e)

LEMMA LeftRemains ==
  ASSUME NEW source, NEW file, NEW n, NEW records, NEW after, NEW d, IsLeft(after, records, d),
         Remains(source, file, n, records)
  PROVE  Remains(source, file, n, after)
<1>1. d \in Nat /\ \A i \in Nat : i + d \in Nat /\ Skips(d, i) \in Nat
  BY DEF IsLeft, Skips
<1>2. \A i, k \in Nat : k + Skips(d, i) \in Nat
  BY <1>1
<1>3. ASSUME NEW s \in Sites, NEW i \in Nat, LastOf(after, i, s)
      PROVE  TellsFact(source, file, n, s, after[i].fact)
  <2>1. Names(records, i + d, s) /\ after[i].fact = records[i + d].fact
    BY <1>3 DEF IsLeft, LastOf
  <2>2. ASSUME NEW j \in Nat, Names(records, j, s)
        PROVE  j <= i + d
    <3>1. CASE j > d
      <4>1. Names(after, j - d, s) /\ j - d \in Nat
        BY <1>1, <2>2, <3>1 DEF IsLeft
      <4>2. j - d <= i
        BY <1>3, <4>1 DEF LastOf
      <4> QED BY <1>1, <4>2
    <3>2. CASE ~(j > d)
      BY <1>1, <3>2
    <3> QED BY <3>1, <3>2
  <2>3. LastOf(records, i + d, s)
    BY <2>1, <2>2 DEF LastOf
  <2> QED BY <1>1, <2>1, <2>3 DEF Remains
<1>4. ASSUME NEW s \in Sites, NEW e \in Evses, NEW i \in Nat, NEW k \in Nat,
             LastAbout(after, i, k, s, e)
      PROVE  TellsStatus(file, n, s, e, after[i].connectors[k].status)
  <2>1. /\ About(records, i + d, k + Skips(d, i), s, e)
        /\ after[i].connectors[k] = records[i + d].connectors[k + Skips(d, i)]
    BY <1>4 DEF IsLeft, LastAbout
  <2>2. i >= 1 /\ k >= 1
    BY <1>4 DEF LastAbout, About
  <2>3. ASSUME NEW j \in Nat, NEW l \in Nat, About(records, j, l, s, e)
        PROVE  j < i + d \/ (j = i + d /\ l <= k + Skips(d, i))
    <3>1. CASE j = 1 /\ l = 1
      BY <1>1, <2>2, <3>1 DEF Skips, IsLeft
    <3>2. CASE j # 1 \/ l # 1
      <4>1. j - d \in Nat /\ l - Skips(d, j) \in Nat /\ About(after, j - d, l - Skips(d, j), s, e)
        BY <2>3, <3>2 DEF IsLeft
      <4>2. j - d < i \/ (j - d = i /\ l - Skips(d, j) <= k)
        BY <1>4, <4>1 DEF LastAbout
      <4>3. CASE d = 0
        BY <4>2, <4>3 DEF Skips
      <4>4. CASE d = 1
        BY <4>2, <4>4 DEF Skips
      <4> QED BY <4>3, <4>4 DEF IsLeft
    <3> QED BY <3>1, <3>2
  <2>4. LastAbout(records, i + d, k + Skips(d, i), s, e)
    BY <2>1, <2>3 DEF LastAbout
  <2> QED BY <1>1, <1>2, <2>1, <2>4 DEF Remains
<1>5. \A s \in Sites, i \in Nat : Names(after, i, s) => UpTo(file, n, s) # {}
  BY <1>1 DEF IsLeft, Remains
<1>6. \A s \in Sites, e \in Evses, i, k \in Nat :
        About(after, i, k, s, e) => AboutUpTo(file, n, s, e) # {}
  BY <1>1, <1>2, ZenonT(30) DEF IsLeft, Remains
<1>7. IsList(after)
  BY DEF IsLeft
<1> QED BY <1>3, <1>4, <1>5, <1>6, <1>7 DEF Remains

(* A connector is upserted: it says what its last record says, or another   *)
(* one follows.                                                             *)
LEMMA ConnectorFulfils ==
  ASSUME NEW source, NEW file, NEW records, records # <<>>, NEW left, NEW d,
         IsLeft(left, records, d), NEW pc, d = 1 => pc = "station" \/ left = <<>>,
         NEW known, NEW plugs \in [Import!Connectors -> Import!Statuses \cup {Import!None}],
         NEW reported, NEW c,
         c = <<records[1].station, records[1].connectors[1].evse>>,
         NEW after, after = [plugs EXCEPT ![c] = records[1].connectors[1].status],
         Fulfils(source, file, records, "connector", known, plugs, reported)
  PROVE  Fulfils(source, file, left, pc, known, after, reported \ {c})
<1>1. /\ IsList(records) /\ 1 \in 1..Len(records) /\ records[1].station \in Sites
      /\ 1 \in 1..Len(records[1].connectors) /\ records[1].connectors[1].evse \in Evses
      /\ Remains(source, file, Len(file), records)
  <2>1. IsList(records) /\ Remains(source, file, Len(file), records)
    BY DEF Fulfils, Remains
  <2>2. 1 \in 1..Len(records) /\ records[1] \in Import!Record /\ records[1].connectors # <<>>
    BY <2>1 DEF IsList
  <2>3. records[1].station \in Sites /\ records[1].connectors \in Seq(Plugs)
    BY <2>2 DEF Import!Record, Plugs
  <2>4. 1 \in 1..Len(records[1].connectors) /\ records[1].connectors[1] \in Plugs
    BY <2>2, <2>3
  <2> QED BY <2>1, <2>2, <2>3, <2>4 DEF Plugs
<1>2. /\ after[c] = records[1].connectors[1].status
      /\ \A s \in Sites, e \in Evses : <<s, e>> # c => after[<<s, e>>] = plugs[<<s, e>>]
  BY <1>1 DEF Import!Connectors
<1>3. Remains(source, file, Len(file), left)
  BY <1>1, LeftRemains
<1>4. StationsTold(source, file, left, pc, known)
  <2> SUFFICES ASSUME NEW s \in Sites, UpTo(file, Len(file), s) # {},
                      ~TellsFact(source, file, Len(file), s, known[s])
               PROVE  \E i \in Nat : Names(left, i, s) /\ (i = 1 => pc = "station")
    BY DEF StationsTold
  <2>1. PICK j \in Nat : Names(records, j, s) /\ j # 1
    BY DEF Fulfils, StationsTold
  <2>2. j > d /\ j - d \in Nat /\ d \in {0, 1}
    BY <2>1 DEF Names, IsLeft
  <2>3. Names(left, j - d, s)
    BY <2>1, <2>2 DEF IsLeft
  <2>4. left # <<>>
    BY <2>3 DEF Names
  <2>5. j - d = 1 => d = 1
    BY <2>1, <2>2
  <2> QED BY <2>2, <2>3, <2>4, <2>5
<1>5. ConnectorsTold(file, left, after, reported \ {c})
  <2> SUFFICES ASSUME NEW s \in Sites, NEW e \in Evses, <<s, e>> \notin reported \ {c},
                      AboutUpTo(file, Len(file), s, e) # {},
                      ~TellsStatus(file, Len(file), s, e, after[<<s, e>>])
               PROVE  \E i, k \in Nat : About(left, i, k, s, e)
    BY DEF ConnectorsTold
  <2>1. \E j, l \in Nat : About(records, j, l, s, e) /\ (j # 1 \/ l # 1)
    <3>1. CASE <<s, e>> = c
      <4>1. About(records, 1, 1, s, e)
        BY <1>1, <3>1 DEF About
      <4>2. ~LastAbout(records, 1, 1, s, e)
        BY <1>1, <1>2, <3>1 DEF Remains
      <4>3. PICK j \in Nat, l \in Nat : About(records, j, l, s, e) /\ ~(j < 1 \/ (j = 1 /\ l <= 1))
        BY <4>1, <4>2 DEF LastAbout
      <4> QED BY <4>3
    <3>2. CASE <<s, e>> # c
      <4>1. <<s, e>> \notin reported /\ ~TellsStatus(file, Len(file), s, e, plugs[<<s, e>>])
        BY <1>2, <3>2
      <4>2. PICK j \in Nat, l \in Nat : About(records, j, l, s, e)
        BY <4>1 DEF Fulfils, ConnectorsTold
      <4>3. j # 1 \/ l # 1
        BY <3>2, <4>2 DEF About
      <4> QED BY <4>2, <4>3
    <3> QED BY <3>1, <3>2
  <2> QED BY <2>1 DEF IsLeft
<1> QED BY <1>3, <1>4, <1>5 DEF Fulfils

(* The first record keeps its other connectors.                             *)
LEMMA ConnectorsAreLeft ==
  ASSUME NEW records, IsList(records), records # <<>>, Tail(records[1].connectors) # <<>>,
         NEW left,
         left = [records EXCEPT ![1] = [@ EXCEPT !.connectors = Tail(records[1].connectors)]]
  PROVE  IsLeft(left, records, 0) /\ left # <<>> /\ left[1].station = records[1].station
<1> DEFINE list == records[1].connectors
           more == Tail(list)
           first == [records[1] EXCEPT !.connectors = more]
<1>1. /\ records \in Seq(Import!Record) /\ Len(records) \in Nat /\ 1 \in 1..Len(records)
      /\ records[1] \in Import!Record /\ list # <<>> /\ DOMAIN records = 1..Len(records)
  BY DEF IsList
<1>2. list \in Seq(Plugs) /\ records[1].station \in Sites /\ records[1].fact \in Facts
  BY <1>1 DEF Import!Record, Plugs
<1> HIDE DEF list
<1>3. /\ more \in Seq(Plugs) /\ Len(more) = Len(list) - 1 /\ Len(list) \in Nat
      /\ \A k \in 1..Len(more) : more[k] = list[k + 1] /\ k + 1 \in 1..Len(list)
  BY <1>1, <1>2
<1>4. more # <<>>
  BY DEF list
<1> HIDE DEF more
<1>5. /\ first \in Import!Record /\ first.station = records[1].station
      /\ first.fact = records[1].fact /\ first.connectors = more
  BY <1>1, <1>3 DEF Import!Record, Plugs
<1>6. left = [records EXCEPT ![1] = first]
  BY DEF more, list
<1> HIDE DEF first
<1>7. /\ left \in Seq(Import!Record) /\ Len(left) = Len(records) /\ left[1] = first
      /\ \A i \in 1..Len(records) : i # 1 => left[i] = records[i]
  BY <1>1, <1>5, <1>6
<1>8. IsList(left) /\ left # <<>>
  BY <1>1, <1>4, <1>5, <1>7 DEF IsList
<1>9. ASSUME NEW i \in Nat, NEW s \in Sites
      PROVE  (Names(left, i, s) <=> Names(records, i, s)) /\ (Names(left, i, s) => left[i].fact = records[i].fact)
  BY <1>5, <1>7 DEF Names
<1>10. ASSUME NEW i \in Nat, NEW k \in Nat, NEW s \in Sites, NEW e \in Evses, About(left, i, k, s, e)
       PROVE  /\ About(records, i, k + Skips(0, i), s, e)
              /\ left[i].connectors[k] = records[i].connectors[k + Skips(0, i)]
  <2>1. CASE i = 1
    <3>1. k \in 1..Len(more) /\ records[1].station = s /\ more[k].evse = e
      BY <1>5, <1>7, <1>10, <2>1 DEF About
    <3>2. k + 1 \in 1..Len(list) /\ more[k] = list[k + 1]
      BY <1>3, <3>1
    <3>3. Skips(0, i) = 1
      BY <2>1 DEF Skips
    <3> QED BY <1>1, <1>5, <1>7, <2>1, <3>1, <3>2, <3>3 DEF About, list
  <2>2. CASE i # 1
    <3>1. k + Skips(0, i) = k
      BY <2>2 DEF Skips
    <3>2. left[i] = records[i] /\ Len(left) = Len(records)
      BY <1>7, <1>10, <2>2 DEF About
    <3> QED BY <1>10, <3>1, <3>2 DEF About
  <2> QED BY <2>1, <2>2
<1>11. ASSUME NEW j \in Nat, NEW l \in Nat, NEW s \in Sites, NEW e \in Evses,
              About(records, j, l, s, e), j # 1 \/ l # 1
       PROVE  l - Skips(0, j) \in Nat /\ About(left, j, l - Skips(0, j), s, e)
  <2>1. CASE j = 1
    <3>1. l \in 1..Len(list) /\ l # 1 /\ records[1].station = s /\ list[l].evse = e
      BY <1>11, <2>1 DEF About, list
    <3>2. l - 1 \in 1..Len(more) /\ l - 1 \in Nat /\ (l - 1) + 1 = l
      BY <1>3, <3>1
    <3>3. more[l - 1] = list[l]
      BY <1>3, <3>2
    <3>4. Skips(0, j) = 1
      BY <2>1 DEF Skips
    <3> QED BY <1>1, <1>5, <1>7, <2>1, <3>1, <3>2, <3>3, <3>4 DEF About
  <2>2. CASE j # 1
    <3>1. l - Skips(0, j) = l
      BY <2>2 DEF Skips
    <3>2. left[j] = records[j] /\ Len(left) = Len(records)
      BY <1>7, <1>11, <2>2 DEF About
    <3> QED BY <1>11, <3>1, <3>2 DEF About
  <2> QED BY <2>1, <2>2
<1>12. \A i \in Nat : i + 0 = i /\ i - 0 = i
  OBVIOUS
<1>13. \A i \in Nat, s \in Sites : Names(left, i, s) =>
         Names(records, i + 0, s) /\ left[i].fact = records[i + 0].fact
  BY <1>9, <1>12
<1>14. \A j \in Nat, s \in Sites : Names(records, j, s) /\ j > 0 => Names(left, j - 0, s)
  BY <1>9, <1>12
<1>15. \A i, k \in Nat, s \in Sites, e \in Evses : About(left, i, k, s, e) =>
         /\ About(records, i + 0, k + Skips(0, i), s, e)
         /\ left[i].connectors[k] = records[i + 0].connectors[k + Skips(0, i)]
  BY <1>10, <1>12
<1>16. \A j, l \in Nat, s \in Sites, e \in Evses :
         About(records, j, l, s, e) /\ (j # 1 \/ l # 1) =>
           j - 0 \in Nat /\ l - Skips(0, j) \in Nat /\ About(left, j - 0, l - Skips(0, j), s, e)
  BY <1>11, <1>12
<1>17. IsLeft(left, records, 0)
  BY <1>8, <1>13, <1>14, <1>15, <1>16 DEF IsLeft
<1> QED BY <1>5, <1>7, <1>8, <1>17

(* The first record is done, and the others are left.                       *)
LEMMA RecordsAreLeft ==
  ASSUME NEW records, IsList(records), records # <<>>, Tail(records[1].connectors) = <<>>
  PROVE  IsLeft(Tail(records), records, 1)
<1> DEFINE left == Tail(records)
<1>1. /\ records \in Seq(Import!Record) /\ Len(records) \in Nat /\ 1 \in 1..Len(records)
      /\ left \in Seq(Import!Record) /\ Len(left) = Len(records) - 1
      /\ \A i \in 1..Len(left) : left[i] = records[i + 1] /\ i + 1 \in 1..Len(records)
      /\ \A i \in 1..Len(records) : records[i].connectors # <<>> /\ records[i] \in Import!Record
  BY DEF IsList
<1> HIDE DEF left
<1>2. Len(records[1].connectors) = 1
  <2>1. records[1].connectors # <<>> /\ records[1].connectors \in Seq(Plugs)
    BY <1>1 DEF Import!Record, Plugs
  <2> DEFINE list == records[1].connectors
  <2>2. list \in Seq(Plugs) /\ list # <<>> /\ Tail(list) = <<>>
    BY <2>1
  <2> HIDE DEF list
  <2>3. Len(list) \in Nat /\ Len(list) # 0 /\ Len(Tail(list)) = Len(list) - 1
    BY <2>2
  <2>4. Tail(list) \in Seq(Plugs) /\ DOMAIN Tail(list) = 1..Len(Tail(list))
    BY <2>2
  <2>5. DOMAIN Tail(list) = {}
    BY <2>2
  <2>6. Len(list) = 1
    <3>1. 1..(Len(list) - 1) = {}
      BY <2>3, <2>4, <2>5
    <3>2. 1 <= Len(list) - 1 => 1 \in 1..(Len(list) - 1)
      BY <2>3
    <3> QED BY <2>3, <3>1, <3>2
  <2> QED BY <2>6 DEF list
<1>3. IsList(left)
  BY <1>1 DEF IsList
<1>4. ASSUME NEW j \in Nat
      PROVE  j \in 1..Len(records) /\ j # 1 <=>
               j - 1 \in Nat /\ j - 1 \in 1..Len(left)
  BY <1>1
<1>5. ASSUME NEW j \in Nat, j - 1 \in 1..Len(left)
      PROVE  left[j - 1] = records[j]
  BY <1>1, <1>5
<1>6. \A i, k \in Nat, s \in Sites, e \in Evses : About(left, i, k, s, e) =>
         About(records, i + 1, k, s, e) /\ left[i].connectors[k] = records[i + 1].connectors[k]
  BY <1>1 DEF About
<1>7. \A j, l \in Nat, s \in Sites, e \in Evses :
        About(records, j, l, s, e) /\ (j # 1 \/ l # 1) => j # 1
  BY <1>2 DEF About
<1>8. \A j, l \in Nat, s \in Sites, e \in Evses :
        About(records, j, l, s, e) /\ j # 1 => j - 1 \in Nat /\ About(left, j - 1, l, s, e)
  BY <1>4, <1>5 DEF About
<1>9. \A i, k \in Nat : k + Skips(1, i) = k /\ k - Skips(1, i) = k
  BY DEF Skips
<1>10. \A i \in Nat, s \in Sites : Names(left, i, s) =>
         Names(records, i + 1, s) /\ left[i].fact = records[i + 1].fact
  BY <1>1 DEF Names
<1>11. \A j \in Nat, s \in Sites : Names(records, j, s) /\ j > 1 => Names(left, j - 1, s)
  BY <1>4, <1>5 DEF Names
<1>12. IsLeft(left, records, 1)
  BY <1>3, <1>6, <1>7, <1>8, <1>9, <1>10, <1>11 DEF IsLeft
<1> QED BY <1>12 DEF left

(* The invariant of the import: at rest, what was imported last is in the   *)
(* database; at work, what is not yet there is still to be written.         *)
Working ==
  /\ run \in [pc : {"station", "connector"}, file : Files, source : {"csv", "ocm"},
              records : Seq(Import!Record)]
  /\ run.records # <<>>
  /\ run.pc = "connector" => station[run.records[1].station] # Import!None
  /\ Fulfils(run.source, run.file, run.records, run.pc, station, connector, touched)
ImportInv ==
  /\ station \in [Sites -> Facts \cup {Import!None}]
  /\ connector \in [Import!Connectors -> Import!Statuses \cup {Import!None}]
  /\ touched \subseteq Import!Connectors
  /\ \A c \in Import!Connectors : connector[c] # Import!None => station[c[1]] # Import!None
  /\ imported.file \in Files \cup {<<>>} /\ imported.source \in {"csv", "ocm"}
  /\ run = Import!Idle \/ Working
  /\ run = Import!Idle =>
       Fulfils(imported.source, imported.file, <<>>, "idle", station, connector, touched)

(* A script at work is not at rest.                                         *)
LEMMA IdleOrAtWork ==
  /\ Import!Idle.pc = "idle"
  /\ run = Import!Idle => run.pc = "idle"
  /\ Working => run # Import!Idle /\ run.pc # "idle"
<1>1. Import!Idle.pc = "idle"
  BY DEF Import!Idle
<1>2. Working => run.pc \in {"station", "connector"}
  BY DEF Working
<1> QED BY <1>1, <1>2

(* The first record that a script at work writes, and its first connector.  *)
LEMMA FirstOfRecords ==
  ASSUME NEW source, NEW file, NEW n, NEW records, records # <<>>,
         Remains(source, file, n, records)
  PROVE  /\ Head(records) = records[1] /\ 1 \in 1..Len(records)
         /\ records[1].station \in Sites /\ records[1].fact \in Facts
         /\ records[1].connectors \in Seq(Plugs) /\ records[1].connectors # <<>>
         /\ Head(records[1].connectors) = records[1].connectors[1]
         /\ records[1].connectors[1].evse \in Evses
         /\ records[1].connectors[1].status \in Import!Statuses
         /\ UpTo(file, n, records[1].station) # {}
         /\ AboutUpTo(file, n, records[1].station, records[1].connectors[1].evse) # {}
<1> DEFINE list == records[1].connectors
<1>1. /\ records \in Seq(Import!Record) /\ 1 \in 1..Len(records) /\ list # <<>>
      /\ records[1] \in Import!Record
  BY DEF Remains, IsList
<1>2. records[1].station \in Sites /\ records[1].fact \in Facts /\ list \in Seq(Plugs)
  BY <1>1 DEF Import!Record, Plugs
<1>3. Head(records) = records[1] /\ Names(records, 1, records[1].station)
  BY <1>1 DEF Names
<1>4. 1 \in 1..Len(list) /\ list[1] \in Plugs /\ Head(list) = list[1]
  <2> HIDE DEF list
  <2> QED BY <1>1, <1>2
<1>5. list[1].evse \in Evses /\ list[1].status \in Import!Statuses
  BY <1>4 DEF Plugs
<1>6. About(records, 1, 1, records[1].station, list[1].evse)
  BY <1>1, <1>4 DEF About
<1> QED BY <1>1, <1>2, <1>3, <1>4, <1>5, <1>6 DEF Remains

(* Nothing has been imported at first.                                      *)
LEMMA ImportInit ==
  Import!Init => ImportInv
<1> SUFFICES ASSUME Import!Init PROVE ImportInv
  OBVIOUS
<1>1. /\ station = [s \in Sites |-> Import!None]
      /\ connector = [c \in Import!Connectors |-> Import!None]
      /\ run = Import!Idle /\ imported.file = <<>> /\ imported.source = "csv" /\ touched = {}
  BY DEF Import!Init
<1>2. \A s : UpTo(<<>>, Len(<<>>), s) = {}
  BY DEF UpTo, Import!RowsOf
<1>3. \A s, e : AboutUpTo(<<>>, Len(<<>>), s, e) = {}
  BY DEF AboutUpTo, Import!RowsAbout, Import!RowsOf
<1>4. \A source, file, n : Remains(source, file, n, <<>>)
  BY DEF Remains, IsList, Names, About, LastOf, LastAbout
<1>5. Fulfils("csv", <<>>, <<>>, "idle", station, connector, touched)
  BY <1>2, <1>3, <1>4 DEF Fulfils, StationsTold, ConnectorsTold
<1> QED BY <1>1, <1>5 DEF ImportInv

(* A file that says nothing is always fulfilled.                            *)
LEMMA NothingIsFulfilled ==
  ASSUME NEW source, NEW pc, NEW known, NEW plugs, NEW reported
  PROVE  Fulfils(source, <<>>, <<>>, pc, known, plugs, reported)
<1>1. \A s : UpTo(<<>>, Len(<<>>), s) = {}
  BY DEF UpTo, Import!RowsOf
<1>2. \A s, e : AboutUpTo(<<>>, Len(<<>>), s, e) = {}
  BY DEF AboutUpTo, Import!RowsAbout, Import!RowsOf
<1>3. \A file, n : Remains(source, file, n, <<>>)
  BY DEF Remains, IsList, Names, About, LastOf, LastAbout
<1> QED BY <1>1, <1>2, <1>3 DEF Fulfils, StationsTold, ConnectorsTold

(* A script that has read its source has all of it to write.                *)
LEMMA BeginImport ==
  ASSUME ImportInv, Import!ImportAssumption, NEW file \in Files, NEW source \in {"csv", "ocm"},
         Import!Begin(file, source)
  PROVE  ImportInv'
<1> DEFINE records == Import!RecordsOf(source, file)
<1>1. /\ run = Import!Idle /\ UNCHANGED <<station, connector, touched>>
      /\ records = <<>> => imported' = [file |-> file, source |-> source] /\ run' = run
      /\ records # <<>> =>
           /\ run' = [pc |-> "station", file |-> file, source |-> source, records |-> records]
           /\ imported' = imported
  BY DEF Import!Begin
<1>2. ReadsRows(source, file, Len(file), records)
  BY RecordsAreRead DEF Import!ImportAssumption
<1>3. records \in Seq(Import!Record)
  BY <1>2 DEF ReadsRows, Remains, IsList
<1> HIDE DEF records
<1>4. CASE records = <<>>
  <2>1. run' = Import!Idle /\ imported'.file = file /\ imported'.source = source
    BY <1>1, <1>4
  <2>2. Fulfils(source, file, <<>>, "idle", station, connector, touched)
    BY <1>2, <1>4, ReadingFulfils
  <2> QED BY <1>1, <2>1, <2>2 DEF ImportInv
<1>5. CASE records # <<>>
  <2>1. /\ run'.pc = "station" /\ run'.file = file /\ run'.source = source /\ run'.records = records
        /\ run' \in [pc : {"station", "connector"}, file : Files, source : {"csv", "ocm"},
                     records : Seq(Import!Record)]
        /\ imported' = imported
    BY <1>1, <1>3, <1>5
  <2>2. Fulfils(source, file, records, "station", station, connector, touched)
    BY <1>2, ReadingFulfils
  <2>3. Working'
    BY <1>1, <1>5, <2>1, <2>2 DEF Working
  <2>4. run' # Import!Idle
    BY <2>1, IdleOrAtWork
  <2> QED BY <1>1, <2>1, <2>3, <2>4 DEF ImportInv
<1> QED BY <1>4, <1>5

(* The upsert of a station keeps the invariant.                             *)
LEMMA UpsertsStation ==
  ASSUME ImportInv, Import!ImportAssumption, Import!UpsertStation
  PROVE  ImportInv'
<1> DEFINE records == run.records
           site == records[1].station
<1>1. Working /\ run.pc = "station" /\ run # Import!Idle
  BY IdleOrAtWork DEF Import!UpsertStation, ImportInv
<1>2. /\ records # <<>> /\ Fulfils(run.source, run.file, records, "station", station, connector, touched)
      /\ run \in [pc : {"station", "connector"}, file : Files, source : {"csv", "ocm"},
                  records : Seq(Import!Record)]
      /\ Remains(run.source, run.file, Len(run.file), records)
  BY <1>1 DEF Working, Fulfils
<1>3. Head(records) = records[1] /\ site \in Sites /\ records[1].fact \in Facts
  BY <1>2, FirstOfRecords
<1>4. /\ station' = [station EXCEPT ![site] = records[1].fact]
      /\ run' = [run EXCEPT !.pc = "connector"]
      /\ UNCHANGED <<connector, imported, touched>>
  BY <1>3 DEF Import!UpsertStation
<1>5. /\ run' \in [pc : {"station", "connector"}, file : Files, source : {"csv", "ocm"},
                   records : Seq(Import!Record)]
      /\ run'.pc = "connector" /\ run'.records = records /\ run'.file = run.file
      /\ run'.source = run.source
  BY <1>2, <1>4
<1> HIDE DEF records, site
<1>6. station \in [Sites -> Facts \cup {Import!None}]
  BY DEF ImportInv
<1>7. /\ station' \in [Sites -> Facts \cup {Import!None}] /\ station'[site] = records[1].fact
      /\ \A s \in Sites : s # site => station'[s] = station[s]
  BY <1>3, <1>4, <1>6
<1>8. station'[site] # Import!None
  BY <1>3, <1>7 DEF Import!ImportAssumption
<1>9. Fulfils(run.source, run.file, records, "connector", station', connector, touched)
  BY <1>2, <1>4, <1>6, StationFulfils DEF site
<1>10. Working'
  BY <1>2, <1>4, <1>5, <1>8, <1>9 DEF Working, site
<1>11. \A c \in Import!Connectors : connector'[c] # Import!None => station'[c[1]] # Import!None
  BY <1>4, <1>7, <1>8 DEF ImportInv, Import!Connectors
<1>12. run' # Import!Idle
  BY <1>5, IdleOrAtWork
<1> QED BY <1>4, <1>7, <1>10, <1>11, <1>12 DEF ImportInv

(* So does that of a connector, the last one of a record or of the source   *)
(* included.                                                                *)
LEMMA UpsertsConnector ==
  ASSUME ImportInv, Import!UpsertConnector
  PROVE  ImportInv'
<1> DEFINE records == run.records
           site == records[1].station
           list == records[1].connectors
           c == <<site, list[1].evse>>
           shorter == [records EXCEPT ![1] = [@ EXCEPT !.connectors = Tail(list)]]
<1>1. Working /\ run.pc = "connector" /\ run # Import!Idle
  BY IdleOrAtWork DEF Import!UpsertConnector, ImportInv
<1>2. /\ records # <<>>
      /\ Fulfils(run.source, run.file, records, "connector", station, connector, touched)
      /\ run \in [pc : {"station", "connector"}, file : Files, source : {"csv", "ocm"},
                  records : Seq(Import!Record)]
      /\ Remains(run.source, run.file, Len(run.file), records) /\ IsList(records)
      /\ station[site] # Import!None
  BY <1>1 DEF Working, Fulfils, Remains
<1>3. /\ Head(records) = records[1] /\ site \in Sites /\ Head(list) = list[1]
      /\ list[1].evse \in Evses /\ list[1].status \in Import!Statuses /\ 1 \in 1..Len(records)
  BY <1>2, FirstOfRecords
<1>4. /\ connector' = [connector EXCEPT ![c] = list[1].status]
      /\ touched' = touched \ {c} /\ station' = station
      /\ Tail(list) # <<>> =>
           run' = [run EXCEPT !.records[1].connectors = Tail(list)] /\ imported' = imported
      /\ Tail(list) = <<>> /\ Tail(records) # <<>> =>
           run' = [run EXCEPT !.records = Tail(records), !.pc = "station"] /\ imported' = imported
      /\ Tail(list) = <<>> /\ Tail(records) = <<>> =>
           run' = Import!Idle /\ imported' = [file |-> run.file, source |-> run.source]
  BY <1>3 DEF Import!UpsertConnector
<1>5. Tail(list) # <<>> => run' = [run EXCEPT !.records = shorter]
  BY <1>2, <1>3, <1>4
<1>6. /\ connector \in [Import!Connectors -> Import!Statuses \cup {Import!None}]
      /\ c \in Import!Connectors
      /\ \A d \in Import!Connectors : connector[d] # Import!None => station[d[1]] # Import!None
      /\ c[1] = site
  BY <1>3 DEF ImportInv, Import!Connectors
<1>7. /\ connector' \in [Import!Connectors -> Import!Statuses \cup {Import!None}]
      /\ touched' \subseteq Import!Connectors
      /\ \A d \in Import!Connectors : connector'[d] # Import!None => station'[d[1]] # Import!None
  <2>1. \A d \in Import!Connectors : d # c => connector'[d] = connector[d]
    BY <1>4, <1>6
  <2>2. connector' \in [Import!Connectors -> Import!Statuses \cup {Import!None}]
    BY <1>3, <1>4, <1>6
  <2>3. touched' \subseteq Import!Connectors
    BY <1>4 DEF ImportInv
  <2>4. \A d \in Import!Connectors : connector'[d] # Import!None => station'[d[1]] # Import!None
    BY <1>2, <1>4, <1>6, <2>1
  <2> QED BY <2>2, <2>3, <2>4
<1>8. ASSUME NEW left, NEW d, IsLeft(left, records, d), NEW pc,
             d = 0 \/ pc = "station" \/ left = <<>>
      PROVE  Fulfils(run.source, run.file, left, pc, station, connector', touched \ {c})
  <2>1. c = <<records[1].station, records[1].connectors[1].evse>>
    OBVIOUS
  <2>2. connector' = [connector EXCEPT ![c] = records[1].connectors[1].status]
    BY <1>4
  <2>3. d = 1 => pc = "station" \/ left = <<>>
    BY <1>8, SMTT(30)
  <2> HIDE DEF c, list, site, records
  <2> QED BY <1>2, <1>6, <1>8, <2>1, <2>2, <2>3, ConnectorFulfils
<1>9. CASE Tail(list) # <<>>
  <2>1. IsLeft(shorter, records, 0) /\ shorter # <<>> /\ shorter[1].station = site
    BY <1>2, <1>9, ConnectorsAreLeft
  <2>2. shorter \in Seq(Import!Record)
    BY <2>1 DEF IsLeft, IsList
  <2> HIDE DEF shorter
  <2>3. /\ run' \in [pc : {"station", "connector"}, file : Files, source : {"csv", "ocm"},
                     records : Seq(Import!Record)]
        /\ run'.pc = "connector" /\ run'.records = shorter /\ run'.file = run.file
        /\ run'.source = run.source
    BY <1>1, <1>2, <1>5, <1>9, <2>2
  <2>4. Fulfils(run.source, run.file, shorter, "connector", station, connector', touched \ {c})
    BY <1>8, <2>1
  <2>5. Working'
    BY <1>2, <1>4, <2>1, <2>3, <2>4 DEF Working
  <2>6. run' # Import!Idle
    BY <2>3, IdleOrAtWork
  <2> QED BY <1>4, <1>7, <1>9, <2>5, <2>6 DEF ImportInv
<1>10. CASE Tail(list) = <<>>
  <2> DEFINE left == Tail(records)
  <2>1. IsLeft(left, records, 1)
    BY <1>2, <1>10, RecordsAreLeft
  <2>2. left \in Seq(Import!Record)
    BY <2>1, SMTT(30) DEF IsLeft, IsList
  <2>3. CASE left # <<>>
    <3> HIDE DEF left
    <3>1. run' = [run EXCEPT !.records = left, !.pc = "station"] /\ imported' = imported
      BY <1>4, <1>10, <2>3 DEF left
    <3>2. /\ run' \in [pc : {"station", "connector"}, file : Files, source : {"csv", "ocm"},
                       records : Seq(Import!Record)]
          /\ run'.pc = "station" /\ run'.records = left /\ run'.file = run.file
          /\ run'.source = run.source
      BY <1>2, <2>2, <3>1
    <3>3. Fulfils(run.source, run.file, left, "station", station, connector', touched \ {c})
      BY <1>8, <2>1
    <3>4. Working'
      BY <1>4, <2>3, <3>2, <3>3 DEF Working
    <3>5. run' # Import!Idle
      BY <3>2, IdleOrAtWork, SMTT(30)
    <3> QED BY <1>4, <1>7, <3>1, <3>4, <3>5, ZenonT(30) DEF ImportInv
  <2>4. CASE left = <<>>
    <3>1. run' = Import!Idle /\ imported'.file = run.file /\ imported'.source = run.source
      BY <1>4, <1>10, <2>4
    <3>2. Fulfils(run.source, run.file, <<>>, "idle", station, connector', touched \ {c})
      BY <1>8, <2>1, <2>4
    <3>3. run.file \in Files /\ run.source \in {"csv", "ocm"}
      BY <1>2
    <3> QED BY <1>4, <1>7, <3>1, <3>2, <3>3, ZenonT(30) DEF ImportInv
  <2> QED BY <2>3, <2>4
<1> QED BY <1>9, <1>10

(* A script that is cut off has imported nothing to its end.                *)
LEMMA ImportIsCutOff ==
  ASSUME ImportInv, Import!Abort
  PROVE  ImportInv'
<1>1. /\ run' = Import!Idle /\ imported'.file = <<>> /\ imported'.source = "csv"
      /\ UNCHANGED <<station, connector, touched>>
  BY DEF Import!Abort
<1>2. Fulfils("csv", <<>>, <<>>, "idle", station, connector, touched)
  BY NothingIsFulfilled
<1> QED BY <1>1, <1>2 DEF ImportInv

(* What a charger reports is of a connector that has reported since.        *)
LEMMA ChargerReports ==
  ASSUME ImportInv, NEW c \in Import!Connectors, NEW status \in {"OCCUPIED", "OFFLINE"},
         Import!Report(c, status)
  PROVE  ImportInv'
<1>1. /\ connector[c] # Import!None /\ connector' = [connector EXCEPT ![c] = status]
      /\ touched' = touched \cup {c} /\ UNCHANGED <<station, run, imported>>
  BY DEF Import!Report
<1>2. /\ connector' \in [Import!Connectors -> Import!Statuses \cup {Import!None}]
      /\ \A d \in Import!Connectors : d # c => connector'[d] = connector[d]
      /\ touched' \subseteq Import!Connectors
      /\ \A d \in Import!Connectors : connector'[d] # Import!None => station'[d[1]] # Import!None
  BY <1>1 DEF ImportInv, Import!Statuses
<1>3. ASSUME NEW source, NEW file, NEW records, NEW pc,
             Fulfils(source, file, records, pc, station, connector, touched)
      PROVE  Fulfils(source, file, records, pc, station, connector', touched')
  <2>1. ASSUME NEW s \in Sites, NEW e \in Evses, <<s, e>> \notin touched'
        PROVE  <<s, e>> \notin touched /\ connector'[<<s, e>>] = connector[<<s, e>>]
    BY <1>1, <1>2, <2>1 DEF Import!Connectors
  <2>2. ConnectorsTold(file, records, connector', touched')
    BY <1>3, <2>1 DEF Fulfils, ConnectorsTold
  <2> QED BY <1>3, <2>2 DEF Fulfils
<1>4. Working => Working'
  BY <1>1, <1>3 DEF Working
<1>5. run' = Import!Idle =>
        Fulfils(imported.source, imported.file, <<>>, "idle", station, connector', touched')
  BY <1>1, <1>3 DEF ImportInv
<1> QED BY <1>1, <1>2, <1>4, <1>5 DEF ImportInv

(* Every step of a script or of a charger keeps the invariant of the        *)
(* import.                                                                  *)
LEMMA ImportNext ==
  ASSUME ImportInv, Import!ImportAssumption, [Import!Next]_importVars
  PROVE  ImportInv'
<1>1. ASSUME NEW file \in Files, Import!BeginCsv(file) \/ Import!BeginOcm(file)
      PROVE  ImportInv'
  BY <1>1, BeginImport DEF Import!BeginCsv, Import!BeginOcm
<1>2. ASSUME Import!ImportStep PROVE ImportInv'
  BY <1>2, UpsertsStation, UpsertsConnector DEF Import!ImportStep
<1>3. ASSUME Import!Abort PROVE ImportInv'
  BY <1>3, ImportIsCutOff
<1>4. ASSUME NEW c \in Import!Connectors, NEW status \in {"OCCUPIED", "OFFLINE"},
             Import!Report(c, status)
      PROVE  ImportInv'
  BY <1>4, ChargerReports
<1>5. CASE UNCHANGED importVars
  BY <1>5 DEF importVars, ImportInv, Working
<1> QED BY <1>1, <1>2, <1>3, <1>4, <1>5 DEF Import!Next

(* What the rows say is what ImportIsComplete states.                       *)
LEMMA FactIsTold ==
  ASSUME NEW file \in Seq(Import!Row), NEW s, NEW source, NEW fact,
         TellsFact(source, file, Len(file), s, fact)
  PROVE  fact = file[IF source = "csv" THEN Import!Min(Import!RowsOf(file, s))
                     ELSE Import!Max(Import!RowsOf(file, s))].fact
<1> DEFINE rows == Import!RowsOf(file, s)
<1>1. rows \subseteq 1..Len(file) /\ Len(file) \in Nat
  BY DEF Import!RowsOf
<1>2. UpTo(file, Len(file), s) = rows
  BY <1>1 DEF UpTo
<1>3. PICK i \in rows : fact = file[i].fact /\ \A j \in rows : IF source = "csv" THEN i <= j ELSE j <= i
  BY <1>2 DEF TellsFact
<1>4. \A j \in rows : j \in Nat
  BY <1>1
<1> HIDE DEF rows
<1>5. CASE source = "csv"
  <2>1. \A j \in rows : i <= j
    BY <1>3, <1>5
  <2>2. Import!Min(rows) = i
    BY <1>4, <2>1 DEF Import!Min
  <2> QED BY <1>3, <1>5, <2>2 DEF rows
<1>6. CASE source # "csv"
  <2>1. \A j \in rows : j <= i
    BY <1>3, <1>6
  <2>2. Import!Max(rows) = i
    BY <1>4, <2>1 DEF Import!Max
  <2> QED BY <1>3, <1>6, <2>2 DEF rows
<1> QED BY <1>5, <1>6

(* The same of a connector.                                                 *)
LEMMA StatusIsTold ==
  ASSUME NEW file \in Seq(Import!Row), NEW s, NEW e, NEW status,
         TellsStatus(file, Len(file), s, e, status)
  PROVE  status = file[Import!Max(Import!RowsAbout(file, <<s, e>>))].status
<1> DEFINE rows == Import!RowsAbout(file, <<s, e>>)
<1>1. rows \subseteq 1..Len(file) /\ Len(file) \in Nat
  BY DEF Import!RowsAbout, Import!RowsOf
<1>2. AboutUpTo(file, Len(file), s, e) = rows
  BY <1>1 DEF AboutUpTo
<1>3. PICK i \in rows : status = file[i].status /\ \A j \in rows : j <= i
  BY <1>2 DEF TellsStatus
<1>4. \A j \in rows : j \in Nat
  BY <1>1
<1> HIDE DEF rows
<1>5. Import!Max(rows) = i
  BY <1>3, <1>4 DEF Import!Max
<1> QED BY <1>3, <1>5 DEF rows

(* The invariant gives the types, and the completeness of an import at      *)
(* rest.                                                                    *)
LEMMA ImportsAreComplete ==
  ASSUME ImportInv, Import!ImportAssumption
  PROVE  Import!TypeOK /\ Import!ImportIsComplete
<1>1. run = Import!Idle \/ (run # Import!Idle /\ Working)
  BY DEF ImportInv
<1>2. Import!TypeOK
  <2>1. run.pc # "idle" => Working
    BY IdleOrAtWork DEF ImportInv
  <2>2. run.pc \in {"idle", "station", "connector"}
    BY IdleOrAtWork DEF ImportInv, Working
  <2>3. ASSUME Working
        PROVE  /\ run.file \in Files /\ run.source \in {"csv", "ocm"}
               /\ \A record \in Import!ToSet(run.records) : record.station \in Sites /\ record.fact \in Facts
    <3>1. run.file \in Files /\ run.source \in {"csv", "ocm"} /\ run.records \in Seq(Import!Record)
      BY <2>3 DEF Working
    <3>2. \A record \in Import!ToSet(run.records) : record \in Import!Record
      BY <3>1 DEF Import!ToSet
    <3> QED BY <3>1, <3>2 DEF Import!Record
  <2> QED BY <2>1, <2>2, <2>3 DEF ImportInv, Import!TypeOK
<1>3. ASSUME run = Import!Idle
      PROVE  LET file == imported.file IN
             /\ \A s \in Sites : Import!RowsOf(file, s) # {} =>
                  station[s] = file[IF imported.source = "csv" THEN Import!Min(Import!RowsOf(file, s))
                                    ELSE Import!Max(Import!RowsOf(file, s))].fact
             /\ \A c \in Import!Connectors \ touched : Import!RowsAbout(file, c) # {} =>
                  connector[c] = file[Import!Max(Import!RowsAbout(file, c))].status
  <2> DEFINE file == imported.file
  <2>1. file \in Seq(Import!Row)
    <3>1. imported.file \in Files \cup {<<>>} /\ <<>> \in Seq(Import!Row)
      BY DEF ImportInv
    <3>2. \A f \in Files : f \in Seq(Import!Row)
      BY DEF Import!ImportAssumption
    <3> QED BY <3>1, <3>2
  <2>2. Fulfils(imported.source, file, <<>>, "idle", station, connector, touched)
    BY <1>3 DEF ImportInv
  <2> HIDE DEF file
  <2>3. ASSUME NEW s \in Sites, Import!RowsOf(file, s) # {}
        PROVE  station[s] = file[IF imported.source = "csv" THEN Import!Min(Import!RowsOf(file, s))
                                 ELSE Import!Max(Import!RowsOf(file, s))].fact
    <3>1. UpTo(file, Len(file), s) = Import!RowsOf(file, s)
      BY <2>1 DEF UpTo, Import!RowsOf
    <3>2. TellsFact(imported.source, file, Len(file), s, station[s])
      BY <2>2, <2>3, <3>1, NothingRemains
    <3> QED BY <2>1, <3>2, FactIsTold
  <2>4. ASSUME NEW c \in Import!Connectors \ touched, Import!RowsAbout(file, c) # {}
        PROVE  connector[c] = file[Import!Max(Import!RowsAbout(file, c))].status
    <3>1. PICK s \in Sites, e \in Evses : c = <<s, e>>
      BY DEF Import!Connectors
    <3>2. AboutUpTo(file, Len(file), s, e) = Import!RowsAbout(file, c)
      BY <2>1, <3>1 DEF AboutUpTo, Import!RowsAbout, Import!RowsOf
    <3>3. TellsStatus(file, Len(file), s, e, connector[<<s, e>>])
      BY <2>2, <2>4, <3>1, <3>2, NothingRemains
    <3> QED BY <2>1, <3>1, <3>3, StatusIsTold
  <2> QED BY <2>3, <2>4 DEF file
<1> QED BY <1>2, <1>3 DEF Import!ImportIsComplete

(* A script writes only what its file speaks of.                            *)
LEMMA ImportsTakeNothing ==
  ASSUME ImportInv, [Import!Next]_importVars
  PROVE  Import!TouchesItsRows
<1>1. CASE UNCHANGED importVars
  BY <1>1 DEF importVars, Import!TouchesItsRows
<1>2. CASE \E file \in Files : Import!BeginCsv(file) \/ Import!BeginOcm(file)
  BY <1>2 DEF Import!BeginCsv, Import!BeginOcm, Import!Begin, Import!TouchesItsRows
<1>3. CASE Import!Abort
  BY <1>3 DEF Import!Abort, Import!TouchesItsRows
<1>4. ASSUME NEW c \in Import!Connectors, NEW status \in {"OCCUPIED", "OFFLINE"},
             Import!Report(c, status)
      PROVE  Import!TouchesItsRows
  <2>1. /\ connector' = [connector EXCEPT ![c] = status] /\ touched' = touched \cup {c}
        /\ station' = station /\ connector \in [Import!Connectors -> Import!Statuses \cup {Import!None}]
    BY <1>4 DEF Import!Report, ImportInv
  <2>2. \A d \in Import!Connectors : d # c => connector'[d] = connector[d]
    BY <2>1
  <2> QED BY <2>1, <2>2 DEF Import!TouchesItsRows
<1>5. CASE Import!ImportStep
  <2> DEFINE records == run.records
             site == records[1].station
             evse == records[1].connectors[1].evse
  <2>1. run # Import!Idle /\ Working
    BY <1>5, IdleOrAtWork DEF Import!ImportStep, Import!UpsertStation, Import!UpsertConnector, ImportInv
  <2>2. records # <<>> /\ Remains(run.source, run.file, Len(run.file), records)
    BY <2>1 DEF Working, Fulfils
  <2>3. /\ Head(records) = records[1] /\ Head(records[1].connectors) = records[1].connectors[1]
        /\ site \in Sites /\ evse \in Evses
        /\ UpTo(run.file, Len(run.file), site) # {}
        /\ AboutUpTo(run.file, Len(run.file), site, evse) # {}
    BY <2>2, FirstOfRecords
  <2>4. Import!RowsOf(run.file, site) # {} /\ Import!RowsAbout(run.file, <<site, evse>>) # {}
    BY <2>3 DEF UpTo, AboutUpTo
  <2>5. CASE Import!UpsertStation
    <3>1. station' = [station EXCEPT ![site] = records[1].fact] /\ connector' = connector
      BY <2>3, <2>5 DEF Import!UpsertStation
    <3>2. \A s \in Sites : s # site => station'[s] = station[s]
      BY <3>1 DEF ImportInv
    <3> QED BY <2>1, <2>4, <3>1, <3>2 DEF Import!TouchesItsRows
  <2>6. CASE Import!UpsertConnector
    <3>1. /\ connector' = [connector EXCEPT ![<<site, evse>>] = records[1].connectors[1].status]
          /\ station' = station
      BY <2>3, <2>6 DEF Import!UpsertConnector
    <3>2. \A d \in Import!Connectors : d # <<site, evse>> => connector'[d] = connector[d]
      BY <3>1 DEF ImportInv
    <3> QED BY <2>1, <2>4, <3>1, <3>2 DEF Import!TouchesItsRows
  <2> QED BY <1>5, <2>5, <2>6 DEF Import!ImportStep
<1> QED BY <1>1, <1>2, <1>3, <1>4, <1>5 DEF Import!Next

(* When no script is at work, the last import that came to its end is in    *)
(* the database, whatever was cut off before: of each station what its      *)
(* first row (CSV) or its last point of interest says, of each connector    *)
(* what its last row says until its charger reports (importStations).       *)
THEOREM ImportsStayComplete ==
  Spec => []ImportIsComplete
<1> DEFINE Inv == part = "import" => ImportInv
<1>1. Init => Inv
  BY ImportInit DEF Init
<1>2. Inv /\ [Next]_vars => Inv'
  <2>1. SUFFICES ASSUME Inv, [Next]_vars
                 PROVE  Inv'
    OBVIOUS
  <2>2. part' = part /\ (part = "import" => [Import!Next]_importVars)
    BY <2>1, PartStep
  <2> QED BY <2>1, <2>2, ServicesAssumptions, ImportNext
<1>3. Inv => ImportIsComplete
  BY ServicesAssumptions, ImportsAreComplete DEF ImportIsComplete
<1> QED BY <1>1, <1>2, <1>3, PTL DEF Spec
=============================================================================
