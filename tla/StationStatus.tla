--------------------------- MODULE StationStatus ---------------------------
(***************************************************************************)
(* The availability of one station, which the API keeps in three places:   *)
(* the status of each connector, the status column of the station, and the *)
(* cached answers of the lookups.                                          *)
(* updateConnectorStatus (connectors.service.ts) writes them one await     *)
(* after the other; the lookups of stations.service.ts fill the cache of   *)
(* redis/cache.service.ts from a query that computes the status anew       *)
(* (stations.queries.ts), while the favorites show the column.             *)
(* The import script, which writes rows behind the API's back, is left out *)
(* but for what it leaves: any statuses to start from.                     *)
(***************************************************************************)
EXTENDS Integers

CONSTANTS
  Connectors,   \* of the station
  Listings,     \* cache keys of nearby and search results that list the station
  Updates,      \* updateConnectorStatus requests; each one is sent once
  Lookups,      \* slots for lookups in flight
  Reports       \* the statuses that updates report, a subset of Statuses

Statuses == {"AVAILABLE", "OCCUPIED", "MAINTENANCE", "OFFLINE"}

ASSUME ReportsAssumption == Reports \subseteq Statuses

VARIABLES
  connector,   \* the status of each connector row
  station,     \* the status column of the station row
  cache,       \* Redis
  update,      \* update[u]: where the request is
  lookup,      \* lookup[l]: the answer a lookup is about to cache
  trusted,     \* history: the column was last saved by an update that ran alone
  raced        \* history: keys cached from an outdated read, or left by a failure

vars == <<connector, station, cache, update, lookup, trusted, raced>>

Detail == "detail"
Keys == {Detail} \cup Listings

-----------------------------------------------------------------------------
(* The aggregate status, which the code computes in two languages          *)

\* Mutant: the priorities of OCCUPIED and OFFLINE change places.
PrioritySwapped == [AVAILABLE |-> 0, OCCUPIED |-> 3, MAINTENANCE |-> 2, OFFLINE |-> 1]

\* STATION_STATUS_PRIORITY
Priority == [AVAILABLE |-> 0, OCCUPIED |-> 1, MAINTENANCE |-> 2, OFFLINE |-> 3]

\* computeAggregateStationStatus: the best status, OFFLINE to begin with.
Aggregate(statuses) ==
  CHOOSE s \in statuses \cup {"OFFLINE"} :
    \A t \in statuses \cup {"OFFLINE"} : Priority[s] <= Priority[t]

\* Mutant: the branch of OCCUPIED is missing.
CodeWithoutOccupied(status) ==
  CASE status = "AVAILABLE" -> 0 [] status = "MAINTENANCE" -> 2 [] OTHER -> 3

\* AGGREGATE_STATUS_SQL: the least code of a connector, decoded.
Code(status) ==
  CASE status = "AVAILABLE" -> 0 [] status = "OCCUPIED" -> 1
    [] status = "MAINTENANCE" -> 2 [] OTHER -> 3

ListedStatus(rows) ==
  LET codes == {Code(rows[c]) : c \in Connectors} IN
  CASE 0 \in codes -> "AVAILABLE"
    [] 0 \notin codes /\ 1 \in codes -> "OCCUPIED"
    [] codes \cap {0, 1} = {} /\ 2 \in codes -> "MAINTENANCE"
    [] OTHER -> "OFFLINE"

Current == {connector[c] : c \in Connectors}

\* What a lookup would cache now.
Viewed(key) ==
  IF key = Detail THEN [rows |-> connector]
  ELSE [status |-> ListedStatus(connector)]

-----------------------------------------------------------------------------

NoEntry == [status |-> "absent"]
View == [rows : [Connectors -> Statuses]] \cup [status : Statuses]

Unsent == [pc |-> "unsent"]
Done == [pc |-> "done"]
Reading == [pc : {"read"}, alone : BOOLEAN]
Saving == [pc : {"save"}, aggregate : Statuses, alone : BOOLEAN]
Invalidating == [pc : {"detail", "scan"}]
Purging == [pc : {"purge"}, found : SUBSET Listings]

Idle == [pc |-> "idle"]
Storing == [pc : {"store"}, key : Keys, view : View, outdated : BOOLEAN]

TypeOK ==
  /\ connector \in [Connectors -> Statuses]
  /\ station \in Statuses
  /\ cache \in [Keys -> View \cup {NoEntry}]
  /\ update \in [Updates -> Reading \cup Saving \cup Invalidating \cup Purging \cup {Unsent, Done}]
  /\ lookup \in [Lookups -> Storing \cup {Idle}]
  /\ trusted \in BOOLEAN
  /\ raced \subseteq Keys

Init ==
  /\ connector \in [Connectors -> Statuses]
  /\ station \in Statuses
  /\ cache = [key \in Keys |-> NoEntry]
  /\ update = [u \in Updates |-> Unsent]
  /\ lookup = [l \in Lookups |-> Idle]
  /\ trusted = FALSE
  /\ raced = {}

\* Between the write of its connector and the save of the station.
Cascading(u) == update[u].pc \in {"read", "save"}

\* The station keys an update has changed the rows of and not yet deleted.
Due(u) ==
  CASE update[u].pc \in {"read", "save", "detail"} -> Keys
    [] update[u].pc = "scan" -> Listings
    [] update[u].pc = "purge" -> update[u].found
    [] OTHER -> {}

-----------------------------------------------------------------------------
(* updateConnectorStatus, between its awaits                               *)

\* The connector exists, or the answer is NotFound and nothing changes;
\* connector.update.  History: it outdates what lookups have read, and updates
\* that cascade at the same time are not alone.
WriteConnector(u, c, status) ==
  /\ update[u] = Unsent
  /\ connector' = [connector EXCEPT ![c] = status]
  /\ LET others == {v \in Updates : Cascading(v)} IN
     update' = [v \in Updates |->
                  IF v = u THEN [pc |-> "read", alone |-> others = {}]
                  ELSE IF v \in others THEN [update[v] EXCEPT !.alone = FALSE]
                  ELSE update[v]]
  /\ lookup' = [l \in Lookups |->
                  IF lookup[l] = Idle THEN Idle ELSE [lookup[l] EXCEPT !.outdated = TRUE]]
  /\ UNCHANGED <<station, cache, trusted, raced>>

\* cascadeStationAggregateStatus: findMany and the aggregate ...
ReadConnectors(u) ==
  /\ update[u].pc = "read"
  /\ update' = [update EXCEPT ![u] =
                  [pc |-> "save", alone |-> @.alone, aggregate |-> Aggregate(Current)]]
  /\ UNCHANGED <<connector, station, cache, lookup, trusted, raced>>

\* ... and station.update.  The request then caches the status of its connector
\* too, for nobody: nothing reads that key, and it is left out here.
SaveStation(u) ==
  /\ update[u].pc = "save"
  /\ station' = update[u].aggregate
  /\ trusted' = update[u].alone
  /\ update' = [update EXCEPT ![u] = [pc |-> "detail"]]
  /\ UNCHANGED <<connector, cache, lookup, raced>>

\* invalidateStation: the detail key is deleted ...
DeleteDetail(u) ==
  /\ update[u].pc = "detail"
  /\ cache' = [cache EXCEPT ![Detail] = NoEntry]
  /\ raced' = raced \ {Detail}
  /\ update' = [update EXCEPT ![u].pc = "scan"]
  /\ UNCHANGED <<connector, station, lookup, trusted>>

\* Mutant: no listing is looked for.
ScanNothing(u) ==
  /\ update[u].pc = "scan"
  /\ update' = [update EXCEPT ![u] = [pc |-> "purge", found |-> {}]]
  /\ UNCHANGED <<connector, station, cache, lookup, trusted, raced>>

\* ... the keys of the listings are looked up ...
ScanListings(u) ==
  /\ update[u].pc = "scan"
  /\ update' = [update EXCEPT ![u] =
                  [pc |-> "purge", found |-> {key \in Listings : cache[key] # NoEntry}]]
  /\ UNCHANGED <<connector, station, cache, lookup, trusted, raced>>

\* Mutant: a request that ends keeps its keys.
PurgeKeepsKeys(u) ==
  /\ update[u].pc = "purge"
  /\ cache' = [key \in Keys |-> IF key \in update[u].found THEN NoEntry ELSE cache[key]]
  /\ raced' = raced \ update[u].found
  /\ update' = [update EXCEPT ![u].pc = "done"]
  /\ UNCHANGED <<connector, station, lookup, trusted>>

\* ... and those that were found are deleted.
PurgeListings(u) ==
  /\ update[u].pc = "purge"
  /\ cache' = [key \in Keys |-> IF key \in update[u].found THEN NoEntry ELSE cache[key]]
  /\ raced' = raced \ update[u].found
  /\ update' = [update EXCEPT ![u] = Done]
  /\ UNCHANGED <<connector, station, lookup, trusted>>

\* An await that throws ends the request: what it has written stays.
Fail(u) ==
  /\ update[u] \notin {Unsent, Done}
  /\ update' = [update EXCEPT ![u] = Done]
  /\ trusted' = (trusted /\ ~Cascading(u))
  /\ raced' = raced \cup Due(u)
  /\ UNCHANGED <<connector, station, cache, lookup>>

-----------------------------------------------------------------------------
(* findNearbyStations, searchStations and getStationDetail                 *)

\* The cache has missed, or Redis has failed, which counts as a miss; one SQL
\* statement reads the rows.
Query(l, key) ==
  /\ lookup[l] = Idle
  /\ lookup' = [lookup EXCEPT ![l] =
                  [pc |-> "store", key |-> key, view |-> Viewed(key), outdated |-> FALSE]]
  /\ UNCHANGED <<connector, station, cache, update, trusted, raced>>

\* The answer is cached, unless Redis fails, and returned.
Store(l) ==
  /\ lookup[l] # Idle
  /\ LET key == lookup[l].key IN
     \/ /\ cache' = [cache EXCEPT ![key] = lookup[l].view]
        /\ raced' = IF lookup[l].outdated THEN raced \cup {key} ELSE raced \ {key}
     \/ UNCHANGED <<cache, raced>>
  /\ lookup' = [lookup EXCEPT ![l] = Idle]
  /\ UNCHANGED <<connector, station, update, trusted>>

\* Mutant: the detail is cached without a time to live.
ExpireListings(key) ==
  /\ key \in Listings
  /\ cache[key] # NoEntry
  /\ cache' = [cache EXCEPT ![key] = NoEntry]
  /\ raced' = raced \ {key}
  /\ UNCHANGED <<connector, station, update, lookup, trusted>>

\* Redis drops an entry whose time to live has run out.
Expire(key) ==
  /\ cache[key] # NoEntry
  /\ cache' = [cache EXCEPT ![key] = NoEntry]
  /\ raced' = raced \ {key}
  /\ UNCHANGED <<connector, station, update, lookup, trusted>>

Step(u) ==
  \/ ReadConnectors(u)
  \/ SaveStation(u)
  \/ DeleteDetail(u)
  \/ ScanListings(u)
  \/ PurgeListings(u)
  \/ Fail(u)

Next ==
  \/ \E u \in Updates :
       \/ \E c \in Connectors, status \in Reports : WriteConnector(u, c, status)
       \/ Step(u)
  \/ \E l \in Lookups :
       \/ \E key \in Keys : Query(l, key)
       \/ Store(l)
  \/ \E key \in Keys : Expire(key)

\* Every await settles, and Redis keeps its promise about the time to live.
Fairness ==
  /\ \A u \in Updates : WF_vars(Step(u))
  /\ \A l \in Lookups : WF_vars(Store(l))
  /\ \A key \in Keys : WF_vars(Expire(key))

Spec == Init /\ [][Next]_vars /\ Fairness

-----------------------------------------------------------------------------
(* Properties                                                              *)

\* The rules of computeAggregateStationStatus's comment, of the status that
\* the lookups show: available if any connector is, occupied if none is but one
\* is occupied, in maintenance or offline if all are.
AggregateAsStated ==
  LET shown == ListedStatus(connector) IN
  /\ "AVAILABLE" \in Current => shown = "AVAILABLE"
  /\ ("AVAILABLE" \notin Current /\ "OCCUPIED" \in Current) => shown = "OCCUPIED"
  /\ Current = {"MAINTENANCE"} => shown = "MAINTENANCE"
  /\ Current = {"OFFLINE"} => shown = "OFFLINE"

\* The favorites, which show the column, and the map, which computes the status
\* in SQL, tell the user the same: cascadeStationAggregateStatus keeps the
\* column in step, whatever failed or overlapped before, once an update has
\* run its cascade alone.
FavoritesMatchMap ==
  (trusted /\ \A u \in Updates : ~Cascading(u)) => station = ListedStatus(connector)

\* A cached lookup is out of date only while an update has yet to delete it, or
\* because a lookup cached what it read before an update wrote, or because an
\* update failed half way: invalidateStation comes after every write.
NoStaleWithoutRace ==
  \A key \in Keys \ raced :
    cache[key] \in {NoEntry, Viewed(key)} \/ \E u \in Updates : key \in Due(u)

\* When updates stop, the cache catches up with the rows for good, whatever
\* raced or failed.
CachesCatchUp == <>[](\A key \in Keys : cache[key] \in {NoEntry, Viewed(key)})
=============================================================================
