------------------------ MODULE StationStatusProofs ------------------------
(***************************************************************************)
(* Proofs about StationStatus, for a station with any connectors, any      *)
(* listings and any number of updates and lookups in flight.               *)
(***************************************************************************)
EXTENDS StationStatus, TLAPS

-----------------------------------------------------------------------------
(* Shapes                                                                  *)

Frames == Reading \cup Saving \cup Invalidating \cup Purging \cup {Unsent, Done}

LEMMA UpdateShape ==
  ASSUME NEW x \in Frames
  PROVE  /\ x.pc = "read" => x \in Reading
         /\ x.pc = "save" => x \in Saving
         /\ x.pc \in {"detail", "scan"} => x \in Invalidating
         /\ x.pc = "purge" => x \in Purging
         /\ x.pc = "unsent" => x = Unsent
         /\ x.pc = "done" => x = Done
         /\ x \in Saving => x.pc = "save"
         /\ x.pc \in {"unsent", "read", "save", "detail", "scan", "purge", "done"}
BY DEF Frames, Reading, Saving, Invalidating, Purging, Unsent, Done

LEMMA LookupShape ==
  ASSUME NEW x \in Storing \cup {Idle}
  PROVE  /\ x # Idle => x \in Storing /\ x.pc = "store"
         /\ x.pc = "store" => x \in Storing /\ x # Idle
BY DEF Storing, Idle

LEMMA ViewedType ==
  ASSUME TypeOK, NEW key
  PROVE  Viewed(key) \in View
<1>1. ListedStatus(connector) \in Statuses
  BY DEF ListedStatus, Statuses
<1> QED
  BY <1>1 DEF Viewed, View, TypeOK

(* The two computations of the aggregate agree: the least priority of       *)
(* computeAggregateStationStatus and the least code of the SQL.             *)
THEOREM AggregatesAgree ==
  ASSUME TypeOK
  PROVE  Aggregate(Current) = ListedStatus(connector)
<1> DEFINE S == Current \cup {"OFFLINE"}
           m == ListedStatus(connector)
<1>1. S \subseteq Statuses
  BY DEF TypeOK, Current, Statuses
<1>2. \A c \in Connectors : connector[c] \in Statuses
  BY DEF TypeOK
<1>3. m \in S /\ \A t \in S : Priority[m] <= Priority[t]
  <2> DEFINE codes == {Code(connector[c]) : c \in Connectors}
  <2>1. \A c \in Connectors :
          /\ connector[c] = "AVAILABLE" <=> Code(connector[c]) = 0
          /\ connector[c] = "OCCUPIED" <=> Code(connector[c]) = 1
          /\ connector[c] = "MAINTENANCE" <=> Code(connector[c]) = 2
    <3>1. \A x \in Statuses :
            /\ x = "AVAILABLE" <=> Code(x) = 0
            /\ x = "OCCUPIED" <=> Code(x) = 1
            /\ x = "MAINTENANCE" <=> Code(x) = 2
      BY DEF Code, Statuses
    <3> QED
      BY <1>2, <3>1
  <2>2. /\ "AVAILABLE" \in Current <=> 0 \in codes
        /\ "OCCUPIED" \in Current <=> 1 \in codes
        /\ "MAINTENANCE" \in Current <=> 2 \in codes
    BY <2>1 DEF Current
  <2>3. m = CASE 0 \in codes -> "AVAILABLE"
              [] 0 \notin codes /\ 1 \in codes -> "OCCUPIED"
              [] codes \cap {0, 1} = {} /\ 2 \in codes -> "MAINTENANCE"
              [] OTHER -> "OFFLINE"
    BY DEF ListedStatus
  <2> HIDE DEF codes, m
  <2>4. m = IF "AVAILABLE" \in Current THEN "AVAILABLE"
            ELSE IF "OCCUPIED" \in Current THEN "OCCUPIED"
            ELSE IF "MAINTENANCE" \in Current THEN "MAINTENANCE" ELSE "OFFLINE"
    BY <2>2, <2>3
  <2> QED
    BY <1>1, <2>4 DEF Priority, Statuses
<1>4. \A s, t \in Statuses : (Priority[s] <= Priority[t] /\ Priority[t] <= Priority[s]) => s = t
  BY DEF Priority, Statuses
<1> HIDE DEF m
<1>5. /\ Aggregate(Current) \in S
      /\ \A t \in S : Priority[Aggregate(Current)] <= Priority[t]
  BY <1>3 DEF Aggregate
<1>6. Aggregate(Current) = m
  BY <1>1, <1>3, <1>4, <1>5
<1> QED
  BY <1>6 DEF m

-----------------------------------------------------------------------------
(* Types                                                                   *)

LEMMA InitTypeOK == Init => TypeOK
<1> SUFFICES ASSUME Init PROVE TypeOK
  OBVIOUS
<1>1. \A key \in Keys : cache[key] = NoEntry
  BY DEF Init
<1> QED
  BY DEF Init, TypeOK, Idle, Unsent

LEMMA StepTypeOK == TypeOK /\ [Next]_vars => TypeOK'
<1> SUFFICES ASSUME TypeOK, [Next]_vars PROVE TypeOK'
  OBVIOUS
<1> USE DEF Frames
<1>1. ASSUME NEW u \in Updates, NEW c \in Connectors, NEW status \in Reports,
             WriteConnector(u, c, status)
      PROVE  TypeOK'
  <2>1. connector' \in [Connectors -> Statuses]
    BY <1>1, ReportsAssumption DEF WriteConnector, TypeOK
  <2>2. \A v \in Updates : Cascading(v) => [update[v] EXCEPT !.alone = FALSE] \in Reading \cup Saving
    <3> SUFFICES ASSUME NEW v \in Updates, Cascading(v)
                 PROVE  [update[v] EXCEPT !.alone = FALSE] \in Reading \cup Saving
      OBVIOUS
    <3>1. update[v] \in Reading \cup Saving
      BY UpdateShape DEF TypeOK, Cascading
    <3>2. \A x \in Reading : [x EXCEPT !.alone = FALSE] \in Reading
      BY DEF Reading
    <3>3. \A x \in Saving : [x EXCEPT !.alone = FALSE] \in Saving
      BY DEF Saving
    <3> QED BY <3>1, <3>2, <3>3
  <2>3. \A v \in Updates : update'[v] \in Frames
    <3> SUFFICES ASSUME NEW v \in Updates PROVE update'[v] \in Frames
      OBVIOUS
    <3>1. CASE v = u
      BY <1>1, <3>1 DEF WriteConnector, Reading
    <3>2. CASE v # u /\ Cascading(v)
      BY <1>1, <2>2, <3>2 DEF WriteConnector
    <3>3. CASE v # u /\ ~Cascading(v)
      BY <1>1, <3>3 DEF WriteConnector, TypeOK
    <3> QED BY <3>1, <3>2, <3>3
  <2>4. update' \in [Updates -> Frames]
    BY <1>1, <2>3 DEF WriteConnector
  <2>5. \A l \in Lookups : lookup'[l] \in Storing \cup {Idle}
    <3>1. \A x \in Storing : [x EXCEPT !.outdated = TRUE] \in Storing
      BY DEF Storing
    <3> QED BY <1>1, <3>1, LookupShape DEF WriteConnector, TypeOK
  <2>6. lookup' \in [Lookups -> Storing \cup {Idle}]
    BY <1>1, <2>5 DEF WriteConnector
  <2> QED
    BY <1>1, <2>1, <2>4, <2>6 DEF WriteConnector, TypeOK
<1>2. ASSUME NEW u \in Updates, ReadConnectors(u)
      PROVE  TypeOK'
  <2>1. Aggregate(Current) \in Statuses
    BY AggregatesAgree DEF ListedStatus, Statuses
  <2>2. update[u].alone \in BOOLEAN
    BY <1>2, UpdateShape DEF ReadConnectors, TypeOK, Reading
  <2>3. [pc |-> "save", alone |-> update[u].alone, aggregate |-> Aggregate(Current)] \in Saving
    BY <2>1, <2>2 DEF Saving
  <2> QED
    BY <1>2, <2>3 DEF ReadConnectors, TypeOK
<1>3. ASSUME NEW u \in Updates, SaveStation(u)
      PROVE  TypeOK'
  <2>1. update[u] \in Saving
    BY <1>3, UpdateShape DEF SaveStation, TypeOK
  <2>2. station' \in Statuses /\ trusted' \in BOOLEAN
    BY <1>3, <2>1 DEF SaveStation, Saving
  <2> QED
    BY <1>3, <2>2 DEF SaveStation, TypeOK, Invalidating
<1>4. ASSUME NEW u \in Updates, DeleteDetail(u)
      PROVE  TypeOK'
  <2>1. [update[u] EXCEPT !.pc = "scan"] \in Invalidating
    BY <1>4, UpdateShape DEF DeleteDetail, TypeOK, Invalidating
  <2> QED
    BY <1>4, <2>1 DEF DeleteDetail, TypeOK
<1>5. ASSUME NEW u \in Updates, ScanListings(u)
      PROVE  TypeOK'
  <2>1. [pc |-> "purge", found |-> {key \in Listings : cache[key] # NoEntry}] \in Purging
    BY DEF Purging
  <2> QED
    BY <1>5, <2>1 DEF ScanListings, TypeOK
<1>6. ASSUME NEW u \in Updates, PurgeListings(u)
      PROVE  TypeOK'
  BY <1>6 DEF PurgeListings, TypeOK
<1>7. ASSUME NEW u \in Updates, Fail(u)
      PROVE  TypeOK'
  <2>1. Due(u) \subseteq Keys
    BY UpdateShape DEF Due, Keys, TypeOK, Purging
  <2>2. trusted' \in BOOLEAN
    BY <1>7 DEF Fail
  <2> QED
    BY <1>7, <2>1, <2>2 DEF Fail, TypeOK
<1>8. ASSUME NEW l \in Lookups, NEW key \in Keys, Query(l, key)
      PROVE  TypeOK'
  <2>1. [pc |-> "store", key |-> key, view |-> Viewed(key), outdated |-> FALSE] \in Storing
    BY ViewedType DEF Storing
  <2> QED
    BY <1>8, <2>1 DEF Query, TypeOK
<1>9. ASSUME NEW l \in Lookups, Store(l)
      PROVE  TypeOK'
  <2>1. lookup[l] \in Storing
    BY <1>9, LookupShape DEF Store, TypeOK
  <2>2. cache' \in [Keys -> View \cup {NoEntry}] /\ raced' \subseteq Keys
    BY <1>9, <2>1 DEF Store, TypeOK, Storing
  <2> QED
    BY <1>9, <2>2 DEF Store, TypeOK
<1>10. ASSUME NEW key \in Keys, Expire(key)
       PROVE  TypeOK'
  BY <1>10 DEF Expire, TypeOK
<1>11. CASE UNCHANGED vars
  BY <1>11 DEF vars, TypeOK
<1> QED
  BY <1>1, <1>2, <1>3, <1>4, <1>5, <1>6, <1>7, <1>8, <1>9, <1>10, <1>11 DEF Next, Step

(* Types hold in every reachable state, so no interleaving leaves a request *)
(* between two of its awaits without what the next one needs.               *)
THEOREM TypeCorrect == Spec => []TypeOK
<1> QED BY InitTypeOK, StepTypeOK, PTL DEF Spec

(* The status that the map computes in SQL follows the rules that the       *)
(* comment of computeAggregateStationStatus states, for any connectors.     *)
THEOREM MapAsStated == Spec => []AggregateAsStated
<1>1. ASSUME TypeOK
      PROVE  AggregateAsStated
  <2> DEFINE codes == {Code(connector[c]) : c \in Connectors}
  <2>1. \A x \in Statuses :
          /\ x = "AVAILABLE" <=> Code(x) = 0
          /\ x = "OCCUPIED" <=> Code(x) = 1
          /\ x = "MAINTENANCE" <=> Code(x) = 2
          /\ x = "OFFLINE" <=> Code(x) = 3
    BY DEF Code, Statuses
  <2>2. /\ "AVAILABLE" \in Current <=> 0 \in codes
        /\ "OCCUPIED" \in Current <=> 1 \in codes
        /\ "MAINTENANCE" \in Current <=> 2 \in codes
    BY <1>1, <2>1 DEF Current, TypeOK
  <2>3. ListedStatus(connector) =
          CASE 0 \in codes -> "AVAILABLE"
            [] 0 \notin codes /\ 1 \in codes -> "OCCUPIED"
            [] codes \cap {0, 1} = {} /\ 2 \in codes -> "MAINTENANCE"
            [] OTHER -> "OFFLINE"
    BY DEF ListedStatus
  <2> HIDE DEF codes
  <2> QED
    BY <2>2, <2>3 DEF AggregateAsStated
<1> QED BY <1>1, TypeCorrect, PTL

-----------------------------------------------------------------------------
(* The status column                                                       *)

(* An update that has been alone since its write is the only one in its     *)
(* cascade, and what it is about to save is the aggregate of now.           *)
AloneInv ==
  \A u \in Updates : (Cascading(u) /\ update[u].alone) =>
    /\ \A v \in Updates : Cascading(v) => v = u
    /\ update[u].pc = "save" => update[u].aggregate = ListedStatus(connector)

ColumnInv == FavoritesMatchMap /\ AloneInv

LEMMA InitColumn == Init => ColumnInv
BY DEF Init, ColumnInv, FavoritesMatchMap, AloneInv, Cascading, Unsent

(* A step that leaves the rows, the column and the cascades alone.          *)
LEMMA ColumnKept ==
  ASSUME ColumnInv,
         connector' = connector, station' = station, trusted' = trusted,
         \A v \in Updates : update'[v] = update[v] \/ (~Cascading(v)' /\ ~Cascading(v))
  PROVE  ColumnInv'
<1>1. \A v \in Updates : Cascading(v)' <=> Cascading(v)
  BY DEF Cascading
<1>2. \A v \in Updates : Cascading(v) => update'[v] = update[v]
  OBVIOUS
<1>3. ListedStatus(connector)' = ListedStatus(connector)
  BY DEF ListedStatus
<1>4. FavoritesMatchMap'
  BY <1>1, <1>3 DEF ColumnInv, FavoritesMatchMap
<1>5. AloneInv'
  BY <1>1, <1>2, <1>3 DEF ColumnInv, AloneInv
<1> QED
  BY <1>4, <1>5 DEF ColumnInv

LEMMA StepColumn == TypeOK /\ ColumnInv /\ [Next]_vars => ColumnInv'
<1> SUFFICES ASSUME TypeOK, ColumnInv, [Next]_vars PROVE ColumnInv'
  OBVIOUS
<1>0. DOMAIN update = Updates
  BY DEF TypeOK
<1>1. ASSUME NEW u \in Updates, NEW c \in Connectors, NEW status \in Reports,
             WriteConnector(u, c, status)
      PROVE  ColumnInv'
  <2>1. update'[u].pc = "read" /\ (update'[u].alone => \A v \in Updates : ~Cascading(v))
    BY <1>1 DEF WriteConnector
  <2>2. \A v \in Updates \ {u} : ~Cascading(v) => update'[v] = update[v]
    BY <1>1 DEF WriteConnector
  <2>3. \A v \in Updates \ {u} : Cascading(v) => update'[v] = [update[v] EXCEPT !.alone = FALSE]
    BY <1>1 DEF WriteConnector
  <2>4. \A v \in Updates \ {u} : (Cascading(v) => Cascading(v)' /\ update'[v].alone = FALSE)
    <3> SUFFICES ASSUME NEW v \in Updates \ {u}, Cascading(v)
                 PROVE  Cascading(v)' /\ update'[v].alone = FALSE
      OBVIOUS
    <3>1. update[v] \in Reading \cup Saving
      BY UpdateShape DEF TypeOK, Cascading, Frames
    <3>2. \A x \in Reading \cup Saving : /\ [x EXCEPT !.alone = FALSE].pc = x.pc
                                         /\ [x EXCEPT !.alone = FALSE].alone = FALSE
      BY DEF Reading, Saving
    <3> QED BY <2>3, <3>1, <3>2 DEF Cascading
  <2>5. \A v \in Updates \ {u} : ~Cascading(v) => ~Cascading(v)'
    BY <2>2 DEF Cascading
  <2>6. Cascading(u)' /\ update'[u].pc # "save"
    BY <2>1 DEF Cascading
  <2>7. FavoritesMatchMap'
    BY <2>6 DEF FavoritesMatchMap
  <2>8. AloneInv'
    BY <2>1, <2>4, <2>5, <2>6 DEF AloneInv
  <2> QED
    BY <2>7, <2>8 DEF ColumnInv
<1>2. ASSUME NEW u \in Updates, ReadConnectors(u)
      PROVE  ColumnInv'
  <2>1. \A v \in Updates \ {u} : update'[v] = update[v]
    BY <1>2, <1>0 DEF ReadConnectors
  <2>2. /\ update'[u] = [pc |-> "save", alone |-> update[u].alone,
                         aggregate |-> Aggregate(Current)]
    BY <1>2, <1>0 DEF ReadConnectors
  <2>3. update'[u].pc = "save" /\ update'[u].alone = update[u].alone
        /\ update'[u].aggregate = ListedStatus(connector)
    BY <2>2, AggregatesAgree
  <2>4. \A v \in Updates : Cascading(v)' <=> Cascading(v)
    BY <1>2, <2>1, <2>3 DEF Cascading, ReadConnectors
  <2>5. ListedStatus(connector)' = ListedStatus(connector)
    BY <1>2 DEF ListedStatus, ReadConnectors
  <2>6. FavoritesMatchMap'
    BY <1>2, <2>4, <2>5 DEF ColumnInv, FavoritesMatchMap, ReadConnectors
  <2>7. AloneInv'
    BY <2>1, <2>3, <2>4, <2>5 DEF ColumnInv, AloneInv
  <2> QED
    BY <2>6, <2>7 DEF ColumnInv
<1>3. ASSUME NEW u \in Updates, SaveStation(u)
      PROVE  ColumnInv'
  <2>1. \A v \in Updates \ {u} : update'[v] = update[v]
    BY <1>3, <1>0 DEF SaveStation
  <2>2. update'[u].pc = "detail"
    BY <1>3, <1>0 DEF SaveStation
  <2>3. ~Cascading(u)' /\ \A v \in Updates \ {u} : Cascading(v)' <=> Cascading(v)
    BY <2>1, <2>2 DEF Cascading
  <2>4. ListedStatus(connector)' = ListedStatus(connector)
    BY <1>3 DEF ListedStatus, SaveStation
  <2>5. update[u].alone => station' = ListedStatus(connector)
    BY <1>3 DEF SaveStation, ColumnInv, AloneInv, Cascading
  <2>6. FavoritesMatchMap'
    BY <1>3, <2>4, <2>5 DEF FavoritesMatchMap, SaveStation
  <2>7. AloneInv'
    BY <2>1, <2>3, <2>4 DEF ColumnInv, AloneInv
  <2> QED
    BY <2>6, <2>7 DEF ColumnInv
<1>4. ASSUME NEW u \in Updates, DeleteDetail(u)
      PROVE  ColumnInv'
  <2>1. update[u] \in Invalidating
    BY <1>4, UpdateShape DEF DeleteDetail, TypeOK, Frames
  <2>2. update'[u] = [update[u] EXCEPT !.pc = "scan"]
    BY <1>4, <1>0 DEF DeleteDetail
  <2>3. ~Cascading(u) /\ ~Cascading(u)'
    BY <1>4, <2>1, <2>2 DEF DeleteDetail, Cascading, Invalidating
  <2> QED
    <3>1. /\ connector' = connector /\ station' = station /\ trusted' = trusted
          /\ \A v \in Updates : update'[v] = update[v] \/ v = u
      BY <1>4, <1>0 DEF DeleteDetail
    <3> QED BY <2>3, <3>1, ColumnKept
<1>5. ASSUME NEW u \in Updates, ScanListings(u)
      PROVE  ColumnInv'
  <2>1. ~Cascading(u) /\ ~Cascading(u)'
    BY <1>5, <1>0 DEF ScanListings, Cascading
  <2> QED
    <3>1. /\ connector' = connector /\ station' = station /\ trusted' = trusted
          /\ \A v \in Updates : update'[v] = update[v] \/ v = u
      BY <1>5, <1>0 DEF ScanListings
    <3> QED BY <2>1, <3>1, ColumnKept
<1>6. ASSUME NEW u \in Updates, PurgeListings(u)
      PROVE  ColumnInv'
  <2>1. ~Cascading(u) /\ ~Cascading(u)'
    BY <1>6, <1>0 DEF PurgeListings, Cascading, Done
  <2> QED
    <3>1. /\ connector' = connector /\ station' = station /\ trusted' = trusted
          /\ \A v \in Updates : update'[v] = update[v] \/ v = u
      BY <1>6, <1>0 DEF PurgeListings
    <3> QED BY <2>1, <3>1, ColumnKept
<1>7. ASSUME NEW u \in Updates, Fail(u)
      PROVE  ColumnInv'
  <2>1. \A v \in Updates \ {u} : update'[v] = update[v]
    BY <1>7, <1>0 DEF Fail
  <2>2. ~Cascading(u)' /\ \A v \in Updates \ {u} : Cascading(v)' <=> Cascading(v)
    BY <1>7, <1>0, <2>1 DEF Fail, Cascading, Done
  <2>3. ListedStatus(connector)' = ListedStatus(connector)
    BY <1>7 DEF ListedStatus, Fail
  <2>4. trusted' => trusted /\ ~Cascading(u)
    BY <1>7 DEF Fail
  <2>5. FavoritesMatchMap'
    BY <1>7, <2>2, <2>3, <2>4 DEF ColumnInv, FavoritesMatchMap, Fail
  <2>6. AloneInv'
    BY <2>1, <2>2, <2>3 DEF ColumnInv, AloneInv
  <2> QED
    BY <2>5, <2>6 DEF ColumnInv
<1>8. ASSUME NEW l \in Lookups, NEW key \in Keys, Query(l, key)
      PROVE  ColumnInv'
  BY <1>8, ColumnKept DEF Query
<1>9. ASSUME NEW l \in Lookups, Store(l)
      PROVE  ColumnInv'
  BY <1>9, ColumnKept DEF Store
<1>10. ASSUME NEW key \in Keys, Expire(key)
       PROVE  ColumnInv'
  BY <1>10, ColumnKept DEF Expire
<1>11. CASE UNCHANGED vars
  BY <1>11, ColumnKept DEF vars
<1> QED
  BY <1>1, <1>2, <1>3, <1>4, <1>5, <1>6, <1>7, <1>8, <1>9, <1>10, <1>11 DEF Next, Step

(* The status column that the favorites show is the status that the map     *)
(* computes, once an update has run cascadeStationAggregateStatus with no   *)
(* other cascade beside it, for any number of updates and connectors.       *)
THEOREM ColumnFollowsMap == Spec => []FavoritesMatchMap
<1>1. ColumnInv => FavoritesMatchMap
  BY DEF ColumnInv
<1> QED
  BY <1>1, InitTypeOK, StepTypeOK, InitColumn, StepColumn, PTL DEF Spec

-----------------------------------------------------------------------------
(* The cache                                                               *)

(* A lookup that no write has outdated holds what it would read now.        *)
FreshInv ==
  \A l \in Lookups : (lookup[l] # Idle /\ ~lookup[l].outdated) =>
    lookup[l].view = Viewed(lookup[l].key)

CacheInv == NoStaleWithoutRace /\ FreshInv

LEMMA InitCache == Init => CacheInv
BY DEF Init, CacheInv, NoStaleWithoutRace, FreshInv

LEMMA ViewedKept ==
  ASSUME connector' = connector, NEW key
  PROVE  Viewed(key)' = Viewed(key)
BY DEF Viewed, ListedStatus

(* A step that writes no row, starts no lookup, and takes no key out of Due *)
(* unless the key has no entry any more or has raced.                       *)
LEMMA CacheKept ==
  ASSUME CacheInv, connector' = connector,
         \A l \in Lookups : lookup'[l] = lookup[l] \/ lookup'[l] = Idle,
         \A key \in Keys \ raced' :
           \/ cache'[key] \in {NoEntry, Viewed(key)}
           \/ /\ key \notin raced
              /\ cache'[key] = cache[key]
              /\ \A u \in Updates : key \in Due(u) => key \in Due(u)'
  PROVE  CacheInv'
<1>1. NoStaleWithoutRace'
  <2> SUFFICES ASSUME NEW key \in Keys, key \notin raced'
               PROVE  \/ cache'[key] \in {NoEntry, Viewed(key)'}
                      \/ \E u \in Updates : key \in Due(u)'
    BY DEF NoStaleWithoutRace, Keys
  <2>1. Viewed(key)' = Viewed(key)
    BY ViewedKept
  <2>2. CASE cache'[key] \in {NoEntry, Viewed(key)}
    BY <2>1, <2>2
  <2>3. CASE /\ key \notin raced
             /\ cache'[key] = cache[key]
             /\ \A u \in Updates : key \in Due(u) => key \in Due(u)'
    <3>1. cache[key] \in {NoEntry, Viewed(key)} \/ \E u \in Updates : key \in Due(u)
      BY <2>3 DEF CacheInv, NoStaleWithoutRace
    <3> QED BY <2>1, <2>3, <3>1
  <2> QED BY <2>2, <2>3
<1>2. FreshInv'
  <2> SUFFICES ASSUME NEW l \in Lookups, lookup'[l] # Idle, ~lookup'[l].outdated
               PROVE  lookup'[l].view = Viewed(lookup[l].key)'
    BY DEF FreshInv, Idle
  <2>1. lookup'[l] = lookup[l]
    OBVIOUS
  <2>2. lookup[l].view = Viewed(lookup[l].key)
    BY <2>1 DEF CacheInv, FreshInv
  <2> QED BY <2>1, <2>2 DEF Viewed, ListedStatus
<1> QED BY <1>1, <1>2 DEF CacheInv

LEMMA StepCache == TypeOK /\ CacheInv /\ [Next]_vars => CacheInv'
<1> SUFFICES ASSUME TypeOK, CacheInv, [Next]_vars PROVE CacheInv'
  OBVIOUS
<1>0. DOMAIN update = Updates /\ DOMAIN lookup = Lookups /\ DOMAIN cache = Keys
  BY DEF TypeOK
<1>1. ASSUME NEW u \in Updates, NEW c \in Connectors, NEW status \in Reports,
             WriteConnector(u, c, status)
      PROVE  CacheInv'
  <2>1. update'[u].pc = "read"
    BY <1>1 DEF WriteConnector
  <2>2. Due(u)' = Keys
    BY <2>1 DEF Due
  <2>3. NoStaleWithoutRace'
    BY <2>2 DEF NoStaleWithoutRace, Keys
  <2>4. \A l \in Lookups : lookup'[l] = Idle \/ lookup'[l].outdated = TRUE
    <3>1. \A x \in Storing : [x EXCEPT !.outdated = TRUE].outdated = TRUE
      BY DEF Storing
    <3> QED BY <1>1, <3>1, LookupShape DEF WriteConnector, TypeOK
  <2>5. FreshInv'
    BY <2>4 DEF FreshInv, Idle
  <2> QED BY <2>3, <2>5 DEF CacheInv
<1>2. ASSUME NEW u \in Updates, ReadConnectors(u)
      PROVE  CacheInv'
  <2>1. \A v \in Updates : Due(v)' = Due(v)
    BY <1>2, <1>0 DEF ReadConnectors, Due
  <2> QED
    BY <1>2, <2>1, CacheKept DEF ReadConnectors, CacheInv, NoStaleWithoutRace
<1>3. ASSUME NEW u \in Updates, SaveStation(u)
      PROVE  CacheInv'
  <2>1. \A v \in Updates : Due(v)' = Due(v)
    BY <1>3, <1>0 DEF SaveStation, Due
  <2> QED
    BY <1>3, <2>1, CacheKept DEF SaveStation
<1>4. ASSUME NEW u \in Updates, DeleteDetail(u)
      PROVE  CacheInv'
  <2>1. update[u] \in Invalidating
    BY <1>4, UpdateShape DEF DeleteDetail, TypeOK, Frames
  <2>2. update'[u].pc = "scan" /\ update[u].pc = "detail"
    BY <1>4, <1>0, <2>1 DEF DeleteDetail, Invalidating
  <2>3. \A v \in Updates \ {u} : update'[v] = update[v]
    BY <1>4, <1>0 DEF DeleteDetail
  <2>4. \A v \in Updates, key \in Keys \ {Detail} : key \in Due(v) => key \in Due(v)'
    BY <2>2, <2>3 DEF Due, Keys
  <2>5. /\ cache'[Detail] = NoEntry
        /\ \A key \in Keys \ {Detail} : cache'[key] = cache[key]
        /\ raced' = raced \ {Detail}
        /\ connector' = connector /\ lookup' = lookup
    BY <1>4, <1>0 DEF DeleteDetail, Keys
  <2> QED
    BY <2>4, <2>5, CacheKept
<1>5. ASSUME NEW u \in Updates, ScanListings(u)
      PROVE  CacheInv'
  <2>1. \A v \in Updates \ {u} : update'[v] = update[v]
    BY <1>5, <1>0 DEF ScanListings
  <2>2. /\ Due(u) = Listings
        /\ Due(u)' = {key \in Listings : cache[key] # NoEntry}
    BY <1>5, <1>0 DEF ScanListings, Due
  <2>3. \A v \in Updates, key \in Keys :
          (key \in Due(v) /\ cache[key] # NoEntry) => key \in Due(v)'
    BY <2>1, <2>2 DEF Due
  <2>4. cache' = cache /\ raced' = raced /\ connector' = connector /\ lookup' = lookup
    BY <1>5 DEF ScanListings
  <2> QED
    BY <2>3, <2>4, CacheKept
<1>6. ASSUME NEW u \in Updates, PurgeListings(u)
      PROVE  CacheInv'
  <2>1. \A v \in Updates \ {u} : update'[v] = update[v]
    BY <1>6, <1>0 DEF PurgeListings
  <2>2. Due(u) = update[u].found
    BY <1>6 DEF PurgeListings, Due
  <2>3. \A v \in Updates, key \in Keys \ update[u].found : key \in Due(v) => key \in Due(v)'
    BY <2>1, <2>2 DEF Due
  <2>4. /\ \A key \in Keys : cache'[key] = IF key \in update[u].found THEN NoEntry ELSE cache[key]
        /\ raced' = raced \ update[u].found
        /\ connector' = connector /\ lookup' = lookup
    BY <1>6 DEF PurgeListings
  <2> QED
    BY <2>3, <2>4, CacheKept
<1>7. ASSUME NEW u \in Updates, Fail(u)
      PROVE  CacheInv'
  <2>1. \A v \in Updates \ {u} : update'[v] = update[v]
    BY <1>7, <1>0 DEF Fail
  <2>2. \A v \in Updates, key \in Keys \ Due(u) : key \in Due(v) => key \in Due(v)'
    BY <2>1 DEF Due
  <2>3. raced' = raced \cup Due(u) /\ cache' = cache /\ connector' = connector /\ lookup' = lookup
    BY <1>7 DEF Fail
  <2> QED
    BY <2>2, <2>3, CacheKept
<1>8. ASSUME NEW l \in Lookups, NEW key \in Keys, Query(l, key)
      PROVE  CacheInv'
  <2>1. \A m \in Lookups \ {l} : lookup'[m] = lookup[m]
    BY <1>8, <1>0 DEF Query
  <2>2. lookup'[l].view = Viewed(key) /\ lookup'[l].key = key
    BY <1>8, <1>0 DEF Query
  <2>3. \A v \in Updates : Due(v)' = Due(v)
    BY <1>8 DEF Query, Due
  <2>4. NoStaleWithoutRace'
    BY <1>8, <2>3, ViewedKept DEF Query, CacheInv, NoStaleWithoutRace, Keys
  <2>5. FreshInv'
    BY <1>8, <2>1, <2>2 DEF Query, CacheInv, FreshInv, Viewed, ListedStatus
  <2> QED BY <2>4, <2>5 DEF CacheInv
<1>9. ASSUME NEW l \in Lookups, Store(l)
      PROVE  CacheInv'
  <2> DEFINE key == lookup[l].key
  <2>1. key \in Keys
    BY <1>9, LookupShape DEF Store, TypeOK, Storing
  <2>2. lookup'[l] = Idle /\ \A m \in Lookups \ {l} : lookup'[m] = lookup[m]
    BY <1>9, <1>0 DEF Store
  <2>3. \A v \in Updates : Due(v)' = Due(v)
    BY <1>9 DEF Store, Due
  <2>4. connector' = connector
    BY <1>9 DEF Store
  <2>5. CASE UNCHANGED <<cache, raced>>
    BY <2>2, <2>3, <2>4, <2>5, CacheKept
  <2>6. CASE /\ cache' = [cache EXCEPT ![key] = lookup[l].view]
             /\ raced' = IF lookup[l].outdated THEN raced \cup {key} ELSE raced \ {key}
    <3>1. \A k \in Keys \ {key} : cache'[k] = cache[k] /\ (k \in raced' <=> k \in raced)
      BY <1>0, <2>6
    <3>2. key \in Keys \ raced' => cache'[key] = Viewed(key)
      BY <1>0, <1>9, <2>1, <2>6 DEF Store, CacheInv, FreshInv
    <3> QED
      BY <2>2, <2>3, <2>4, <3>1, <3>2, CacheKept
  <2> QED
    BY <1>9, <2>5, <2>6 DEF Store
<1>10. ASSUME NEW key \in Keys, Expire(key)
       PROVE  CacheInv'
  <2>1. \A v \in Updates : Due(v)' = Due(v)
    BY <1>10 DEF Expire, Due
  <2>2. /\ cache'[key] = NoEntry
        /\ \A k \in Keys \ {key} : cache'[k] = cache[k]
        /\ raced' = raced \ {key}
        /\ connector' = connector /\ lookup' = lookup
    BY <1>10, <1>0 DEF Expire
  <2> QED
    BY <2>1, <2>2, CacheKept
<1>11. CASE UNCHANGED vars
  <2>1. \A v \in Updates : Due(v)' = Due(v)
    BY <1>11 DEF vars, Due
  <2> QED
    BY <1>11, <2>1, CacheKept DEF vars
<1> QED
  BY <1>1, <1>2, <1>3, <1>4, <1>5, <1>6, <1>7, <1>8, <1>9, <1>10, <1>11 DEF Next, Step

(* What a lookup finds in the cache is what the rows say, unless an update  *)
(* has yet to delete it, a lookup cached an outdated read or an update      *)
(* failed half way: invalidateStation leaves no other gap, for any number   *)
(* of updates, lookups and listings.                                        *)
THEOREM OnlyRacesAreStale == Spec => []NoStaleWithoutRace
<1>1. CacheInv => NoStaleWithoutRace
  BY DEF CacheInv
<1> QED
  BY <1>1, InitTypeOK, StepTypeOK, InitCache, StepCache, PTL DEF Spec
=============================================================================
