----------------------------- MODULE MobileProofs -----------------------------
(***************************************************************************)
(* Proofs about MCMobile: what holds of the app in every one of its        *)
(* behaviours, for every value of the constants.  Each part has an         *)
(* invariant of its own, which the steps of that part preserve.            *)
(***************************************************************************)
EXTENDS MCMobile, Sequences, FiniteSetTheorems, WellFoundedInduction, TLAPS

(* A step is one of the part that the behaviour is of, or of nothing.       *)
LEMMA PartStep ==
  ASSUME [Next]_vars
  PROVE  /\ part' = part
         /\ part = "map" => [Map!Next]_mapVars
         /\ part = "favorites" => [Favorites!Next]_favoritesVars
         /\ part = "forms" => [Forms!Next]_formsVars
         /\ part = "rooms" => [Rooms!Next]_roomsVars
         /\ part = "push" => [Push!Next]_pushVars
<1>1. CASE MapStep
  BY <1>1 DEF MapStep
<1>2. CASE FavoritesStep
  BY <1>2 DEF FavoritesStep
<1>3. CASE FormsStep
  BY <1>3 DEF FormsStep
<1>4. CASE RoomsStep
  BY <1>4 DEF RoomsStep
<1>5. CASE PushStep
  BY <1>5 DEF PushStep
<1>6. CASE UNCHANGED vars
  BY <1>6 DEF vars
<1> QED BY <1>1, <1>2, <1>3, <1>4, <1>5, <1>6 DEF Next

-----------------------------------------------------------------------------
(* Station map                                                             *)

Waiting(kind, queries) == [kind : {kind}, query : queries, mounted : BOOLEAN]
Requests == {Map!Idle} \cup Waiting("list", Map!ListQueries) \cup Waiting("detail", Map!DetailQueries)

ListOnScreen == Map!ListQuery(debounced, filters)
SheetOnScreen == Map!DetailQuery(selected, filters)

(* A request whose answer is not dropped asks for what the screen shows.    *)
AsksForScreen(r) ==
  /\ requests[r].kind = "list" /\ requests[r].mounted => requests[r].query = ListOnScreen
  /\ requests[r].kind = "detail" /\ requests[r].mounted =>
       requests[r].query = SheetOnScreen /\ selected # Map!NoStation

MapInv ==
  /\ Map!TypeOK /\ Map!SheetShowsItsStation /\ Map!ListIsCurrent
  /\ requests \in [Map!Slots -> Requests]
  /\ \A r \in Map!Slots : AsksForScreen(r)

LEMMA RequestType ==
  ASSUME NEW q \in Requests
  PROVE  /\ q.kind \in {"idle", "list", "detail"}
         /\ q.kind = "idle" <=> q = Map!Idle
         /\ q.kind = "list" => q \in Waiting("list", Map!ListQueries)
         /\ q.kind = "detail" => q \in Waiting("detail", Map!DetailQueries)
BY DEF Requests, Waiting, Map!Idle

(* The types of the screen's own state.                                     *)
ScreenType ==
  /\ input \in Inputs /\ debounced \in Inputs /\ filters \in Map!Filters
  /\ stations \subseteq Stations /\ answers \in Map!ListQueries \cup {Map!NoList}
  /\ selected \in stations \cup {Map!NoStation}
  /\ detail \in Map!DetailQueries \cup {Map!NoQuery}
  /\ camera \in Stations \cup {Map!NoStation}
  /\ listFailed \in BOOLEAN /\ refreshing \in BOOLEAN
  /\ loading \in BOOLEAN /\ detailFailed \in BOOLEAN

LEMMA MapTypes ==
  ASSUME requests \in [Map!Slots -> Requests]
  PROVE  Map!TypeOK <=> ScreenType
<1>1. \A r \in Map!Slots : requests[r] \in Requests
  OBVIOUS
<1> QED BY <1>1 DEF Map!TypeOK, ScreenType, Requests, Waiting

LEMMA MapTypesNext ==
  ASSUME requests' \in [Map!Slots -> Requests]
  PROVE  Map!TypeOK' <=> ScreenType'
<1>1. \A r \in Map!Slots : requests'[r] \in Requests
  OBVIOUS
<1> QED BY <1>1 DEF Map!TypeOK, ScreenType, Requests, Waiting

LEMMA ListQueryType ==
  ASSUME NEW q \in Inputs, NEW f \in Map!Filters
  PROVE  Map!ListQuery(q, f) \in Map!ListQueries
BY DEF Map!ListQueries

LEMMA DetailQueryType ==
  ASSUME NEW s \in Stations, NEW f \in Map!Filters
  PROVE  Map!DetailQuery(s, f) \in Map!DetailQueries
BY DEF Map!DetailQueries

(* A request goes to a slot that was idle: the least of them exists.        *)
LEMMA SentToIdleSlot ==
  ASSUME NEW n \in [Map!Slots -> Requests], NEW q \in Requests, Map!CanSend(n)
  PROVE  /\ Map!Sent(n, q) \in [Map!Slots -> Requests]
         /\ \E r \in Map!Slots : /\ n[r] = Map!Idle /\ Map!Sent(n, q)[r] = q
                                 /\ \A x \in Map!Slots \ {r} : Map!Sent(n, q)[x] = n[x]
<1> DEFINE idle == {i \in Map!Slots : n[i] = Map!Idle}
           Least(i) == i \in Map!Slots /\ n[i] = Map!Idle
                       /\ \A j \in Map!Slots : n[j] = Map!Idle => i <= j
           r == CHOOSE i \in Map!Slots : n[i] = Map!Idle
                                         /\ \A j \in Map!Slots : n[j] = Map!Idle => i <= j
<1>1. idle # {} /\ idle \subseteq Nat
  BY DEF Map!CanSend, Map!Slots
<1>2. PICK k \in idle : \A j \in idle : <<j, k>> \notin OpToRel(<, Nat)
  <2>1. IsWellFoundedOn(OpToRel(<, Nat), Nat)
    BY NatLessThanWellFounded
  <2> HIDE DEF idle
  <2> QED BY <1>1, <2>1, WFMin
<1>3. Least(k)
  <2>1. \A j \in idle : ~(j < k)
    BY <1>1, <1>2 DEF OpToRel
  <2> QED BY <1>1, <2>1
<1>4. r \in Map!Slots /\ n[r] = Map!Idle
  BY <1>3
<1> HIDE DEF r
<1>5. Map!Sent(n, q) = [n EXCEPT ![r] = q]
  BY DEF Map!Sent, r
<1> QED BY <1>4, <1>5

(* The clean-up of an effect unmounts the requests of its kind.             *)
LEMMA UnmountedRequests ==
  ASSUME NEW n \in [Map!Slots -> Requests], NEW kind \in {"list", "detail"}
  PROVE  /\ Map!Unmounted(n, kind) \in [Map!Slots -> Requests]
         /\ \A r \in Map!Slots :
              IF n[r].kind = kind
              THEN /\ Map!Unmounted(n, kind)[r].kind = kind
                   /\ ~Map!Unmounted(n, kind)[r].mounted
              ELSE Map!Unmounted(n, kind)[r] = n[r]
         /\ Map!CanSend(n) => Map!CanSend(Map!Unmounted(n, kind))
<1> DEFINE m == Map!Unmounted(n, kind)
<1>1. /\ m = [r \in Map!Slots |-> m[r]]
      /\ \A r \in Map!Slots : m[r] = IF n[r].kind = kind THEN [n[r] EXCEPT !.mounted = FALSE]
                                     ELSE n[r]
  BY DEF Map!Unmounted
<1> HIDE DEF m
<1>2. ASSUME NEW r \in Map!Slots
      PROVE  /\ m[r] \in Requests
             /\ IF n[r].kind = kind THEN m[r].kind = kind /\ ~m[r].mounted ELSE m[r] = n[r]
  <2>1. n[r] \in Requests
    OBVIOUS
  <2>2. CASE n[r].kind = kind
    <3>1. m[r] = [n[r] EXCEPT !.mounted = FALSE]
      BY <1>1, <2>2
    <3>2. \/ kind = "list" /\ n[r] \in Waiting("list", Map!ListQueries)
          \/ kind = "detail" /\ n[r] \in Waiting("detail", Map!DetailQueries)
      BY <2>1, <2>2, RequestType
    <3> QED BY <2>2, <3>1, <3>2 DEF Requests, Waiting
  <2>3. CASE n[r].kind # kind
    BY <1>1, <2>1, <2>3
  <2> QED BY <2>2, <2>3
<1>3. \A r \in Map!Slots : n[r] = Map!Idle => m[r] = Map!Idle
  BY <1>1 DEF Map!Idle
<1>4. m \in [Map!Slots -> Requests]
  BY <1>1, <1>2
<1>5. /\ m \in [Map!Slots -> Requests]
      /\ \A r \in Map!Slots : IF n[r].kind = kind THEN m[r].kind = kind /\ ~m[r].mounted
                              ELSE m[r] = n[r]
      /\ Map!CanSend(n) => Map!CanSend(m)
  BY <1>2, <1>3, <1>4 DEF Map!CanSend
<1> QED BY <1>5 DEF m

(* What the effect of the list leaves of the requests.                      *)
LEMMA RefetchedRequests ==
  ASSUME NEW n \in [Map!Slots -> Requests], NEW q \in Inputs, NEW f \in Map!Filters,
         Map!CanSend(n)
  PROVE  LET m == Map!Refetched(n, q, f) IN
         /\ m \in [Map!Slots -> Requests]
         /\ \A r \in Map!Slots :
              /\ m[r].kind = "list" /\ m[r].mounted => m[r].query = Map!ListQuery(q, f)
              /\ m[r].kind = "detail" => m[r] = n[r]
         /\ \E r \in Map!Slots : m[r] = Map!Request("list", Map!ListQuery(q, f))
<1> DEFINE u == Map!Unmounted(n, "list")
           new == Map!Request("list", Map!ListQuery(q, f))
           m == Map!Sent(u, new)
<1>1. new \in Requests /\ new.kind = "list" /\ new.query = Map!ListQuery(q, f)
  BY ListQueryType DEF Map!Request, Requests, Waiting
<1>2. /\ u \in [Map!Slots -> Requests] /\ Map!CanSend(u)
      /\ \A r \in Map!Slots : IF n[r].kind = "list" THEN u[r].kind = "list" /\ ~u[r].mounted
                              ELSE u[r] = n[r]
  BY UnmountedRequests
<1> HIDE DEF u, new
<1>3. /\ m \in [Map!Slots -> Requests]
      /\ \E r \in Map!Slots : /\ u[r] = Map!Idle /\ m[r] = new
                              /\ \A x \in Map!Slots \ {r} : m[x] = u[x]
  BY <1>1, <1>2, SentToIdleSlot
<1>4. m = Map!Refetched(n, q, f)
  BY DEF Map!Refetched, u, new
<1> HIDE DEF m
<1>5. PICK r \in Map!Slots : m[r] = new /\ \A x \in Map!Slots \ {r} : m[x] = u[x]
  BY <1>3
<1>6. \A x \in Map!Slots : /\ m[x].kind = "list" /\ m[x].mounted => m[x].query = Map!ListQuery(q, f)
                           /\ m[x].kind = "detail" => m[x] = n[x]
  BY <1>1, <1>2, <1>5
<1> QED BY <1>3, <1>4, <1>5, <1>6 DEF new

(* The effect of the detail: s is selected under the filters f, and n is    *)
(* what the list has left of the requests.                                  *)
LEMMA DetailEffectStep ==
  ASSUME ScreenType, NEW f \in Map!Filters, NEW n \in [Map!Slots -> Requests],
         NEW s \in stations' \cup {Map!NoStation}, stations' \subseteq Stations,
         Map!DetailEffect(s, f, n), filters' = f
  PROVE  /\ requests' \in [Map!Slots -> Requests]
         /\ selected' = s
         /\ detail' \in Map!DetailQueries \cup {Map!NoQuery}
         /\ loading' \in BOOLEAN /\ detailFailed' \in BOOLEAN
         /\ IF s = Map!NoStation THEN detail' = Map!NoQuery /\ ~loading' ELSE loading' = TRUE
         /\ \A r \in Map!Slots :
              /\ n[r].kind = "list" => requests'[r] = n[r]
              /\ requests'[r].kind = "list" => requests'[r] = n[r]
              /\ requests'[r].kind = "detail" /\ requests'[r].mounted =>
                   requests'[r].query = Map!DetailQuery(s, f) /\ s # Map!NoStation
<1> DEFINE u == Map!Unmounted(n, "detail")
           new == Map!Request("detail", Map!DetailQuery(s, f))
<1>1. /\ u \in [Map!Slots -> Requests] /\ (Map!CanSend(n) => Map!CanSend(u))
      /\ \A r \in Map!Slots : IF n[r].kind = "detail" THEN u[r].kind = "detail" /\ ~u[r].mounted
                              ELSE u[r] = n[r]
  BY UnmountedRequests
<1>2. CASE s = Map!NoStation
  <2>1. /\ requests' = u /\ selected' = s /\ detail' = Map!NoQuery /\ loading' = FALSE
        /\ detailFailed' = FALSE
    BY <1>2 DEF Map!DetailEffect
  <2> HIDE DEF u
  <2>2. \A r \in Map!Slots :
          /\ n[r].kind = "list" => requests'[r] = n[r]
          /\ requests'[r].kind = "list" => requests'[r] = n[r]
          /\ ~(requests'[r].kind = "detail" /\ requests'[r].mounted)
    BY <1>1, <2>1
  <2> QED BY <1>1, <1>2, <2>1, <2>2
<1>3. CASE s # Map!NoStation
  <2>1. /\ requests' = Map!Sent(u, new) /\ selected' = s /\ detail' = detail /\ loading' = TRUE
        /\ detailFailed' = FALSE /\ Map!CanSend(n)
    BY <1>3 DEF Map!DetailEffect
  <2>2. new \in Requests /\ new.kind = "detail" /\ new.query = Map!DetailQuery(s, f)
    BY <1>3, DetailQueryType DEF Map!Request, Requests, Waiting
  <2> HIDE DEF u, new
  <2>3. /\ Map!Sent(u, new) \in [Map!Slots -> Requests]
        /\ \E r \in Map!Slots : /\ u[r] = Map!Idle /\ Map!Sent(u, new)[r] = new
                                /\ \A x \in Map!Slots \ {r} : Map!Sent(u, new)[x] = u[x]
    BY <1>1, <2>1, <2>2, SentToIdleSlot
  <2>4. PICK r \in Map!Slots : /\ u[r] = Map!Idle /\ requests'[r] = new
                               /\ \A x \in Map!Slots \ {r} : requests'[x] = u[x]
    BY <2>1, <2>3
  <2>5. u[r].kind = "idle"
    BY <2>4 DEF Map!Idle
  <2>6. \A x \in Map!Slots :
          /\ n[x].kind = "list" => requests'[x] = n[x]
          /\ requests'[x].kind = "list" => requests'[x] = n[x]
          /\ requests'[x].kind = "detail" /\ requests'[x].mounted =>
               requests'[x].query = Map!DetailQuery(s, f)
    BY <1>1, <2>2, <2>4, <2>5
  <2>7. detail' \in Map!DetailQueries \cup {Map!NoQuery}
    BY <2>1 DEF ScreenType
  <2> QED BY <1>3, <2>1, <2>3, <2>6, <2>7
<1> QED BY <1>2, <1>3

(* The sheet after an effect that keeps or changes what is selected.        *)
SheetIsSound ==
  /\ selected \in stations /\ ~loading /\ ~detailFailed => detail = SheetOnScreen
  /\ selected \notin stations => detail = Map!NoQuery /\ ~loading

ListIsSound ==
  answers = ListOnScreen \/ listFailed
    \/ \E r \in Map!Slots : requests[r] = Map!Request("list", ListOnScreen)

LEMMA MapParts ==
  MapInv <=> /\ ScreenType /\ SheetIsSound /\ ListIsSound
             /\ requests \in [Map!Slots -> Requests]
             /\ \A r \in Map!Slots : AsksForScreen(r)
<1>1. Map!SheetShowsItsStation <=> SheetIsSound
  BY DEF Map!SheetShowsItsStation, Map!SheetShowsConnectors, Map!SheetOpen, SheetIsSound,
         SheetOnScreen
<1>2. Map!ListIsCurrent <=> ListIsSound
  BY DEF Map!ListIsCurrent, ListIsSound, ListOnScreen
<1> QED BY <1>1, <1>2, MapTypes DEF MapInv

LEMMA MapPartsNext ==
  ASSUME ScreenType', SheetIsSound', ListIsSound', requests' \in [Map!Slots -> Requests],
         \A r \in Map!Slots : AsksForScreen(r)'
  PROVE  MapInv'
<1>1. Map!SheetShowsItsStation'
  BY DEF Map!SheetShowsItsStation, Map!SheetShowsConnectors, Map!SheetOpen, SheetIsSound,
         SheetOnScreen
<1>2. Map!ListIsCurrent'
  BY DEF Map!ListIsCurrent, ListIsSound, ListOnScreen
<1> QED BY <1>1, <1>2, MapTypesNext DEF MapInv

LEMMA FiltersType ==
  ASSUME NEW f, f = [d \in Map!Dimensions |-> f[d]],
         \A d \in Map!Dimensions : f[d] \subseteq Options[d]
  PROVE  f \in Map!Filters
<1>1. \A d \in Map!Dimensions : f[d] \in UNION {SUBSET Options[e] : e \in Map!Dimensions}
  OBVIOUS
<1>2. f \in [Map!Dimensions -> UNION {SUBSET Options[e] : e \in Map!Dimensions}]
  BY <1>1
<1> QED BY <1>2 DEF Map!Filters

(* The user types, or moves the camera.                                     *)
LEMMA NothingIsAsked ==
  ASSUME MapInv, UNCHANGED <<debounced, filters, stations, answers, listFailed, refreshing,
                             selected, detail, loading, detailFailed, requests>>,
         input' \in Inputs, camera' \in Stations \cup {Map!NoStation}
  PROVE  MapInv'
<1>1. /\ ScreenType /\ SheetIsSound /\ ListIsSound /\ requests \in [Map!Slots -> Requests]
      /\ \A r \in Map!Slots : AsksForScreen(r)
  BY MapParts
<1>2. ScreenType'
  BY <1>1 DEF ScreenType
<1>3. SheetIsSound' /\ ListIsSound' /\ \A r \in Map!Slots : AsksForScreen(r)'
  BY <1>1 DEF SheetIsSound, ListIsSound, AsksForScreen, ListOnScreen, SheetOnScreen
<1> QED BY <1>1, <1>2, <1>3, MapPartsNext

LEMMA SearchIsDebounced ==
  ASSUME MapInv, Map!Debounce
  PROVE  MapInv'
<1>1. /\ ScreenType /\ SheetIsSound /\ requests \in [Map!Slots -> Requests]
      /\ \A r \in Map!Slots : AsksForScreen(r)
  BY MapParts
<1>2. /\ UNCHANGED <<input, filters, stations, answers, listFailed, refreshing, selected, detail,
                     loading, detailFailed, camera>>
      /\ debounced' = input /\ Map!CanSend(requests)
      /\ requests' = Map!Refetched(requests, input, filters)
  BY DEF Map!Debounce, Map!listVars, Map!detailVars
<1>3. input \in Inputs /\ filters \in Map!Filters
  BY <1>1 DEF ScreenType
<1>4. /\ requests' \in [Map!Slots -> Requests]
      /\ \A r \in Map!Slots :
           /\ requests'[r].kind = "list" /\ requests'[r].mounted =>
                requests'[r].query = Map!ListQuery(input, filters)
           /\ requests'[r].kind = "detail" => requests'[r] = requests[r]
      /\ \E r \in Map!Slots : requests'[r] = Map!Request("list", Map!ListQuery(input, filters))
  BY <1>1, <1>2, <1>3, RefetchedRequests
<1>5. ScreenType' /\ SheetIsSound'
  BY <1>1, <1>2 DEF ScreenType, SheetIsSound, SheetOnScreen
<1>6. ListIsSound'
  BY <1>2, <1>4 DEF ListIsSound, ListOnScreen
<1>7. \A r \in Map!Slots : AsksForScreen(r)'
  BY <1>1, <1>2, <1>4 DEF AsksForScreen, ListOnScreen, SheetOnScreen
<1> QED BY <1>4, <1>5, <1>6, <1>7, MapPartsNext

(* The sheet after the effect of the detail.                                *)
LEMMA SheetFollowsEffect ==
  ASSUME ScreenType', Map!ScreenAssumption,
         IF selected' = Map!NoStation THEN detail' = Map!NoQuery /\ ~loading' ELSE loading' = TRUE
  PROVE  SheetIsSound'
<1>1. selected' \in stations' \cup {Map!NoStation} /\ Map!NoStation \notin stations'
  BY DEF ScreenType, Map!ScreenAssumption
<1> QED BY <1>1 DEF SheetIsSound

LEMMA FiltersChange ==
  ASSUME MapInv, Map!ScreenAssumption, NEW f \in Map!Filters, Map!ChangeFilters(f)
  PROVE  MapInv'
<1> DEFINE n == Map!Refetched(requests, debounced, f)
           query == Map!ListQuery(debounced, f)
<1>1. /\ ScreenType /\ SheetIsSound /\ requests \in [Map!Slots -> Requests]
      /\ \A r \in Map!Slots : AsksForScreen(r)
  BY MapParts
<1>2. /\ UNCHANGED <<input, debounced, stations, answers, listFailed, refreshing, camera>>
      /\ filters' = f /\ Map!CanSend(requests)
      /\ IF selected = Map!NoStation
         THEN requests' = n /\ UNCHANGED <<selected, detail, loading, detailFailed>>
         ELSE Map!DetailEffect(selected, f, n)
  BY DEF Map!ChangeFilters, Map!listVars, Map!detailVars
<1>3. debounced \in Inputs /\ selected \in stations \cup {Map!NoStation} /\ stations \subseteq Stations
  BY <1>1 DEF ScreenType
<1>4. /\ n \in [Map!Slots -> Requests]
      /\ \A r \in Map!Slots :
           /\ n[r].kind = "list" /\ n[r].mounted => n[r].query = query
           /\ n[r].kind = "detail" => n[r] = requests[r]
      /\ \E r \in Map!Slots : n[r] = Map!Request("list", query)
  BY <1>1, <1>2, <1>3, RefetchedRequests
<1>5. \A r \in Map!Slots : n[r] = Map!Request("list", query) => n[r].kind = "list"
  BY DEF Map!Request
<1> HIDE DEF n, query
<1>6. CASE selected = Map!NoStation
  <2>1. requests' = n /\ UNCHANGED <<selected, detail, loading, detailFailed>>
    BY <1>2, <1>6
  <2>2. ScreenType'
    BY <1>1, <1>2, <2>1 DEF ScreenType
  <2>3. SheetIsSound'
    <3>1. Map!NoStation \notin stations
      BY <1>3 DEF Map!ScreenAssumption
    <3> QED BY <1>1, <1>2, <1>6, <2>1, <3>1 DEF SheetIsSound
  <2>4. ListIsSound'
    BY <1>2, <1>4, <2>1 DEF ListIsSound, ListOnScreen, query
  <2>5. \A r \in Map!Slots : AsksForScreen(r)'
    <3>1. \A r \in Map!Slots : ~(requests[r].kind = "detail" /\ requests[r].mounted)
      BY <1>1, <1>6 DEF AsksForScreen
    <3> QED BY <1>2, <1>4, <2>1, <3>1 DEF AsksForScreen, ListOnScreen, query
  <2> QED BY <1>4, <2>1, <2>2, <2>3, <2>4, <2>5, MapPartsNext
<1>7. CASE selected # Map!NoStation
  <2>1. Map!DetailEffect(selected, f, n) /\ selected \in stations' \cup {Map!NoStation}
        /\ stations' \subseteq Stations
    BY <1>2, <1>3, <1>7
  <2>2. /\ requests' \in [Map!Slots -> Requests]
        /\ selected' = selected
        /\ detail' \in Map!DetailQueries \cup {Map!NoQuery}
        /\ loading' \in BOOLEAN /\ detailFailed' \in BOOLEAN
        /\ IF selected = Map!NoStation THEN detail' = Map!NoQuery /\ ~loading' ELSE loading' = TRUE
        /\ \A r \in Map!Slots :
             /\ n[r].kind = "list" => requests'[r] = n[r]
             /\ requests'[r].kind = "list" => requests'[r] = n[r]
             /\ requests'[r].kind = "detail" /\ requests'[r].mounted =>
                  requests'[r].query = Map!DetailQuery(selected, f) /\ selected # Map!NoStation
    BY <1>1, <1>2, <1>4, <2>1, DetailEffectStep
  <2>3. ScreenType'
    BY <1>1, <1>2, <2>2 DEF ScreenType
  <2>4. SheetIsSound'
    BY <2>2, <2>3, SheetFollowsEffect
  <2>5. ListIsSound'
    BY <1>2, <1>4, <1>5, <2>2 DEF ListIsSound, ListOnScreen, query
  <2>6. \A r \in Map!Slots : AsksForScreen(r)'
    BY <1>2, <1>4, <2>2 DEF AsksForScreen, ListOnScreen, SheetOnScreen, query
  <2> QED BY <2>2, <2>3, <2>4, <2>5, <2>6, MapPartsNext
<1> QED BY <1>6, <1>7

LEMMA FilterIsPicked ==
  ASSUME MapInv, Map!ScreenAssumption, Map!PickFilter
  PROVE  MapInv'
<1>1. filters \in Map!Filters
  BY DEF MapInv, Map!TypeOK
<1>2. /\ filters = [d \in Map!Dimensions |-> filters[d]]
      /\ \A d \in Map!Dimensions : filters[d] \subseteq Options[d]
  BY <1>1 DEF Map!Filters
<1>3. ASSUME NEW d \in Map!Dimensions, NEW chosen \in SUBSET Options[d]
      PROVE  [filters EXCEPT ![d] = chosen] \in Map!Filters
  <2> DEFINE f == [filters EXCEPT ![d] = chosen]
  <2>1. f = [e \in Map!Dimensions |-> f[e]] /\ \A e \in Map!Dimensions : f[e] \subseteq Options[e]
    BY <1>2
  <2> HIDE DEF f
  <2>2. f \in Map!Filters
    BY <2>1, FiltersType
  <2> QED BY <2>2 DEF f
<1>4. ASSUME NEW d \in Map!Dimensions, NEW option \in Options[d],
             Map!ChangeFilters([filters EXCEPT ![d] = Map!Toggled(d, option)])
      PROVE  MapInv'
  <2>1. Map!Toggled(d, option) \in SUBSET Options[d]
    BY <1>2 DEF Map!Toggled
  <2> QED BY <1>3, <1>4, <2>1, FiltersChange
<1>5. ASSUME Map!ChangeFilters([filters EXCEPT !["minimumPowerKw"] = {}])
      PROVE  MapInv'
  BY <1>3, <1>5, FiltersChange DEF Map!Dimensions
<1>6. ASSUME Map!ChangeFilters(Map!NoFilters)
      PROVE  MapInv'
  <2>1. Map!NoFilters \in Map!Filters
    BY FiltersType DEF Map!NoFilters
  <2> QED BY <1>6, <2>1, FiltersChange
<1> QED BY <1>4, <1>5, <1>6 DEF Map!PickFilter

LEMMA ListIsRefreshed ==
  ASSUME MapInv, Map!RefreshTimer
  PROVE  MapInv'
<1> DEFINE new == Map!Request("list", ListOnScreen)
<1>1. /\ ScreenType /\ SheetIsSound /\ requests \in [Map!Slots -> Requests]
      /\ \A r \in Map!Slots : AsksForScreen(r)
  BY MapParts
<1>2. /\ UNCHANGED <<input, debounced, filters, stations, answers, listFailed, refreshing,
                     selected, detail, loading, detailFailed, camera>>
      /\ Map!CanSend(requests) /\ requests' = Map!Sent(requests, new)
  BY DEF Map!RefreshTimer, Map!listVars, Map!detailVars, ListOnScreen
<1>3. new \in Requests /\ new.kind = "list" /\ new.query = ListOnScreen
  BY <1>1, ListQueryType DEF Map!Request, Requests, Waiting, ScreenType, ListOnScreen
<1>4. ListOnScreen' = ListOnScreen /\ SheetOnScreen' = SheetOnScreen
  BY <1>2 DEF ListOnScreen, SheetOnScreen
<1> HIDE DEF new
<1>5. /\ requests' \in [Map!Slots -> Requests]
      /\ \E r \in Map!Slots : /\ requests'[r] = new
                              /\ \A x \in Map!Slots \ {r} : requests'[x] = requests[x]
  BY <1>1, <1>2, <1>3, SentToIdleSlot
<1>6. PICK r \in Map!Slots : /\ requests'[r] = new
                             /\ \A x \in Map!Slots \ {r} : requests'[x] = requests[x]
  BY <1>5
<1>7. ScreenType' /\ SheetIsSound'
  BY <1>1, <1>2, <1>4 DEF ScreenType, SheetIsSound
<1>8. ListIsSound'
  BY <1>4, <1>6 DEF ListIsSound, new
<1>9. \A x \in Map!Slots : AsksForScreen(x)'
  BY <1>1, <1>2, <1>3, <1>4, <1>6 DEF AsksForScreen
<1> QED BY <1>5, <1>7, <1>8, <1>9, MapPartsNext

(* A station is selected, or the sheet is closed.                           *)
LEMMA SheetChanges ==
  ASSUME MapInv, Map!ScreenAssumption, NEW s \in stations \cup {Map!NoStation},
         Map!DetailEffect(s, filters, requests),
         UNCHANGED <<input, debounced, filters, stations, answers, listFailed, refreshing>>,
         camera' \in Stations \cup {Map!NoStation}
  PROVE  MapInv'
<1>1. /\ ScreenType /\ ListIsSound /\ requests \in [Map!Slots -> Requests]
      /\ \A r \in Map!Slots : AsksForScreen(r)
  BY MapParts
<1>2. /\ filters \in Map!Filters /\ filters' = filters
      /\ s \in stations' \cup {Map!NoStation} /\ stations' \subseteq Stations
  BY <1>1 DEF ScreenType
<1>3. /\ requests' \in [Map!Slots -> Requests]
      /\ selected' = s
      /\ detail' \in Map!DetailQueries \cup {Map!NoQuery}
      /\ loading' \in BOOLEAN /\ detailFailed' \in BOOLEAN
      /\ IF s = Map!NoStation THEN detail' = Map!NoQuery /\ ~loading' ELSE loading' = TRUE
      /\ \A r \in Map!Slots :
           /\ requests[r].kind = "list" => requests'[r] = requests[r]
           /\ requests'[r].kind = "list" => requests'[r] = requests[r]
           /\ requests'[r].kind = "detail" /\ requests'[r].mounted =>
                requests'[r].query = Map!DetailQuery(s, filters) /\ s # Map!NoStation
  BY <1>1, <1>2, DetailEffectStep
<1>4. ListOnScreen' = ListOnScreen /\ SheetOnScreen' = Map!DetailQuery(s, filters)
  BY <1>2, <1>3 DEF ListOnScreen, SheetOnScreen
<1>5. ScreenType'
  BY <1>1, <1>2, <1>3 DEF ScreenType
<1>6. SheetIsSound'
  BY <1>3, <1>5, SheetFollowsEffect
<1>7. ListIsSound'
  <2>1. \A r \in Map!Slots : requests[r] = Map!Request("list", ListOnScreen) =>
                               requests'[r] = requests[r]
    BY <1>3 DEF Map!Request
  <2> QED BY <1>1, <1>4, <2>1 DEF ListIsSound
<1>8. \A r \in Map!Slots : AsksForScreen(r)'
  BY <1>1, <1>3, <1>4 DEF AsksForScreen
<1> QED BY <1>3, <1>5, <1>6, <1>7, <1>8, MapPartsNext

(* The slot r is idle after its answer.                                     *)
LEMMA SlotFreed ==
  ASSUME MapInv, NEW r \in Map!Slots
  PROVE  LET n == [requests EXCEPT ![r] = Map!Idle] IN
         /\ n \in [Map!Slots -> Requests] /\ n[r].kind = "idle"
         /\ \A x \in Map!Slots \ {r} : n[x] = requests[x]
BY DEF MapInv, Requests, Map!Idle

LEMMA DetailIsAnswered ==
  ASSUME MapInv, Map!ScreenAssumption, NEW r \in Map!Slots, Map!AnswerDetail(r)
  PROVE  MapInv'
<1>1. /\ ScreenType /\ SheetIsSound /\ ListIsSound /\ requests \in [Map!Slots -> Requests]
      /\ \A x \in Map!Slots : AsksForScreen(x)
  BY MapParts
<1>2. /\ UNCHANGED <<input, debounced, filters, stations, answers, listFailed, refreshing,
                     selected, camera>>
      /\ requests[r].kind = "detail"
      /\ requests' = [requests EXCEPT ![r] = Map!Idle]
  BY DEF Map!AnswerDetail, Map!listVars
<1>3. /\ requests' \in [Map!Slots -> Requests] /\ requests'[r].kind = "idle"
      /\ \A x \in Map!Slots \ {r} : requests'[x] = requests[x]
  BY <1>2, SlotFreed
<1>4. ListOnScreen' = ListOnScreen /\ SheetOnScreen' = SheetOnScreen
  BY <1>2 DEF ListOnScreen, SheetOnScreen
<1>5. \A x \in Map!Slots : AsksForScreen(x)'
  BY <1>1, <1>2, <1>3, <1>4 DEF AsksForScreen
<1>6. ListIsSound'
  <2>1. \A x \in Map!Slots : requests[x] = Map!Request("list", ListOnScreen) => x # r
    BY <1>2 DEF Map!Request
  <2> QED BY <1>1, <1>2, <1>3, <1>4, <2>1 DEF ListIsSound
<1>7. ScreenType' /\ SheetIsSound'
  <2>1. CASE requests[r].mounted
    <3>1. requests[r].query = SheetOnScreen /\ selected # Map!NoStation
      BY <1>1, <1>2, <2>1 DEF AsksForScreen
    <3>2. selected \in stations
      BY <1>1, <3>1 DEF ScreenType
    <3>3. SheetOnScreen \in Map!DetailQueries
      BY <1>1, <3>2, DetailQueryType DEF ScreenType, SheetOnScreen
    <3>4. /\ loading' = FALSE
          /\ \/ detail' = SheetOnScreen /\ detailFailed' = detailFailed
             \/ detail' = Map!NoQuery /\ detailFailed' = TRUE
      BY <2>1, <3>1 DEF Map!AnswerDetail
    <3>5. ScreenType'
      BY <1>1, <1>2, <3>3, <3>4 DEF ScreenType
    <3>6. SheetIsSound'
      BY <1>2, <1>4, <3>2, <3>4 DEF SheetIsSound
    <3> QED BY <3>5, <3>6
  <2>2. CASE ~requests[r].mounted
    <3>1. UNCHANGED <<detail, detailFailed, loading>>
      BY <2>2 DEF Map!AnswerDetail
    <3> QED BY <1>1, <1>2, <1>4, <3>1 DEF ScreenType, SheetIsSound
  <2> QED BY <2>1, <2>2
<1> QED BY <1>3, <1>5, <1>6, <1>7, MapPartsNext

LEMMA ListIsAnswered ==
  ASSUME MapInv, Map!ScreenAssumption, NEW r \in Map!Slots, Map!AnswerList(r)
  PROVE  MapInv'
<1> DEFINE n == [requests EXCEPT ![r] = Map!Idle]
<1>1. /\ ScreenType /\ SheetIsSound /\ ListIsSound /\ requests \in [Map!Slots -> Requests]
      /\ \A x \in Map!Slots : AsksForScreen(x)
  BY MapParts
<1>2. UNCHANGED <<input, debounced, filters, camera>> /\ requests[r].kind = "list"
  BY DEF Map!AnswerList
<1>3. /\ n \in [Map!Slots -> Requests] /\ n[r].kind = "idle"
      /\ \A x \in Map!Slots \ {r} : n[x] = requests[x]
  BY SlotFreed
<1>4. ListOnScreen' = ListOnScreen
  BY <1>2 DEF ListOnScreen
<1>5. filters \in Map!Filters /\ Map!NoStation \notin Stations /\ Fallback \subseteq Stations
  BY <1>1 DEF ScreenType, Map!ScreenAssumption
<1>6. CASE ~requests[r].mounted
  <2>1. /\ requests' = n
        /\ UNCHANGED <<stations, answers, listFailed, refreshing, selected, detail, loading,
                       detailFailed>>
    BY <1>6 DEF Map!AnswerList, Map!listVars, Map!detailVars
  <2> HIDE DEF n
  <2>2. ScreenType' /\ SheetIsSound' /\ SheetOnScreen' = SheetOnScreen
    BY <1>1, <1>2, <2>1 DEF ScreenType, SheetIsSound, SheetOnScreen
  <2>3. ListIsSound'
    <3>1. \A x \in Map!Slots : requests[x] = Map!Request("list", ListOnScreen) => x # r
      BY <1>6 DEF Map!Request
    <3> QED BY <1>1, <1>3, <1>4, <2>1, <3>1 DEF ListIsSound
  <2>4. \A x \in Map!Slots : AsksForScreen(x)'
    BY <1>1, <1>3, <1>4, <2>1, <2>2 DEF AsksForScreen
  <2> QED BY <1>3, <2>1, <2>2, <2>3, <2>4, MapPartsNext
<1>7. ASSUME requests[r].mounted,
             listFailed' = TRUE, refreshing' = FALSE, requests' = n,
             UNCHANGED <<stations, answers, selected, detail, loading, detailFailed>>
      PROVE  MapInv'
  <2> HIDE DEF n
  <2>1. ScreenType' /\ SheetIsSound' /\ SheetOnScreen' = SheetOnScreen
    BY <1>1, <1>2, <1>7 DEF ScreenType, SheetIsSound, SheetOnScreen
  <2>2. ListIsSound'
    BY <1>7 DEF ListIsSound
  <2>3. \A x \in Map!Slots : AsksForScreen(x)'
    BY <1>1, <1>3, <1>4, <1>7, <2>1 DEF AsksForScreen
  <2> QED BY <1>3, <1>7, <2>1, <2>2, <2>3, MapPartsNext
<1>8. ASSUME NEW listed \in SUBSET Stations, requests[r].mounted,
             stations' = IF listed # {} \/ Map!AnyFilter(filters) \/ debounced \notin Blank
                         THEN listed ELSE Fallback,
             Map!DeselectEffect(stations', n),
             answers' = requests[r].query, listFailed' = FALSE, refreshing' = FALSE
      PROVE  MapInv'
  <2>1. stations' \subseteq Stations
    BY <1>5, <1>8
  <2>2. answers' = ListOnScreen /\ ListOnScreen \in Map!ListQueries
    BY <1>1, <1>2, <1>8, ListQueryType DEF AsksForScreen, ListOnScreen, ScreenType
  <2>3. ListIsSound'
    BY <1>4, <2>2 DEF ListIsSound
  <2>4. CASE selected \in stations' \cup {Map!NoStation}
    <3>1. requests' = n /\ UNCHANGED <<selected, detail, loading, detailFailed>>
      BY <1>8, <2>4 DEF Map!DeselectEffect, Map!detailVars
    <3> HIDE DEF n
    <3>2. ScreenType' /\ SheetOnScreen' = SheetOnScreen
      BY <1>1, <1>2, <1>8, <2>1, <2>2, <2>4, <3>1 DEF ScreenType, SheetOnScreen
    <3>3. selected \in stations' <=> selected \in stations
      BY <1>1, <1>5, <2>1, <2>4 DEF ScreenType
    <3>4. SheetIsSound'
      BY <1>1, <3>1, <3>2, <3>3 DEF SheetIsSound
    <3>5. \A x \in Map!Slots : AsksForScreen(x)'
      BY <1>1, <1>3, <1>4, <3>1, <3>2 DEF AsksForScreen
    <3> QED BY <1>3, <2>3, <3>1, <3>2, <3>4, <3>5, MapPartsNext
  <2>5. CASE selected \notin stations' \cup {Map!NoStation}
    <3> DEFINE none == Map!NoStation
    <3>1. Map!DetailEffect(none, filters, n)
      BY <1>8, <2>5 DEF Map!DeselectEffect
    <3>2. none \in stations' \cup {Map!NoStation} /\ filters' = filters
      BY <1>2
    <3> HIDE DEF n
    <3>3. /\ requests' \in [Map!Slots -> Requests]
          /\ selected' = none
          /\ detail' \in Map!DetailQueries \cup {Map!NoQuery}
          /\ loading' \in BOOLEAN /\ detailFailed' \in BOOLEAN
          /\ IF none = Map!NoStation THEN detail' = Map!NoQuery /\ ~loading' ELSE loading' = TRUE
          /\ \A x \in Map!Slots :
               /\ n[x].kind = "list" => requests'[x] = n[x]
               /\ requests'[x].kind = "list" => requests'[x] = n[x]
               /\ requests'[x].kind = "detail" /\ requests'[x].mounted =>
                    requests'[x].query = Map!DetailQuery(none, filters) /\ none # Map!NoStation
      <4> HIDE DEF none
      <4> QED BY <1>1, <1>3, <1>5, <2>1, <3>1, <3>2, DetailEffectStep
    <3>4. ScreenType'
      BY <1>1, <1>2, <1>8, <2>1, <2>2, <3>3 DEF ScreenType
    <3>5. SheetIsSound'
      BY <3>3, <3>4, SheetFollowsEffect
    <3>6. \A x \in Map!Slots : AsksForScreen(x)'
      BY <1>1, <1>3, <1>4, <3>3 DEF AsksForScreen
    <3> QED BY <2>3, <3>3, <3>4, <3>5, <3>6, MapPartsNext
  <2> QED BY <2>4, <2>5
<1> QED BY <1>6, <1>7, <1>8 DEF Map!AnswerList, Map!detailVars

LEMMA MapBegins ==
  ASSUME Map!Init, Map!ScreenAssumption
  PROVE  MapInv
<1> DEFINE none == [r \in Map!Slots |-> Map!Idle]
           new == Map!Request("list", Map!ListQuery("", Map!NoFilters))
<1>1. /\ input = "" /\ debounced = "" /\ filters = Map!NoFilters /\ stations = Fallback
      /\ answers = Map!NoList /\ listFailed = FALSE /\ refreshing = TRUE
      /\ selected = Map!NoStation /\ detail = Map!NoQuery /\ loading = FALSE
      /\ detailFailed = FALSE /\ camera = Map!NoStation
      /\ requests = Map!Sent(none, new)
  BY DEF Map!Init
<1>2. Map!NoFilters \in Map!Filters
  BY FiltersType DEF Map!NoFilters
<1>3. "" \in Inputs /\ Fallback \subseteq Stations /\ Map!NoStation \notin Stations
  BY DEF Map!ScreenAssumption
<1>4. none \in [Map!Slots -> Requests] /\ Map!CanSend(none)
  <2>1. MaxMapRequests \in Nat \ {0}
    BY DEF Map!ScreenAssumption
  <2>2. 1 \in Map!Slots
    BY <2>1 DEF Map!Slots
  <2> QED BY <2>2 DEF Map!CanSend, Requests
<1>5. new \in Requests /\ new.kind = "list" /\ new.query = Map!ListQuery("", Map!NoFilters)
  BY <1>2, <1>3, ListQueryType DEF Map!Request, Requests, Waiting
<1>6. \A r \in Map!Slots : none[r].kind = "idle"
  BY DEF Map!Idle
<1> HIDE DEF none, new
<1>7. /\ Map!Sent(none, new) \in [Map!Slots -> Requests]
      /\ \E r \in Map!Slots : /\ none[r] = Map!Idle /\ Map!Sent(none, new)[r] = new
                              /\ \A x \in Map!Slots \ {r} : Map!Sent(none, new)[x] = none[x]
  BY <1>4, <1>5, SentToIdleSlot
<1>8. PICK r \in Map!Slots : requests[r] = new /\ \A x \in Map!Slots \ {r} : requests[x] = none[x]
  BY <1>1, <1>7
<1>9. ListOnScreen = Map!ListQuery("", Map!NoFilters)
  BY <1>1 DEF ListOnScreen
<1>10. ScreenType /\ SheetIsSound
  BY <1>1, <1>2, <1>3 DEF ScreenType, SheetIsSound
<1>11. ListIsSound
  BY <1>8, <1>9 DEF ListIsSound, new
<1>12. \A x \in Map!Slots : AsksForScreen(x)
  BY <1>5, <1>6, <1>8, <1>9 DEF AsksForScreen
<1> QED BY <1>1, <1>7, <1>10, <1>11, <1>12, MapParts

LEMMA MapContinues ==
  ASSUME MapInv, Map!ScreenAssumption, [Map!Next]_mapVars
  PROVE  MapInv'
<1>1. ScreenType
  BY MapParts
<1>2. ASSUME NEW text \in Inputs, Map!Type(text)
      PROVE  MapInv'
  BY <1>1, <1>2, NothingIsAsked DEF Map!Type, Map!listVars, Map!detailVars, ScreenType
<1>3. ASSUME NEW s \in Stations, Map!Press(s)
      PROVE  MapInv'
  <2> DEFINE to == IF s \in stations THEN s ELSE Map!NoStation
  <2>1. /\ Map!DetailEffect(to, filters, requests) /\ to \in stations \cup {Map!NoStation}
        /\ UNCHANGED <<input, debounced, filters, stations, answers, listFailed, refreshing>>
        /\ camera' \in Stations \cup {Map!NoStation}
    BY <1>1, <1>3 DEF Map!Press, Map!listVars, ScreenType
  <2> HIDE DEF to
  <2> QED BY <2>1, SheetChanges
<1>4. ASSUME Map!CloseSheet
      PROVE  MapInv'
  <2> DEFINE to == Map!NoStation
  <2>1. /\ Map!DetailEffect(to, filters, requests) /\ to \in stations \cup {Map!NoStation}
        /\ UNCHANGED <<input, debounced, filters, stations, answers, listFailed, refreshing>>
        /\ camera' \in Stations \cup {Map!NoStation}
    BY <1>1, <1>4 DEF Map!CloseSheet, Map!listVars, ScreenType
  <2> HIDE DEF to
  <2> QED BY <2>1, SheetChanges
<1>5. ASSUME Map!MoveCamera
      PROVE  MapInv'
  <2>1. camera' \in Stations \cup {Map!NoStation} /\ input' \in Inputs
    BY <1>1, <1>5 DEF Map!MoveCamera, ScreenType
  <2> QED BY <1>5, <2>1, NothingIsAsked DEF Map!MoveCamera, Map!listVars, Map!detailVars
<1>6. ASSUME NEW r \in Map!Slots, Map!AnswerList(r) \/ Map!AnswerDetail(r)
      PROVE  MapInv'
  BY <1>6, ListIsAnswered, DetailIsAnswered
<1>7. CASE UNCHANGED mapVars
  <2>1. UNCHANGED <<input, debounced, filters, stations, answers, listFailed, refreshing, selected,
                    detail, loading, detailFailed, camera, requests>>
    BY <1>7 DEF mapVars
  <2> QED BY <1>1, <2>1, NothingIsAsked DEF ScreenType
<1> QED BY <1>2, <1>3, <1>4, <1>5, <1>6, <1>7, SearchIsDebounced, FilterIsPicked, ListIsRefreshed
        DEF Map!Next

-----------------------------------------------------------------------------
(* Favourites                                                              *)

(* The entries are as old as they say.                                      *)
FavoritesInv ==
  /\ Favorites!TypeOK /\ Favorites!FavoritesAgree
  /\ \A i \in 1..Len(stored) : stored[i].createdAt <= clock

(* A list with entries of the stored one only, in their order.              *)
Sublist(list, upTo) ==
  /\ list \in Seq(Favorites!Favorite)
  /\ \E from \in [1..Len(list) -> 1..upTo] :
       /\ \A i \in 1..Len(list) : list[i] = stored[from[i]]
       /\ \A i, j \in 1..Len(list) : i < j => from[i] < from[j]

(* The list without s, entry by entry.                                      *)
KeepStep(kept, s, n) ==
  IF n = 0 THEN <<>>
  ELSE IF stored[n].station # s THEN Append(kept[n - 1], stored[n]) ELSE kept[n - 1]

(* The filter of the first entries is a function for every number of them:  *)
(* the least number without it would be the next of one that has it.        *)
LEMMA FilterExists ==
  ASSUME NEW s, NEW m \in Nat
  PROVE  \E kept : kept = [n \in 0..m |-> KeepStep(kept, s, n)]
<1> DEFINE Has(k) == \E kept : kept = [n \in 0..k |-> KeepStep(kept, s, n)]
           missing == {k \in Nat : ~Has(k)}
<1>1. SUFFICES ASSUME missing # {}
               PROVE  FALSE
  OBVIOUS
<1>2. PICK k \in missing : \A j \in missing : <<j, k>> \notin OpToRel(<, Nat)
  <2>1. IsWellFoundedOn(OpToRel(<, Nat), Nat)
    BY NatLessThanWellFounded
  <2>2. missing \subseteq Nat
    OBVIOUS
  <2> HIDE DEF missing
  <2> QED BY <1>1, <2>1, <2>2, WFMin
<1>3. k \in Nat /\ ~Has(k)
  OBVIOUS
<1>4. CASE k = 0
  <2> DEFINE none == [n \in 0..0 |-> <<>>]
  <2>1. none = [n \in 0..0 |-> KeepStep(none, s, n)]
    BY DEF KeepStep
  <2> QED BY <1>3, <1>4, <2>1
<1>5. CASE k # 0
  <2>1. k - 1 \in Nat /\ k - 1 < k
    BY <1>3, <1>5
  <2>2. <<k - 1, k>> \in OpToRel(<, Nat)
    BY <1>3, <2>1 DEF OpToRel
  <2>3. Has(k - 1)
    BY <1>2, <2>1, <2>2
  <2>4. PICK kept : kept = [n \in 0..(k - 1) |-> KeepStep(kept, s, n)]
    BY <2>3
  <2> DEFINE longer == [n \in 0..k |-> IF n = k THEN KeepStep(kept, s, k) ELSE kept[n]]
  <2>5. \A n \in 0..k : longer[n] = KeepStep(longer, s, n)
    <3>1. SUFFICES ASSUME NEW n \in 0..k
                   PROVE  longer[n] = KeepStep(longer, s, n)
      OBVIOUS
    <3>2. n = 0 \/ (n - 1 \in 0..(k - 1) /\ n - 1 # k /\ n - 1 \in 0..k)
      BY <1>3
    <3>3. n # 0 => longer[n - 1] = kept[n - 1]
      BY <3>2
    <3>4. KeepStep(longer, s, n) = KeepStep(kept, s, n)
      BY <3>3 DEF KeepStep
    <3>5. n # k => n \in 0..(k - 1)
      BY <1>3
    <3>6. n # k => kept[n] = KeepStep(kept, s, n)
      BY <2>4, <3>5
    <3> QED BY <3>1, <3>4, <3>6
  <2>6. longer = [n \in 0..k |-> longer[n]]
    OBVIOUS
  <2> HIDE DEF longer
  <2>7. longer = [n \in 0..k |-> KeepStep(longer, s, n)]
    BY <2>5, <2>6
  <2> QED BY <1>3, <2>7
<1> QED BY <1>4, <1>5

LEMMA FilterIsStepwise ==
  ASSUME NEW s, Favorites!TypeOK
  PROVE  \E kept : /\ Favorites!Without(s) = kept[Len(stored)]
                   /\ \A n \in 0..Len(stored) : kept[n] = KeepStep(kept, s, n)
<1> DEFINE Is(kept) == kept = [n \in 0..Len(stored) |-> KeepStep(kept, s, n)]
           filter == CHOOSE kept : Is(kept)
<1>1. Len(stored) \in Nat
  BY DEF Favorites!TypeOK
<1>2. \E kept : Is(kept)
  BY <1>1, FilterExists
<1>3. Is(filter)
  BY <1>2
<1>4. Favorites!Without(s) = filter[Len(stored)]
  BY DEF Favorites!Without, KeepStep
<1>5. \A n \in 0..Len(stored) : filter[n] = KeepStep(filter, s, n)
  BY <1>3
<1> QED BY <1>4, <1>5

(* What the filter keeps is in the list, in its order, and not about s.     *)
LEMMA WithoutKeepsOthers ==
  ASSUME NEW s, Favorites!TypeOK
  PROVE  /\ Sublist(Favorites!Without(s), Len(stored))
         /\ \A i \in 1..Len(Favorites!Without(s)) : Favorites!Without(s)[i].station # s
<1>1. PICK kept : /\ Favorites!Without(s) = kept[Len(stored)]
                  /\ \A n \in 0..Len(stored) : kept[n] = KeepStep(kept, s, n)
  BY FilterIsStepwise
<1>2. /\ stored \in Seq(Favorites!Favorite) /\ Len(stored) \in Nat
      /\ \A i \in 1..Len(stored) : stored[i] \in Favorites!Favorite
  BY DEF Favorites!TypeOK
<1> DEFINE Good(n) == /\ Sublist(kept[n], n)
                      /\ \A i \in 1..Len(kept[n]) : kept[n][i].station # s
           bad == {n \in 0..Len(stored) : ~Good(n)}
<1>3. SUFFICES ASSUME bad # {}
               PROVE  FALSE
  <2>1. Len(stored) \in 0..Len(stored)
    BY <1>2
  <2> QED BY <1>1, <2>1
<1>4. PICK k \in bad : \A j \in bad : <<j, k>> \notin OpToRel(<, Nat)
  <2>1. IsWellFoundedOn(OpToRel(<, Nat), Nat)
    BY NatLessThanWellFounded
  <2>2. bad \subseteq Nat
    OBVIOUS
  <2> HIDE DEF bad
  <2> QED BY <1>3, <2>1, <2>2, WFMin
<1>5. k \in 0..Len(stored) /\ ~Good(k)
  OBVIOUS
<1>6. CASE k = 0
  <2>1. kept[0] = <<>>
    BY <1>1, <1>5, <1>6 DEF KeepStep
  <2>2. <<>> \in Seq(Favorites!Favorite) /\ Len(<<>>) = 0
    OBVIOUS
  <2> DEFINE none == [i \in 1..0 |-> i]
  <2>3. none \in [1..0 -> 1..0]
    OBVIOUS
  <2>4. \A i, j \in 1..0 : FALSE
    OBVIOUS
  <2> HIDE DEF none
  <2>5. Sublist(<<>>, 0)
    BY <2>2, <2>3, <2>4 DEF Sublist
  <2> QED BY <1>5, <1>6, <2>1, <2>2, <2>4, <2>5
<1>7. CASE k # 0
  <2>1. k - 1 \in 0..Len(stored) /\ k - 1 < k /\ k \in 1..Len(stored) /\ k \in Nat
    BY <1>2, <1>5, <1>7
  <2>2. Good(k - 1)
    <3>1. <<k - 1, k>> \in OpToRel(<, Nat)
      BY <2>1 DEF OpToRel
    <3> QED BY <1>4, <2>1, <3>1
  <2> DEFINE old == kept[k - 1]
  <2>3. kept[k] = IF stored[k].station # s THEN Append(old, stored[k]) ELSE old
    BY <1>1, <1>7, <2>1 DEF KeepStep
  <2>4. PICK from \in [1..Len(old) -> 1..(k - 1)] :
          /\ \A i \in 1..Len(old) : old[i] = stored[from[i]]
          /\ \A i, j \in 1..Len(old) : i < j => from[i] < from[j]
    BY <2>2 DEF Sublist
  <2>5. old \in Seq(Favorites!Favorite) /\ Len(old) \in Nat
        /\ \A i \in 1..Len(old) : old[i].station # s
    BY <2>2 DEF Sublist
  <2> HIDE DEF old
  <2>6. CASE stored[k].station = s
    <3>1. from \in [1..Len(old) -> 1..k]
      BY <2>1, <2>4
    <3>2. kept[k] = old
      BY <2>3, <2>6
    <3> QED BY <1>5, <2>4, <2>5, <3>1, <3>2 DEF Sublist
  <2>7. CASE stored[k].station # s
    <3> DEFINE new == kept[k]
               to == [i \in 1..Len(new) |-> IF i = Len(old) + 1 THEN k ELSE from[i]]
    <3>1. /\ new \in Seq(Favorites!Favorite) /\ Len(new) = Len(old) + 1
          /\ new[Len(old) + 1] = stored[k] /\ \A i \in 1..Len(old) : new[i] = old[i]
      BY <1>2, <2>1, <2>3, <2>5, <2>7
    <3> HIDE DEF new
    <3>2. \A i \in 1..Len(new) : i = Len(old) + 1 \/ (i \in 1..Len(old) /\ i # Len(old) + 1)
      BY <2>5, <3>1
    <3>3. \A i \in 1..Len(old) : from[i] \in 1..(k - 1) /\ from[i] \in 1..k /\ from[i] < k
      BY <2>1, <2>4
    <3>4. to \in [1..Len(new) -> 1..k]
      BY <2>1, <3>2, <3>3
    <3>5. \A i \in 1..Len(new) : new[i] = stored[to[i]] /\ new[i].station # s
      BY <2>4, <2>5, <2>7, <3>1, <3>2
    <3>6. ASSUME NEW i \in 1..Len(new), NEW j \in 1..Len(new), i < j
          PROVE  to[i] < to[j]
      <4>1. i \in 1..Len(old) /\ i # Len(old) + 1
        BY <2>5, <3>1, <3>2, <3>6
      <4>2. CASE j = Len(old) + 1
        BY <3>3, <4>1, <4>2
      <4>3. CASE j \in 1..Len(old) /\ j # Len(old) + 1
        BY <2>4, <3>6, <4>1, <4>3
      <4> QED BY <3>2, <4>2, <4>3
    <3>7. Good(k)
      <4> HIDE DEF to
      <4> QED BY <3>1, <3>4, <3>5, <3>6 DEF Sublist, new
    <3> QED BY <1>5, <3>7
  <2> QED BY <2>6, <2>7
<1> QED BY <1>6, <1>7

LEMMA DatesAreNumbers ==
  ASSUME FavoritesInv, Favorites!ClockAssumption
  PROVE  /\ clock \in Int /\ \A f \in Favorites!Favorite : f.createdAt \in Int
         /\ \A i \in 1..Len(stored) : stored[i] \in Favorites!Favorite
<1>1. stored \in Seq(Favorites!Favorite) /\ clock \in 0..MaxClock
  BY DEF FavoritesInv, Favorites!TypeOK
<1>2. \A f \in Favorites!Favorite : f.createdAt \in 0..MaxClock
  BY DEF Favorites!Favorite
<1> QED BY <1>1, <1>2 DEF Favorites!ClockAssumption

(* A list that every screen that is open reads.                             *)
LEMMA FavoritesAreWritten ==
  ASSUME FavoritesInv, NEW list \in Seq(Favorites!Favorite), Favorites!Write(list),
         \A i, j \in 1..Len(list) :
           i < j => /\ list[i].station # list[j].station
                    /\ list[i].createdAt >= list[j].createdAt,
         \A i \in 1..Len(list) : list[i].createdAt <= clock
  PROVE  FavoritesInv'
<1>1. /\ UNCHANGED <<listening, clock>> /\ stored' = list
      /\ shown' = [x \in Favorites!Screens |-> IF x \in listening THEN list ELSE shown[x]]
  BY DEF Favorites!Write
<1>2. Favorites!TypeOK' /\ \A x \in listening : shown'[x] = list
  BY <1>1 DEF FavoritesInv, Favorites!TypeOK
<1>3. DOMAIN list = 1..Len(list)
  OBVIOUS
<1> QED BY <1>1, <1>2, <1>3 DEF FavoritesInv, Favorites!FavoritesAgree

(* A list of stored entries keeps their order and their distinct stations.  *)
LEMMA SublistAgrees ==
  ASSUME FavoritesInv, NEW list, Sublist(list, Len(stored))
  PROVE  /\ \A i, j \in 1..Len(list) :
              i < j => /\ list[i].station # list[j].station
                       /\ list[i].createdAt >= list[j].createdAt
         /\ \A i \in 1..Len(list) : list[i].createdAt <= clock
<1>1. PICK from \in [1..Len(list) -> 1..Len(stored)] :
        /\ \A i \in 1..Len(list) : list[i] = stored[from[i]]
        /\ \A i, j \in 1..Len(list) : i < j => from[i] < from[j]
  BY DEF Sublist
<1>2. DOMAIN stored = 1..Len(stored)
  BY DEF FavoritesInv, Favorites!TypeOK
<1>3. \A i \in 1..Len(list) : from[i] \in 1..Len(stored) /\ list[i] = stored[from[i]]
  BY <1>1
<1>4. ASSUME NEW i \in 1..Len(list), NEW j \in 1..Len(list), i < j
      PROVE  list[i].station # list[j].station /\ list[i].createdAt >= list[j].createdAt
  <2>1. from[i] < from[j]
    BY <1>1, <1>4
  <2> QED BY <1>2, <1>3, <2>1 DEF FavoritesInv, Favorites!FavoritesAgree
<1>5. \A i \in 1..Len(list) : list[i].createdAt <= clock
  BY <1>3 DEF FavoritesInv
<1> QED BY <1>4, <1>5

LEMMA FavoriteIsRemoved ==
  ASSUME FavoritesInv, NEW s, Favorites!Write(Favorites!Without(s))
  PROVE  FavoritesInv'
<1> DEFINE list == Favorites!Without(s)
<1>1. Sublist(list, Len(stored)) /\ list \in Seq(Favorites!Favorite)
  BY WithoutKeepsOthers DEF FavoritesInv, Sublist
<1> HIDE DEF list
<1>2. Favorites!Write(list)
  BY DEF list
<1> QED BY <1>1, <1>2, SublistAgrees, FavoritesAreWritten

LEMMA FavoriteIsAdded ==
  ASSUME FavoritesInv, Favorites!ClockAssumption, NEW s \in Stations, ~Favorites!IsFavorite(s),
         Favorites!Write(Favorites!Saved(s))
  PROVE  FavoritesInv'
<1> DEFINE rest == Favorites!Without(s)
           entry == [station |-> s, createdAt |-> clock]
           list == <<entry>> \o rest
<1>1. /\ Sublist(rest, Len(stored)) /\ rest \in Seq(Favorites!Favorite)
      /\ \A i \in 1..Len(rest) : rest[i].station # s
  BY WithoutKeepsOthers DEF FavoritesInv, Sublist
<1>2. Favorites!Write(list)
  BY DEF Favorites!Saved
<1>3. entry \in Favorites!Favorite /\ entry.station = s /\ entry.createdAt = clock
  BY DEF FavoritesInv, Favorites!TypeOK, Favorites!Favorite
<1>4. /\ \A i, j \in 1..Len(rest) :
           i < j => /\ rest[i].station # rest[j].station
                    /\ rest[i].createdAt >= rest[j].createdAt
      /\ \A i \in 1..Len(rest) : rest[i].createdAt <= clock
  BY <1>1, SublistAgrees
<1> HIDE DEF rest, entry
<1>5. /\ list \in Seq(Favorites!Favorite) /\ Len(list) = Len(rest) + 1 /\ Len(rest) \in Nat
      /\ list[1] = entry /\ \A i \in 2..Len(list) : list[i] = rest[i - 1]
  BY <1>1, <1>3
<1> HIDE DEF list
<1>6. \A i \in 1..Len(list) : i = 1 \/ (i \in 2..Len(list) /\ i - 1 \in 1..Len(rest))
  BY <1>5
<1>7. ASSUME NEW i \in 1..Len(list), NEW j \in 1..Len(list), i < j
      PROVE  list[i].station # list[j].station /\ list[i].createdAt >= list[j].createdAt
  <2>1. j \in 2..Len(list) /\ j - 1 \in 1..Len(rest) /\ list[j] = rest[j - 1]
    BY <1>5, <1>6, <1>7
  <2>2. CASE i = 1
    <3>1. list[j].station # s /\ list[j].createdAt <= clock
      BY <1>1, <1>4, <2>1
    <3>2. list[j].createdAt \in Int /\ clock \in Int
      BY <1>5, DatesAreNumbers
    <3> QED BY <1>3, <1>5, <2>2, <3>1, <3>2
  <2>3. CASE i # 1
    <3>1. i - 1 \in 1..Len(rest) /\ list[i] = rest[i - 1] /\ i - 1 < j - 1
      BY <1>5, <1>6, <1>7, <2>3
    <3> QED BY <1>4, <2>1, <3>1
  <2> QED BY <2>2, <2>3
<1>8. \A i \in 1..Len(list) : list[i].createdAt <= clock
  <2>1. clock \in Int
    BY DEF FavoritesInv, Favorites!TypeOK
  <2> QED BY <1>3, <1>4, <1>5, <1>6, <2>1
<1> QED BY <1>2, <1>5, <1>7, <1>8, FavoritesAreWritten

LEMMA FavoritesBegin ==
  ASSUME Favorites!Init, Favorites!ClockAssumption
  PROVE  FavoritesInv
BY DEF Favorites!Init, Favorites!ClockAssumption, FavoritesInv, Favorites!TypeOK,
       Favorites!FavoritesAgree

LEMMA FavoritesContinue ==
  ASSUME FavoritesInv, Favorites!ClockAssumption, [Favorites!Next]_favoritesVars
  PROVE  FavoritesInv'
<1>1. ASSUME NEW x \in Favorites!Screens, Favorites!Mount(x) \/ Favorites!Unmount(x)
      PROVE  FavoritesInv'
  <2>1. UNCHANGED <<stored, clock>>
    BY <1>1 DEF Favorites!Mount, Favorites!Unmount
  <2>2. /\ listening' \subseteq Favorites!Screens
        /\ shown' \in [Favorites!Screens -> Seq(Favorites!Favorite)]
        /\ \A y \in listening' : shown'[y] = stored
    BY <1>1 DEF Favorites!Mount, Favorites!Unmount, FavoritesInv, Favorites!TypeOK,
                Favorites!FavoritesAgree
  <2> QED BY <2>1, <2>2 DEF FavoritesInv, Favorites!TypeOK, Favorites!FavoritesAgree
<1>2. ASSUME NEW s \in Stations, Favorites!Toggle(s)
      PROVE  FavoritesInv'
  BY <1>2, FavoriteIsRemoved, FavoriteIsAdded DEF Favorites!Toggle
<1>3. ASSUME NEW s \in Stations, Favorites!Remove(s)
      PROVE  FavoritesInv'
  BY <1>3, FavoriteIsRemoved DEF Favorites!Remove
<1>4. CASE Favorites!RestartApp
  <2>1. /\ UNCHANGED <<stored, clock>> /\ listening' = {}
        /\ shown' \in [Favorites!Screens -> Seq(Favorites!Favorite)]
    BY <1>4 DEF Favorites!RestartApp
  <2> QED BY <2>1 DEF FavoritesInv, Favorites!TypeOK, Favorites!FavoritesAgree
<1>5. CASE Favorites!Tick
  <2>1. UNCHANGED <<stored, listening, shown>> /\ clock' = clock + 1 /\ clock < MaxClock
    BY <1>5 DEF Favorites!Tick
  <2>2. clock' \in 0..MaxClock
    BY <2>1 DEF FavoritesInv, Favorites!TypeOK, Favorites!ClockAssumption
  <2>3. \A i \in 1..Len(stored) : stored[i].createdAt <= clock'
    <3>1. \A i \in 1..Len(stored) : stored[i].createdAt \in Int /\ stored[i].createdAt <= clock
      BY DatesAreNumbers DEF FavoritesInv
    <3> QED BY <2>1, <3>1, DatesAreNumbers
  <2> QED BY <2>1, <2>2, <2>3 DEF FavoritesInv, Favorites!TypeOK, Favorites!FavoritesAgree
<1>6. CASE UNCHANGED favoritesVars
  <2>1. UNCHANGED <<stored, listening, shown, clock>>
    BY <1>6 DEF favoritesVars
  <2> QED BY <2>1 DEF FavoritesInv, Favorites!TypeOK, Favorites!FavoritesAgree
<1> QED BY <1>1, <1>2, <1>3, <1>4, <1>5, <1>6 DEF Favorites!Next

-----------------------------------------------------------------------------
(* Onboarding                                                              *)

Rows == [otp : SUBSET NewUsers, accounts : SUBSET NewUsers, vehicles : SUBSET NewUsers,
         methods : SUBSET Forms!Setup]
SessionState == [draft : NewUsers \cup {Forms!NoUser}, user : NewUsers \cup {Forms!NoUser},
                 gateway : Gateways \cup {Forms!NoGateway}, complete : BOOLEAN]

(* A screen of this name finds what it needs in the session.                *)
Finds(name, s) ==
  /\ name = "verify" => s.draft # Forms!NoUser
  /\ name \in {"vehicle", "payment"} => s.user # Forms!NoUser
  /\ name = "tabs" => s.complete /\ s.user # Forms!NoUser

SoundStack(screens, s) ==
  /\ screens \in Seq(Forms!Screen) /\ Len(screens) \in 1..MaxScreens
  /\ \A k \in 1..Len(screens) : Finds(screens[k].name, s)

StackIsSound == SoundStack(stack, session)

(* A request of a user that is signed in is on its way only while one is,   *)
(* and a setup that the API has accepted is stored.                         *)
HandlerKnows(r) ==
  forms[r] # Forms!Idle =>
    /\ forms[r].screen \in {"vehicle", "payment"} => session.user # Forms!NoUser
    /\ forms[r].screen = "payment" =>
         /\ forms[r].gateway \in Forms!TokenPay
         /\ forms[r].phase = "ok" =>
              [user |-> forms[r].user, gateway |-> forms[r].gateway] \in api.methods

FormsInv ==
  /\ StackIsSound
  /\ session \in SessionState
  /\ forms \in [Forms!Slots -> Forms!Handler \cup {Forms!Idle}]
  /\ \A r \in Forms!Slots : HandlerKnows(r)
  /\ api \in Rows /\ api.vehicles \subseteq api.accounts
  /\ sendsToken \in Wirings
  /\ finished \subseteq api.methods
  /\ refused \in BOOLEAN

LEMMA FormsAreSound ==
  ASSUME FormsInv
  PROVE  Forms!TypeOK /\ Forms!FlowIsSound
<1>1. /\ api.otp \subseteq NewUsers /\ api.accounts \subseteq NewUsers
      /\ api.methods \subseteq Forms!Setup
  BY DEF FormsInv, Rows
<1>2. Forms!TypeOK
  BY <1>1 DEF FormsInv, StackIsSound, SoundStack, SessionState, Forms!TypeOK
<1>3. \A k \in DOMAIN stack : Finds(stack[k].name, session)
  BY DEF FormsInv, StackIsSound, SoundStack
<1>4. Forms!FlowIsSound
  BY <1>3 DEF FormsInv, Finds, Forms!FlowIsSound
<1> QED BY <1>2, <1>4

LEMMA HandlerType ==
  ASSUME FormsInv, NEW r \in Forms!Slots, forms[r].phase \in Forms!Phases
  PROVE  /\ forms[r] \in Forms!Handler /\ forms[r] # Forms!Idle
         /\ forms[r].screen \in Forms!Screens /\ forms[r].user \in NewUsers
         /\ HandlerKnows(r)
BY DEF FormsInv, Forms!Handler, Forms!Idle, Forms!Phases

(* The session keeps what a screen has found in it.                         *)
SessionKeeps == \A name \in Forms!Screens : Finds(name, session) => Finds(name, session')

LEMMA StackStaysSound ==
  ASSUME FormsInv, SessionKeeps
  PROVE  SoundStack(stack, session')
<1>1. \A k \in 1..Len(stack) : stack[k] \in Forms!Screen /\ stack[k].name \in Forms!Screens
  <2>1. \A k \in 1..Len(stack) : stack[k] \in Forms!Screen
    BY DEF FormsInv, StackIsSound, SoundStack
  <2> QED BY <2>1 DEF Forms!Screen
<1> QED BY <1>1 DEF FormsInv, StackIsSound, SoundStack, SessionKeeps

LEMMA ScreenIsPushed ==
  ASSUME NEW s, SoundStack(s, session'), Forms!OnboardingAssumption,
         NEW name \in Forms!Screens, Finds(name, session'), Forms!PushOn(s, name)
  PROVE  StackIsSound'
<1> DEFINE top == Forms!Mounted(name)
<1>1. top \in Forms!Screen /\ top.name = name
  BY DEF Forms!Mounted, Forms!Screen, Forms!OnboardingAssumption
<1>2. stack' = Append(s, top) /\ Len(s) < MaxScreens /\ s \in Seq(Forms!Screen)
  BY DEF Forms!PushOn, SoundStack
<1> HIDE DEF top
<1>3. /\ stack' \in Seq(Forms!Screen) /\ Len(stack') = Len(s) + 1 /\ stack'[Len(s) + 1] = top
      /\ \A k \in 1..Len(s) : stack'[k] = s[k]
  BY <1>1, <1>2
<1>4. Len(stack') \in 1..MaxScreens
  BY <1>2, <1>3 DEF SoundStack, Forms!OnboardingAssumption
<1>5. \A k \in 1..Len(stack') : k = Len(s) + 1 \/ k \in 1..Len(s)
  BY <1>2, <1>3
<1>6. \A k \in 1..Len(stack') : Finds(stack'[k].name, session')
  BY <1>1, <1>3, <1>5 DEF SoundStack
<1> QED BY <1>3, <1>4, <1>6 DEF StackIsSound, SoundStack

LEMMA TopChanges ==
  ASSUME SoundStack(stack, session'), NEW top \in Forms!Screen, Finds(top.name, session'),
         stack' = [stack EXCEPT ![Len(stack)] = top]
  PROVE  StackIsSound'
<1>1. stack \in Seq(Forms!Screen) /\ Len(stack) \in 1..MaxScreens
  BY DEF SoundStack
<1>2. /\ stack' \in Seq(Forms!Screen) /\ Len(stack') = Len(stack)
      /\ \A k \in 1..Len(stack) : stack'[k] = IF k = Len(stack) THEN top ELSE stack[k]
  BY <1>1
<1>3. \A k \in 1..Len(stack') : Finds(stack'[k].name, session')
  BY <1>2 DEF SoundStack
<1> QED BY <1>1, <1>2, <1>3 DEF StackIsSound, SoundStack

LEMMA ScreenIsReplaced ==
  ASSUME SoundStack(stack, session'), Forms!OnboardingAssumption, NEW name \in Forms!Screens, Finds(name, session'),
         Forms!Replace(name)
  PROVE  StackIsSound'
<1> DEFINE top == Forms!Mounted(name)
<1>1. top \in Forms!Screen /\ top.name = name /\ stack' = [stack EXCEPT ![Len(stack)] = top]
  BY DEF Forms!Mounted, Forms!Screen, Forms!OnboardingAssumption, Forms!Replace
<1> HIDE DEF top
<1> QED BY <1>1, TopChanges

(* The top of the stack is the entry of the onboarding, or the entry begins *)
(* after the last tabs: the least screen with no tabs from it on.           *)
LEMMA EntryExists ==
  ASSUME StackIsSound, ~Forms!On("tabs")
  PROVE  \E k \in 1..Len(stack) : /\ \A j \in k..Len(stack) : stack[j].name # "tabs"
                                  /\ k = 1 \/ stack[k - 1].name = "tabs"
<1> DEFINE n == Len(stack)
           free == {k \in 1..n : \A j \in k..n : stack[j].name # "tabs"}
<1>1. n \in Nat /\ n >= 1 /\ n \in 1..n /\ \A j \in n..n : j = n
  BY DEF StackIsSound, SoundStack
<1>2. n \in free
  BY <1>1 DEF Forms!On, Forms!Top
<1>3. PICK k \in free : \A j \in free : <<j, k>> \notin OpToRel(<, Nat)
  <2>1. IsWellFoundedOn(OpToRel(<, Nat), Nat)
    BY NatLessThanWellFounded
  <2>2. free # {} /\ free \subseteq Nat
    BY <1>1, <1>2
  <2> HIDE DEF free
  <2> QED BY <2>1, <2>2, WFMin
<1>4. k \in 1..n /\ \A j \in k..n : stack[j].name # "tabs"
  OBVIOUS
<1>5. ASSUME k # 1, stack[k - 1].name # "tabs"
      PROVE  FALSE
  <2>1. k - 1 \in 1..n /\ k - 1 \in Nat /\ k \in Nat /\ k - 1 < k
    BY <1>1, <1>4, <1>5
  <2>2. \A j \in (k - 1)..n : j = k - 1 \/ j \in k..n
    BY <1>1, <1>4
  <2>3. k - 1 \in free
    BY <1>4, <1>5, <2>1, <2>2
  <2>4. <<k - 1, k>> \in OpToRel(<, Nat)
    BY <2>1 DEF OpToRel
  <2> QED BY <1>3, <2>3, <2>4
<1> QED BY <1>4, <1>5

LEMMA TabsAreShown ==
  ASSUME StackIsSound, SoundStack(stack, session'), Forms!OnboardingAssumption, Finds("tabs", session'),
         Forms!ReplaceByTabs
  PROVE  StackIsSound'
<1> DEFINE top == Forms!Mounted("tabs")
           entry == IF Forms!On("tabs") THEN Len(stack)
                    ELSE CHOOSE k \in DOMAIN stack :
                           /\ \A j \in k..Len(stack) : stack[j].name # "tabs"
                           /\ k = 1 \/ stack[k - 1].name = "tabs"
           rest == SubSeq(stack, 1, entry - 1)
<1>1. stack \in Seq(Forms!Screen) /\ Len(stack) \in 1..MaxScreens /\ DOMAIN stack = 1..Len(stack)
  BY DEF StackIsSound, SoundStack
<1>2. entry \in 1..Len(stack)
  <2>1. CASE Forms!On("tabs")
    BY <1>1, <2>1
  <2>2. CASE ~Forms!On("tabs")
    <3>1. \E k \in DOMAIN stack : /\ \A j \in k..Len(stack) : stack[j].name # "tabs"
                                  /\ k = 1 \/ stack[k - 1].name = "tabs"
      BY <1>1, <2>2, EntryExists
    <3> QED BY <1>1, <2>2, <3>1
  <2> QED BY <2>1, <2>2
<1>3. top \in Forms!Screen /\ top.name = "tabs"
  BY DEF Forms!Mounted, Forms!Screen, Forms!Screens, Forms!OnboardingAssumption
<1>4. stack' = Append(rest, top)
  BY DEF Forms!ReplaceByTabs
<1> HIDE DEF entry, top
<1>5. /\ rest \in Seq(Forms!Screen) /\ Len(rest) = entry - 1
      /\ \A k \in 1..Len(rest) : rest[k] = stack[k]
  BY <1>1, <1>2
<1> HIDE DEF rest
<1>6. /\ stack' \in Seq(Forms!Screen) /\ Len(stack') = entry
      /\ stack'[entry] = top /\ \A k \in 1..(entry - 1) : stack'[k] = stack[k]
  BY <1>2, <1>3, <1>4, <1>5
<1>7. \A k \in 1..Len(stack') : k = entry \/ (k \in 1..(entry - 1) /\ k \in 1..Len(stack))
  BY <1>2, <1>6
<1>8. \A k \in 1..Len(stack') : Finds(stack'[k].name, session')
  BY <1>3, <1>6, <1>7 DEF SoundStack
<1>9. Len(stack') \in 1..MaxScreens
  BY <1>1, <1>2, <1>6 DEF Forms!OnboardingAssumption
<1> QED BY <1>6, <1>8, <1>9 DEF StackIsSound, SoundStack

(* A button that works again is on a screen of the same name.               *)
LEMMA ReleasedIsSound ==
  ASSUME SoundStack(stack, session'), Forms!OnboardingAssumption, NEW r
  PROVE  SoundStack(Forms!Released(r), session')
<1> DEFINE s == Forms!Released(r)
           n == Len(stack)
<1>1. /\ stack \in Seq(Forms!Screen) /\ n \in Nat /\ DOMAIN stack = 1..n
      /\ \A k \in 1..n : stack[k] \in Forms!Screen
  BY DEF SoundStack
<1>2. s = [k \in 1..n |-> IF stack[k].awaits = r THEN [stack[k] EXCEPT !.awaits = 0] ELSE stack[k]]
  BY <1>1 DEF Forms!Released
<1>3. \A k \in 1..n : s[k] \in Forms!Screen /\ s[k].name = stack[k].name
  <2>1. SUFFICES ASSUME NEW k \in 1..n
                 PROVE  s[k] \in Forms!Screen /\ s[k].name = stack[k].name
    OBVIOUS
  <2>2. s[k] = IF stack[k].awaits = r THEN [stack[k] EXCEPT !.awaits = 0] ELSE stack[k]
    BY <1>2
  <2>3. stack[k] \in Forms!Screen
    BY <1>1
  <2> QED BY <2>2, <2>3 DEF Forms!Screen, Forms!OnboardingAssumption
<1>4. s \in Seq(Forms!Screen) /\ Len(s) = n
  <2>1. s = [k \in 1..n |-> s[k]]
    BY <1>2
  <2> HIDE DEF s
  <2> QED BY <1>1, <1>3, <2>1
<1>5. \A k \in 1..Len(s) : Finds(s[k].name, session')
  BY <1>3, <1>4 DEF SoundStack
<1> QED BY <1>4, <1>5 DEF SoundStack

LEMMA ScreenIsLeft ==
  ASSUME StackIsSound, Forms!OnboardingAssumption, Forms!Back
  PROVE  StackIsSound'
<1> DEFINE n == Len(stack)
<1>1. /\ stack \in Seq(Forms!Screen) /\ n \in 2..MaxScreens /\ n \in Nat /\ session' = session
      /\ stack' = SubSeq(stack, 1, n - 1)
  BY DEF StackIsSound, SoundStack, Forms!Back
<1>2. /\ stack' \in Seq(Forms!Screen) /\ Len(stack') = n - 1
      /\ \A k \in 1..(n - 1) : stack'[k] = stack[k]
  BY <1>1
<1>3. Len(stack') \in 1..MaxScreens /\ \A k \in 1..Len(stack') : k \in 1..(n - 1) /\ k \in 1..n
  <2>1. MaxScreens \in Nat
    BY DEF Forms!OnboardingAssumption
  <2> HIDE DEF n
  <2> QED BY <1>1, <1>2, <2>1
<1> QED BY <1>1, <1>2, <1>3 DEF StackIsSound, SoundStack

(* A step of one handler, which then is h.                                  *)
LEMMA HandlerStep ==
  ASSUME FormsInv, NEW r \in Forms!Slots, NEW h \in Forms!Handler \cup {Forms!Idle},
         forms' = [forms EXCEPT ![r] = h],
         session.user # Forms!NoUser => session'.user # Forms!NoUser,
         api.methods \subseteq api'.methods,
         h # Forms!Idle =>
           /\ h.screen \in {"vehicle", "payment"} => session'.user # Forms!NoUser
           /\ h.screen = "payment" =>
                /\ h.gateway \in Forms!TokenPay
                /\ h.phase = "ok" => [user |-> h.user, gateway |-> h.gateway] \in api'.methods
  PROVE  /\ forms' \in [Forms!Slots -> Forms!Handler \cup {Forms!Idle}]
         /\ \A x \in Forms!Slots : HandlerKnows(x)'
<1>1. /\ forms' \in [Forms!Slots -> Forms!Handler \cup {Forms!Idle}] /\ forms'[r] = h
      /\ \A x \in Forms!Slots \ {r} : forms'[x] = forms[x]
  BY DEF FormsInv
<1>2. HandlerKnows(r)'
  BY <1>1 DEF HandlerKnows
<1>3. \A x \in Forms!Slots \ {r} : HandlerKnows(x)'
  BY <1>1 DEF FormsInv, HandlerKnows
<1> QED BY <1>1, <1>2, <1>3

(* The handler reaches another phase.                                       *)
LEMMA PhaseStep ==
  ASSUME FormsInv, NEW r \in Forms!Slots, forms[r].phase \in Forms!Phases,
         NEW phase \in Forms!Phases, forms' = [forms EXCEPT ![r].phase = phase],
         UNCHANGED session, api.methods \subseteq api'.methods,
         forms[r].screen = "payment" /\ phase = "ok" =>
           [user |-> forms[r].user, gateway |-> forms[r].gateway] \in api'.methods
  PROVE  /\ forms' \in [Forms!Slots -> Forms!Handler \cup {Forms!Idle}]
         /\ \A x \in Forms!Slots : HandlerKnows(x)'
<1> DEFINE h == [forms[r] EXCEPT !.phase = phase]
<1>1. forms[r] \in Forms!Handler /\ forms[r] # Forms!Idle /\ HandlerKnows(r)
  BY HandlerType
<1>2. /\ h \in Forms!Handler /\ h.phase = phase /\ h.screen = forms[r].screen
      /\ h.user = forms[r].user /\ h.gateway = forms[r].gateway
  BY <1>1 DEF Forms!Handler
<1>3. forms' = [forms EXCEPT ![r] = h]
  BY DEF FormsInv
<1> HIDE DEF h
<1>4. h # Forms!Idle =>
        /\ h.screen \in {"vehicle", "payment"} => session'.user # Forms!NoUser
        /\ h.screen = "payment" =>
             /\ h.gateway \in Forms!TokenPay
             /\ h.phase = "ok" => [user |-> h.user, gateway |-> h.gateway] \in api'.methods
  BY <1>1, <1>2 DEF HandlerKnows
<1> QED BY <1>2, <1>3, <1>4, HandlerStep

(* Nothing of a handler changes.                                            *)
LEMMA HandlersStay ==
  ASSUME FormsInv, UNCHANGED <<forms, api>>,
         session.user # Forms!NoUser => session'.user # Forms!NoUser
  PROVE  \A x \in Forms!Slots : HandlerKnows(x)'
BY DEF FormsInv, HandlerKnows

(* The screens of a stack that the user or the app changes in a session     *)
(* that stays as it is.                                                     *)
LEMMA NavigationStep ==
  ASSUME FormsInv, UNCHANGED <<session, forms, api, sendsToken, finished, refused>>, StackIsSound'
  PROVE  FormsInv'
<1>1. \A x \in Forms!Slots : HandlerKnows(x)'
  BY HandlersStay
<1> QED BY <1>1 DEF FormsInv

LEMMA LinkIsFollowed ==
  ASSUME FormsInv, Forms!OnboardingAssumption, Forms!FollowLink
  PROVE  FormsInv'
<1>1. UNCHANGED <<session, forms, api, sendsToken, finished, refused>>
  BY DEF Forms!FollowLink
<1>2. SoundStack(stack, session')
  BY <1>1 DEF FormsInv, StackIsSound
<1>3. /\ {"login", "register", "payment"} \subseteq Forms!Screens
      /\ Finds("login", session') /\ Finds("register", session')
      /\ session.user # Forms!NoUser => Finds("payment", session')
  BY <1>1 DEF Finds, Forms!Screens
<1>4. \/ Forms!PushOn(stack, "login") \/ Forms!Replace("register")
      \/ session.user # Forms!NoUser /\ Forms!PushOn(stack, "payment")
  BY DEF Forms!FollowLink, Forms!RegisterScreenLink, Forms!LoginScreenLink,
         Forms!VerifyScreenRestart, Forms!VehicleScreenRestart, Forms!SkipVehicle, Forms!Push
<1>5. StackIsSound'
  BY <1>2, <1>3, <1>4, ScreenIsPushed, ScreenIsReplaced
<1> QED BY <1>1, <1>5, NavigationStep

(* A screen that misses nothing it needs sends its request.                 *)
LEMMA RequestIsSubmitted ==
  ASSUME FormsInv, Forms!OnboardingAssumption, NEW name \in Forms!Screens \ {"tabs"},
         NEW user \in NewUsers, NEW gateway \in Forms!TokenPay \cup {Forms!NoGateway},
         NEW phase \in {"sheet", "sent"}, Forms!Submit(name, user, gateway, phase),
         name \in {"vehicle", "payment"} => session.user # Forms!NoUser,
         name = "payment" => gateway \in Forms!TokenPay,
         UNCHANGED <<session, api, sendsToken, finished, refused>>
  PROVE  FormsInv'
<1> DEFINE h == [screen |-> name, user |-> user, gateway |-> gateway, phase |-> phase]
           n == Len(stack)
<1>1. PICK r \in Forms!Slots : /\ forms' = [forms EXCEPT ![r] = h]
                               /\ stack' = [stack EXCEPT ![Len(stack)].awaits = r]
  BY DEF Forms!Submit
<1>2. /\ h \in Forms!Handler /\ h.screen = name /\ h.user = user /\ h.gateway = gateway
      /\ h.phase \in {"sheet", "sent"}
  BY DEF Forms!Handler, Forms!Phases
<1> HIDE DEF h
<1>3. /\ forms' \in [Forms!Slots -> Forms!Handler \cup {Forms!Idle}]
      /\ \A x \in Forms!Slots : HandlerKnows(x)'
  BY <1>1, <1>2, HandlerStep
<1>4. StackIsSound'
  <2> DEFINE top == [stack[n] EXCEPT !.awaits = r]
  <2>1. SoundStack(stack, session')
    BY DEF FormsInv, StackIsSound
  <2>2. stack \in Seq(Forms!Screen) /\ n \in 1..n /\ stack[n] \in Forms!Screen
    BY <2>1 DEF SoundStack
  <2>3. r \in 0..MaxFormRequests
    BY DEF Forms!Slots, Forms!OnboardingAssumption
  <2>4. top \in Forms!Screen /\ top.name = stack[n].name
    BY <2>2, <2>3 DEF Forms!Screen
  <2>5. stack' = [stack EXCEPT ![n] = top]
    BY <1>1, <2>2
  <2>6. Finds(top.name, session')
    BY <2>1, <2>2, <2>4 DEF SoundStack
  <2> HIDE DEF top
  <2> QED BY <2>1, <2>4, <2>5, <2>6, TopChanges
<1> QED BY <1>3, <1>4 DEF FormsInv

LEMMA FormIsSent ==
  ASSUME FormsInv, Forms!OnboardingAssumption, Forms!SendForm
  PROVE  FormsInv'
<1>1. /\ UNCHANGED <<session, api, sendsToken, finished, refused>>
      /\ session.draft \in NewUsers \cup {Forms!NoUser}
      /\ session.user \in NewUsers \cup {Forms!NoUser}
      /\ {"register", "login", "verify", "vehicle"} \subseteq Forms!Screens \ {"tabs"}
  BY DEF Forms!SendForm, FormsInv, SessionState, Forms!Screens
<1>2. \/ \E u \in NewUsers : \/ Forms!Submit("register", u, Forms!NoGateway, "sent")
                             \/ Forms!Submit("login", u, Forms!NoGateway, "sent")
      \/ /\ session.draft # Forms!NoUser
         /\ Forms!Submit("verify", session.draft, Forms!NoGateway, "sent")
      \/ /\ session.user # Forms!NoUser
         /\ Forms!Submit("vehicle", session.user, Forms!NoGateway, "sent")
  BY DEF Forms!SendForm, Forms!RegistrationForm, Forms!LoginForm, Forms!CodeForm,
         Forms!VehicleForm
<1> QED BY <1>1, <1>2, RequestIsSubmitted

(* The visible payment screen has a user.                                   *)
LEMMA PaymentHasUser ==
  ASSUME FormsInv, Forms!On("payment")
  PROVE  session.user # Forms!NoUser
<1>1. Len(stack) \in 1..Len(stack) /\ stack[Len(stack)].name = "payment"
  BY DEF FormsInv, StackIsSound, SoundStack, Forms!On, Forms!Top
<1> QED BY <1>1 DEF FormsInv, StackIsSound, SoundStack, Finds

LEMMA OnboardingCompletes ==
  ASSUME FormsInv, Forms!OnboardingAssumption, Forms!Complete, Forms!ReplaceByTabs,
         session.user # Forms!NoUser
  PROVE  /\ StackIsSound' /\ session' \in SessionState /\ session'.user = session.user
<1>1. /\ session' \in SessionState /\ session'.complete /\ session'.user = session.user
      /\ session'.draft = session.draft
  BY DEF Forms!Complete, FormsInv, SessionState
<1>2. SessionKeeps
  BY <1>1 DEF SessionKeeps, Finds
<1>3. SoundStack(stack, session') /\ StackIsSound
  BY <1>2, StackStaysSound DEF FormsInv
<1>4. Finds("tabs", session')
  BY <1>1 DEF Finds
<1> QED BY <1>1, <1>3, <1>4, TabsAreShown

LEMMA PaymentIsFinished ==
  ASSUME FormsInv, Forms!OnboardingAssumption, Forms!Finish \/ Forms!SkipPayment
  PROVE  FormsInv'
<1>1. CASE /\ session.gateway \in Forms!TokenPay /\ session.user # Forms!NoUser
           /\ Forms!Submit("payment", session.user, session.gateway, "sheet")
           /\ UNCHANGED <<session, api, sendsToken, finished, refused>>
  <2>1. session.user \in NewUsers /\ "payment" \in Forms!Screens \ {"tabs"}
    BY <1>1 DEF FormsInv, SessionState, Forms!Screens
  <2> QED BY <1>1, <2>1, RequestIsSubmitted
<1>2. CASE /\ Forms!On("payment") /\ Forms!Complete /\ Forms!ReplaceByTabs
           /\ UNCHANGED <<forms, api, sendsToken, finished, refused>>
  <2>1. session.user # Forms!NoUser
    BY <1>2, PaymentHasUser
  <2>2. StackIsSound' /\ session' \in SessionState /\ session'.user = session.user
    BY <1>2, <2>1, OnboardingCompletes
  <2>3. \A x \in Forms!Slots : HandlerKnows(x)'
    BY <1>2, <2>1, <2>2, HandlersStay
  <2> QED BY <1>2, <2>2, <2>3 DEF FormsInv
<1> QED BY <1>1, <1>2 DEF Forms!Finish, Forms!SkipPayment

LEMMA GatewayIsSelected ==
  ASSUME FormsInv, NEW gateway \in Gateways, Forms!SelectGateway(gateway)
  PROVE  FormsInv'
<1>1. UNCHANGED <<stack, forms, api, sendsToken, finished, refused>>
  BY DEF Forms!SelectGateway
<1>2. /\ session' \in SessionState /\ session'.user = session.user
      /\ session'.draft = session.draft /\ session'.complete = session.complete
  BY DEF Forms!SelectGateway, FormsInv, SessionState
<1>3. SessionKeeps
  BY <1>2 DEF SessionKeeps, Finds
<1>4. StackIsSound'
  BY <1>1, <1>3, StackStaysSound DEF StackIsSound
<1>5. \A x \in Forms!Slots : HandlerKnows(x)'
  BY <1>1, <1>2, HandlersStay
<1> QED BY <1>1, <1>2, <1>4, <1>5 DEF FormsInv

(* What the API has after it has taken a request.                           *)
LEMMA RequestIsAccepted ==
  ASSUME FormsInv, NEW u \in NewUsers, NEW name \in Forms!Screens, NEW gateway,
         name = "payment" => gateway \in Forms!TokenPay
  PROVE  LET new == Forms!Outcome(name, u, gateway) IN
         /\ new \in Rows /\ new.vehicles \subseteq new.accounts
         /\ api.methods \subseteq new.methods
         /\ name = "payment" /\ Forms!Accepts(name, u) =>
              [user |-> u, gateway |-> gateway] \in new.methods
<1>1. api \in Rows /\ api.vehicles \subseteq api.accounts
  BY DEF FormsInv
<1>2. CASE name = "register"
  BY <1>1, <1>2 DEF Forms!Outcome, Rows
<1>3. CASE name = "verify"
  <2>1. CASE u \in api.otp \ api.accounts
    <3> DEFINE a == [api EXCEPT !.otp = @ \ {u}]
               b == [a EXCEPT !.accounts = @ \cup {u}]
    <3>1. Forms!Outcome(name, u, gateway) = b
      BY <1>1, <1>3, <2>1 DEF Forms!Outcome, Rows
    <3>2. a \in Rows /\ a.accounts = api.accounts /\ a.vehicles = api.vehicles /\ a.methods = api.methods
      BY <1>1 DEF Rows
    <3> HIDE DEF a
    <3>3. b \in Rows /\ b.accounts = a.accounts \cup {u} /\ b.vehicles = a.vehicles
          /\ b.methods = a.methods
      BY <3>2 DEF Rows
    <3> HIDE DEF b
    <3> QED BY <1>1, <1>3, <3>1, <3>2, <3>3
  <2>2. CASE u \notin api.otp \ api.accounts
    <3>1. Forms!Outcome(name, u, gateway) = api
      BY <1>3, <2>2 DEF Forms!Outcome
    <3> QED BY <1>1, <1>3, <3>1
  <2> QED BY <2>1, <2>2
<1>4. CASE name = "vehicle"
  <2> DEFINE new == [api EXCEPT !.vehicles = @ \cup {u}]
  <2>1. \/ Forms!Outcome(name, u, gateway) = api
        \/ u \in api.accounts /\ Forms!Outcome(name, u, gateway) = new
    BY <1>4 DEF Forms!Outcome
  <2>2. /\ new \in Rows /\ new.accounts = api.accounts /\ new.vehicles = api.vehicles \cup {u}
        /\ new.methods = api.methods
    BY <1>1 DEF Rows
  <2> HIDE DEF new
  <2> QED BY <1>1, <1>4, <2>1, <2>2
<1>5. CASE name = "payment"
  <2> DEFINE method == [user |-> u, gateway |-> gateway]
             new == [api EXCEPT !.methods = @ \cup {method}]
  <2>1. /\ Forms!Outcome(name, u, gateway) \in {api, new}
        /\ Forms!Accepts(name, u) => Forms!Outcome(name, u, gateway) = new
    BY <1>5 DEF Forms!Outcome, Forms!Accepts
  <2>2. method \in Forms!Setup
    BY <1>5 DEF Forms!Setup
  <2> HIDE DEF method
  <2>3. /\ new \in Rows /\ new.accounts = api.accounts /\ new.vehicles = api.vehicles
        /\ new.methods = api.methods \cup {method}
    BY <1>1, <2>2 DEF Rows
  <2> HIDE DEF new
  <2> QED BY <1>1, <2>1, <2>3 DEF method
<1>6. CASE name \in {"login", "tabs"}
  <2>1. Forms!Outcome(name, u, gateway) = api
    BY <1>6 DEF Forms!Outcome
  <2> QED BY <1>1, <1>6, <2>1
<1> QED BY <1>2, <1>3, <1>4, <1>5, <1>6 DEF Forms!Screens

LEMMA RequestIsServed ==
  ASSUME FormsInv, NEW r \in Forms!Slots, Forms!Serve(r)
  PROVE  FormsInv'
<1> DEFINE name == forms[r].screen
           u == forms[r].user
           gateway == forms[r].gateway
           new == Forms!Outcome(name, u, gateway)
<1>1. UNCHANGED <<stack, session, sendsToken, finished>> /\ forms[r].phase = "sent"
  BY DEF Forms!Serve
<1>2. forms[r].phase \in Forms!Phases /\ {"ok", "failed"} \subseteq Forms!Phases
  BY <1>1 DEF Forms!Phases
<1>3. /\ name \in Forms!Screens /\ u \in NewUsers /\ HandlerKnows(r) /\ forms[r] # Forms!Idle
  BY <1>2, HandlerType
<1>4. name = "payment" => gateway \in Forms!TokenPay
  BY <1>3 DEF HandlerKnows
<1>5. StackIsSound'
  BY <1>1 DEF FormsInv, StackIsSound
<1>6. CASE Forms!Accepts(name, u)
  <2>1. api' = new /\ forms' = [forms EXCEPT ![r].phase = "ok"] /\ refused' = refused
    BY <1>6 DEF Forms!Serve
  <2>2. /\ new \in Rows /\ new.vehicles \subseteq new.accounts
        /\ api.methods \subseteq new.methods
        /\ name = "payment" => [user |-> u, gateway |-> gateway] \in new.methods
    <3> HIDE DEF name, u, gateway
    <3> QED BY <1>3, <1>4, <1>6, RequestIsAccepted
  <2>3. api' \in Rows /\ api'.vehicles \subseteq api'.accounts /\ api.methods \subseteq api'.methods
    BY <2>1, <2>2
  <2>4. forms[r].screen = "payment" =>
          [user |-> forms[r].user, gateway |-> forms[r].gateway] \in api'.methods
    BY <2>1, <2>2
  <2> HIDE DEF new, name, u, gateway
  <2>5. /\ forms' \in [Forms!Slots -> Forms!Handler \cup {Forms!Idle}]
        /\ \A x \in Forms!Slots : HandlerKnows(x)'
    BY <1>1, <1>2, <2>1, <2>3, <2>4, PhaseStep
  <2> QED BY <1>1, <1>5, <2>1, <2>3, <2>5 DEF FormsInv
<1>7. CASE ~Forms!Accepts(name, u)
  <2>1. /\ api' = api /\ forms' = [forms EXCEPT ![r].phase = "failed"] /\ refused' \in BOOLEAN
    BY <1>7 DEF Forms!Serve, FormsInv
  <2> HIDE DEF new, name, u, gateway
  <2>2. /\ forms' \in [Forms!Slots -> Forms!Handler \cup {Forms!Idle}]
        /\ \A x \in Forms!Slots : HandlerKnows(x)'
    BY <1>1, <1>2, <2>1, PhaseStep
  <2> QED BY <1>1, <1>5, <2>1, <2>2 DEF FormsInv
<1> QED BY <1>6, <1>7

(* The sheet is closed, or the request is lost.                             *)
LEMMA PhaseChanges ==
  ASSUME FormsInv, NEW r \in Forms!Slots, Forms!CloseSheet(r) \/ Forms!Lose(r)
  PROVE  FormsInv'
<1>1. UNCHANGED <<stack, session, api, sendsToken, finished, refused>>
  BY DEF Forms!CloseSheet, Forms!Lose
<1>2. PICK phase \in {"sent", "failed"} : forms' = [forms EXCEPT ![r].phase = phase]
  BY DEF Forms!CloseSheet, Forms!Lose
<1>3. forms[r].phase \in Forms!Phases /\ phase \in Forms!Phases /\ phase # "ok"
  BY DEF Forms!CloseSheet, Forms!Lose, Forms!Phases
<1>4. /\ forms' \in [Forms!Slots -> Forms!Handler \cup {Forms!Idle}]
      /\ \A x \in Forms!Slots : HandlerKnows(x)'
  BY <1>1, <1>2, <1>3, PhaseStep
<1>5. StackIsSound'
  BY <1>1 DEF FormsInv, StackIsSound
<1> QED BY <1>1, <1>4, <1>5 DEF FormsInv

LEMMA CodeExpires ==
  ASSUME FormsInv, NEW u \in NewUsers, Forms!ExpireOtp(u)
  PROVE  FormsInv'
<1>1. UNCHANGED <<stack, session, forms, sendsToken, finished, refused>>
      /\ api' = [api EXCEPT !.otp = @ \ {u}]
  BY DEF Forms!ExpireOtp
<1>2. /\ api' \in Rows /\ api'.vehicles = api.vehicles /\ api'.accounts = api.accounts
      /\ api'.methods = api.methods
  BY <1>1 DEF FormsInv, Rows
<1>3. StackIsSound' /\ \A x \in Forms!Slots : HandlerKnows(x)'
  BY <1>1, <1>2 DEF FormsInv, StackIsSound, HandlerKnows
<1> QED BY <1>1, <1>2, <1>3 DEF FormsInv

(* The rest of a handler runs wherever the user has gone meanwhile.         *)
LEMMA HandlerContinues ==
  ASSUME FormsInv, Forms!OnboardingAssumption, NEW r \in Forms!Slots, Forms!Continue(r)
  PROVE  FormsInv'
<1>1. /\ UNCHANGED <<api, sendsToken, refused>> /\ forms[r].phase = "ok"
      /\ forms' = [forms EXCEPT ![r] = Forms!Idle]
  BY DEF Forms!Continue
<1>2. /\ forms[r] # Forms!Idle /\ forms[r].user \in NewUsers /\ HandlerKnows(r)
      /\ forms[r].user # Forms!NoUser
  <2>1. forms[r].phase \in Forms!Phases
    BY <1>1 DEF Forms!Phases
  <2> QED BY <2>1, HandlerType DEF Forms!OnboardingAssumption
<1>3. /\ {"verify", "vehicle", "payment", "tabs"} \subseteq Forms!Screens
      /\ session \in SessionState /\ StackIsSound
  BY DEF Forms!Screens, FormsInv
<1> DEFINE Moved == /\ StackIsSound' /\ session' \in SessionState
                    /\ session.user # Forms!NoUser => session'.user # Forms!NoUser
                    /\ finished' \subseteq api'.methods
<1>4. ASSUME Moved
      PROVE  FormsInv'
  <2> DEFINE h == Forms!Idle
  <2>1. h \in Forms!Handler \cup {Forms!Idle} /\ h = Forms!Idle /\ forms' = [forms EXCEPT ![r] = h]
    BY <1>1
  <2> HIDE DEF h
  <2>2. /\ forms' \in [Forms!Slots -> Forms!Handler \cup {Forms!Idle}]
        /\ \A x \in Forms!Slots : HandlerKnows(x)'
    BY <1>1, <1>4, <2>1, HandlerStep
  <2> QED BY <1>1, <1>4, <2>2 DEF FormsInv
<1>5. ASSUME NEW name \in {"verify", "vehicle", "payment"}, Forms!PushOn(Forms!Released(r), name),
             SessionKeeps, Finds(name, session')
      PROVE  StackIsSound'
  <2> DEFINE released == Forms!Released(r)
  <2>1. SoundStack(stack, session')
    BY <1>5, StackStaysSound
  <2>2. SoundStack(released, session') /\ Forms!PushOn(released, name)
    BY <1>5, <2>1, ReleasedIsSound
  <2> HIDE DEF released
  <2> QED BY <1>3, <1>5, <2>2, ScreenIsPushed
<1>6. CASE Forms!Registered(r)
  <2>1. /\ forms[r].screen = "register" /\ finished' = finished
        /\ session' = [session EXCEPT !.draft = forms[r].user]
        /\ Forms!PushOn(Forms!Released(r), "verify")
    BY <1>6 DEF Forms!Registered
  <2>2. /\ session' \in SessionState /\ session'.draft = forms[r].user
        /\ session'.user = session.user /\ session'.complete = session.complete
    BY <1>2, <1>3, <2>1 DEF SessionState
  <2>3. SessionKeeps /\ Finds("verify", session')
    BY <1>2, <2>2 DEF SessionKeeps, Finds
  <2>4. Moved
    BY <1>1, <1>5, <2>1, <2>2, <2>3 DEF FormsInv
  <2> QED BY <1>4, <2>4
<1>7. CASE Forms!Verified(r)
  <2>1. /\ finished' = finished
        /\ session' = [session EXCEPT !.user = forms[r].user]
        /\ Forms!PushOn(Forms!Released(r), "vehicle")
    BY <1>7 DEF Forms!Verified
  <2>2. /\ session' \in SessionState /\ session'.user = forms[r].user
        /\ session'.draft = session.draft /\ session'.complete = session.complete
    BY <1>2, <1>3, <2>1 DEF SessionState
  <2>3. SessionKeeps /\ Finds("vehicle", session')
    BY <1>2, <2>2 DEF SessionKeeps, Finds
  <2>4. Moved
    BY <1>1, <1>2, <1>5, <2>1, <2>2, <2>3 DEF FormsInv
  <2> QED BY <1>4, <2>4
<1>8. CASE Forms!SignedIn(r)
  <2> DEFINE a == [session EXCEPT !.user = forms[r].user]
             b == [a EXCEPT !.complete = TRUE]
  <2>1. finished' = finished /\ Forms!ReplaceByTabs /\ session' = b
    BY <1>3, <1>8 DEF Forms!SignedIn, SessionState
  <2>2. a \in SessionState /\ a.user = forms[r].user /\ a.draft = session.draft
    BY <1>2, <1>3 DEF SessionState
  <2> HIDE DEF a
  <2>3. b \in SessionState /\ b.user = a.user /\ b.draft = a.draft /\ b.complete
    BY <2>2 DEF SessionState
  <2> HIDE DEF b
  <2>4. SessionKeeps /\ Finds("tabs", session')
    BY <1>2, <2>1, <2>2, <2>3 DEF SessionKeeps, Finds
  <2>5. StackIsSound'
    BY <1>3, <2>1, <2>4, StackStaysSound, TabsAreShown
  <2>6. Moved
    BY <1>1, <1>2, <2>1, <2>2, <2>3, <2>5 DEF FormsInv
  <2> QED BY <1>4, <2>6
<1>9. CASE Forms!VehicleSaved(r)
  <2>1. /\ forms[r].screen = "vehicle" /\ UNCHANGED <<session, finished>>
        /\ Forms!PushOn(Forms!Released(r), "payment")
    BY <1>9 DEF Forms!VehicleSaved
  <2>2. session.user # Forms!NoUser
    BY <1>2, <2>1 DEF HandlerKnows
  <2>3. SessionKeeps /\ Finds("payment", session')
    BY <2>1, <2>2 DEF SessionKeeps, Finds
  <2>4. Moved
    BY <1>1, <1>3, <1>5, <2>1, <2>3 DEF FormsInv
  <2> QED BY <1>4, <2>4
<1>10. CASE Forms!PaymentSetUp(r)
  <2>1. /\ forms[r].screen = "payment" /\ Forms!Complete /\ Forms!ReplaceByTabs
        /\ finished' = finished \cup {[user |-> forms[r].user, gateway |-> forms[r].gateway]}
    BY <1>10 DEF Forms!PaymentSetUp
  <2>2. /\ session.user # Forms!NoUser
        /\ [user |-> forms[r].user, gateway |-> forms[r].gateway] \in api.methods
    BY <1>1, <1>2, <2>1 DEF HandlerKnows
  <2>3. StackIsSound' /\ session' \in SessionState /\ session'.user = session.user
    BY <2>1, <2>2, OnboardingCompletes
  <2>4. finished' \subseteq api'.methods
    BY <1>1, <2>1, <2>2 DEF FormsInv
  <2> QED BY <1>4, <2>3, <2>4
<1> HIDE DEF Moved
<1> QED BY <1>6, <1>7, <1>8, <1>9, <1>10 DEF Forms!Continue

LEMMA ErrorIsShown ==
  ASSUME FormsInv, Forms!OnboardingAssumption, NEW r \in Forms!Slots, Forms!ShowError(r)
  PROVE  FormsInv'
<1> DEFINE h == Forms!Idle
<1>1. /\ UNCHANGED <<session, api, sendsToken, finished, refused>>
      /\ forms' = [forms EXCEPT ![r] = h] /\ stack' = Forms!Released(r)
  BY DEF Forms!ShowError
<1>2. h \in Forms!Handler \cup {Forms!Idle} /\ h = Forms!Idle
  OBVIOUS
<1> HIDE DEF h
<1>3. /\ forms' \in [Forms!Slots -> Forms!Handler \cup {Forms!Idle}]
      /\ \A x \in Forms!Slots : HandlerKnows(x)'
  BY <1>1, <1>2, HandlerStep
<1>4. SoundStack(stack, session')
  BY <1>1 DEF FormsInv, StackIsSound
<1>5. StackIsSound'
  BY <1>1, <1>4, ReleasedIsSound DEF StackIsSound
<1> QED BY <1>1, <1>3, <1>5 DEF FormsInv

(* The first screen of an app that has just been opened.                    *)
LEMMA FirstScreen ==
  ASSUME Forms!OnboardingAssumption, NEW s
  PROVE  SoundStack(<<Forms!Mounted("register")>>, s) /\ Forms!NoSession \in SessionState
<1> DEFINE top == Forms!Mounted("register")
<1>1. top \in Forms!Screen /\ top.name = "register"
  BY DEF Forms!Mounted, Forms!Screen, Forms!Screens, Forms!OnboardingAssumption
<1> HIDE DEF top
<1>2. /\ <<top>> \in Seq(Forms!Screen) /\ Len(<<top>>) = 1 /\ <<top>>[1] = top
      /\ \A k \in 1..1 : k = 1
  BY <1>1
<1>3. 1 \in 1..MaxScreens
  BY DEF Forms!OnboardingAssumption
<1>4. SoundStack(<<top>>, s)
  BY <1>1, <1>2, <1>3 DEF SoundStack, Finds
<1> QED BY <1>4 DEF top, Forms!NoSession, SessionState

LEMMA AppIsRestarted ==
  ASSUME FormsInv, Forms!OnboardingAssumption, Forms!RestartApp
  PROVE  FormsInv'
<1>1. /\ UNCHANGED <<api, sendsToken, finished, refused>>
      /\ forms' = [r \in Forms!Slots |-> Forms!Idle]
      /\ stack' = <<Forms!Mounted("register")>> /\ session' = Forms!NoSession
  BY DEF Forms!RestartApp
<1>2. StackIsSound' /\ session' \in SessionState
  BY <1>1, FirstScreen DEF StackIsSound
<1>3. /\ forms' \in [Forms!Slots -> Forms!Handler \cup {Forms!Idle}]
      /\ \A r \in Forms!Slots : HandlerKnows(r)'
  BY <1>1 DEF HandlerKnows
<1> QED BY <1>1, <1>2, <1>3 DEF FormsInv

LEMMA FormsBegin ==
  ASSUME Forms!Init, Forms!OnboardingAssumption
  PROVE  FormsInv
<1>1. StackIsSound /\ session \in SessionState
  BY FirstScreen DEF Forms!Init, StackIsSound
<1>2. \A r \in Forms!Slots : HandlerKnows(r)
  BY DEF Forms!Init, HandlerKnows
<1> QED BY <1>1, <1>2 DEF Forms!Init, FormsInv, Rows

LEMMA FormsContinue ==
  ASSUME FormsInv, Forms!OnboardingAssumption, [Forms!Next]_formsVars
  PROVE  FormsInv'
<1>1. CASE Forms!Back
  <2>1. StackIsSound'
    BY <1>1, ScreenIsLeft DEF FormsInv
  <2> QED BY <1>1, <2>1, NavigationStep DEF Forms!Back
<1>2. CASE UNCHANGED formsVars
  <2>1. UNCHANGED <<stack, session, forms, api, sendsToken, finished, refused>>
    BY <1>2 DEF formsVars
  <2>2. StackIsSound'
    BY <2>1 DEF FormsInv, StackIsSound
  <2> QED BY <2>1, <2>2, NavigationStep
<1>3. CASE Forms!FollowLink \/ Forms!SendForm \/ Forms!Finish \/ Forms!SkipPayment
           \/ Forms!RestartApp
  BY <1>3, LinkIsFollowed, FormIsSent, PaymentIsFinished, AppIsRestarted
<1>4. ASSUME NEW r \in Forms!Slots, Forms!CloseSheet(r) \/ Forms!Serve(r) \/ Forms!Lose(r)
                                     \/ Forms!Continue(r) \/ Forms!ShowError(r)
      PROVE  FormsInv'
  BY <1>4, PhaseChanges, RequestIsServed, HandlerContinues, ErrorIsShown
<1> QED BY <1>1, <1>2, <1>3, <1>4, GatewayIsSelected, CodeExpires DEF Forms!Next

-----------------------------------------------------------------------------
(* Live update rooms                                                       *)

RoomsInv == Rooms!TypeOK /\ Rooms!RoomsFollowListeners

(* Is s among the rooms of c when the events have been handled?             *)
WillBeIn(c, s) ==
  \/ s \in rooms[c] /\ \A i \in 1..Len(events[c]) : events[c][i].session # s
  \/ \E i \in 1..Len(events[c]) :
       /\ events[c][i].kind = "subscribe" /\ events[c][i].session = s
       /\ \A j \in 1..Len(events[c]) : events[c][j].session = s => j <= i

LEMMA RoomsToBeType ==
  ASSUME Rooms!TypeOK, NEW c \in Clients, NEW s \in Sessions
  PROVE  /\ link[c] \in {"closed", "opening", "open"} /\ rooms[c] \in SUBSET Sessions
         /\ events[c] \in Seq(Rooms!Event) /\ handlers[c][s] \in 0..MaxHandlers
         /\ (s \in Rooms!RoomsToBe(c) <=> WillBeIn(c, s))
<1>1. /\ link[c] \in {"closed", "opening", "open"} /\ rooms[c] \in SUBSET Sessions
      /\ events[c] \in Seq(Rooms!Event) /\ handlers[c][s] \in 0..MaxHandlers
  BY DEF Rooms!TypeOK
<1>2. DOMAIN events[c] = 1..Len(events[c])
  BY <1>1
<1> QED BY <1>1, <1>2 DEF Rooms!RoomsToBe, WillBeIn

LEMMA RoomsToBeNext ==
  ASSUME Rooms!TypeOK', NEW c \in Clients, NEW s \in Sessions
  PROVE  s \in Rooms!RoomsToBe(c)' <=> WillBeIn(c, s)'
<1>1. DOMAIN events'[c] = 1..Len(events'[c])
  BY DEF Rooms!TypeOK
<1> QED BY <1>1 DEF Rooms!RoomsToBe, WillBeIn

(* A step that leaves the events of a client alone.                         *)
LEMMA EventsStay ==
  ASSUME NEW c \in Clients, NEW s \in Sessions, events'[c] = events[c],
         s \in rooms'[c] <=> s \in rooms[c]
  PROVE  WillBeIn(c, s)' <=> WillBeIn(c, s)
BY DEF WillBeIn

(* The socket and the rooms go away, and with them what was on its way.     *)
LEMMA RoomsAreLost ==
  ASSUME RoomsInv, NEW c \in Clients, NEW to \in {"closed", "opening"},
         link[c] # "closed", to = "opening" => link[c] = "open",
         link' = [link EXCEPT ![c] = to],
         rooms' = [rooms EXCEPT ![c] = {}],
         events' = [events EXCEPT ![c] = IF link[c] = "open" THEN <<>> ELSE @],
         disturbed' = disturbed \cup {<<c, s>> : s \in {t \in Sessions : handlers[c][t] > 0}},
         UNCHANGED handlers
  PROVE  RoomsInv'
<1>1. Rooms!TypeOK
  BY DEF RoomsInv
<1>2. Rooms!TypeOK'
  BY <1>1 DEF Rooms!TypeOK
<1>3. ASSUME NEW d \in Clients, NEW s \in Sessions
      PROVE  /\ handlers'[d][s] > 0 /\ <<d, s>> \notin disturbed' => s \in Rooms!RoomsToBe(d)'
             /\ handlers'[d][s] = 0 => s \notin Rooms!RoomsToBe(d)'
  <2>1. (s \in Rooms!RoomsToBe(d) <=> WillBeIn(d, s)) /\ (s \in Rooms!RoomsToBe(d)' <=> WillBeIn(d, s)')
    BY <1>1, <1>2, RoomsToBeType, RoomsToBeNext
  <2>2. /\ handlers[d][s] > 0 /\ <<d, s>> \notin disturbed => s \in Rooms!RoomsToBe(d)
        /\ handlers[d][s] = 0 => s \notin Rooms!RoomsToBe(d)
    BY DEF RoomsInv, Rooms!RoomsFollowListeners
  <2>3. CASE d # c
    <3>1. events'[d] = events[d] /\ rooms'[d] = rooms[d]
      BY <1>1, <2>3 DEF Rooms!TypeOK
    <3>2. WillBeIn(d, s)' <=> WillBeIn(d, s)
      BY <3>1, EventsStay
    <3> QED BY <2>1, <2>2, <3>2
  <2>4. CASE d = c
    <3>1. handlers[c][s] > 0 => <<c, s>> \in disturbed'
      OBVIOUS
    <3>2. rooms'[c] = {} /\ events'[c] = IF link[c] = "open" THEN <<>> ELSE events[c]
      BY <1>1 DEF Rooms!TypeOK
    <3>3. CASE link[c] = "open"
      <4>1. ~WillBeIn(c, s)'
        BY <3>2, <3>3 DEF WillBeIn
      <4> QED BY <2>1, <2>4, <3>1, <4>1
    <3>4. CASE link[c] # "open"
      <4>1. rooms[c] = {}
        BY <1>1, <3>4 DEF Rooms!TypeOK
      <4>2. WillBeIn(c, s)' <=> WillBeIn(c, s)
        BY <3>2, <3>4, <4>1, EventsStay
      <4> QED BY <2>1, <2>2, <2>4, <3>1, <4>2
    <3> QED BY <3>3, <3>4
  <2> QED BY <2>3, <2>4
<1> QED BY <1>2, <1>3 DEF RoomsInv, Rooms!RoomsFollowListeners

(* The client emits an event about s, which decides for s alone.            *)
LEMMA EventIsEmitted ==
  ASSUME RoomsInv, NEW c \in Clients, NEW s \in Sessions, NEW kind \in {"subscribe", "unsubscribe"},
         Rooms!Emitted(c, kind, s), UNCHANGED rooms
  PROVE  /\ events' \in [Clients -> Seq(Rooms!Event)]
         /\ \A d \in Clients, t \in Sessions :
              IF d = c /\ t = s THEN WillBeIn(d, t)' <=> kind = "subscribe"
              ELSE WillBeIn(d, t)' <=> WillBeIn(d, t)
<1> DEFINE e == [kind |-> kind, session |-> s]
           old == events[c]
           new == events'[c]
<1>1. events \in [Clients -> Seq(Rooms!Event)] /\ old \in Seq(Rooms!Event) /\ e \in Rooms!Event
  BY DEF RoomsInv, Rooms!TypeOK, Rooms!Event
<1>2. events' = [events EXCEPT ![c] = Append(old, e)]
  BY DEF Rooms!Emitted
<1>3. new = Append(old, e) /\ \A d \in Clients : d # c => events'[d] = events[d]
  BY <1>1, <1>2
<1>4. /\ new \in Seq(Rooms!Event) /\ Len(new) = Len(old) + 1 /\ Len(old) \in Nat
      /\ new[Len(old) + 1] = e /\ \A i \in 1..Len(old) : new[i] = old[i]
  BY <1>1, <1>3
<1>5. events' \in [Clients -> Seq(Rooms!Event)]
  BY <1>1, <1>2, <1>3, <1>4
<1>6. e.kind = kind /\ e.session = s
  OBVIOUS
<1> HIDE DEF e, old, new
<1>7. ASSUME NEW d \in Clients, NEW t \in Sessions
      PROVE  IF d = c /\ t = s THEN WillBeIn(d, t)' <=> kind = "subscribe"
             ELSE WillBeIn(d, t)' <=> WillBeIn(d, t)
  <2>1. CASE d # c
    BY <1>3, <2>1, EventsStay
  <2>2. CASE d = c
    <3>1. WillBeIn(c, t)' <=>
            \/ t \in rooms[c] /\ \A i \in 1..(Len(old) + 1) : new[i].session # t
            \/ \E i \in 1..(Len(old) + 1) :
                 /\ new[i].kind = "subscribe" /\ new[i].session = t
                 /\ \A j \in 1..(Len(old) + 1) : new[j].session = t => j <= i
      BY <1>4 DEF WillBeIn, new
    <3>2. WillBeIn(c, t) <=>
            \/ t \in rooms[c] /\ \A i \in 1..Len(old) : old[i].session # t
            \/ \E i \in 1..Len(old) :
                 /\ old[i].kind = "subscribe" /\ old[i].session = t
                 /\ \A j \in 1..Len(old) : old[j].session = t => j <= i
      BY DEF WillBeIn, old
    <3>3. CASE t = s
      <4>1. ASSUME kind = "subscribe"
            PROVE  WillBeIn(c, t)'
        BY <1>4, <1>6, <3>1, <3>3, <4>1
      <4>2. ASSUME WillBeIn(c, t)'
            PROVE  kind = "subscribe"
        <5>1. Len(old) + 1 \in 1..(Len(old) + 1) /\ new[Len(old) + 1].session = t
          BY <1>4, <1>6, <3>3
        <5>2. PICK i \in 1..(Len(old) + 1) :
                 /\ new[i].kind = "subscribe" /\ new[i].session = t
                 /\ \A j \in 1..(Len(old) + 1) : new[j].session = t => j <= i
          BY <3>1, <4>2, <5>1
        <5>3. i = Len(old) + 1
          BY <1>4, <5>1, <5>2
        <5> QED BY <1>4, <1>6, <5>2, <5>3
      <4> QED BY <2>2, <3>3, <4>1, <4>2
    <3>4. CASE t # s
      <4>1. new[Len(old) + 1].session # t
        BY <1>4, <1>6, <3>4
      <4>2. \A i \in 1..(Len(old) + 1) : new[i].session = t => i \in 1..Len(old)
        BY <1>4, <4>1
      <4>3. \A i \in 1..Len(old) : i \in 1..(Len(old) + 1)
        BY <1>4
      <4> QED BY <1>4, <2>2, <3>1, <3>2, <3>4, <4>2, <4>3
    <3> QED BY <3>3, <3>4
  <2> QED BY <2>1, <2>2
<1> QED BY <1>5, <1>7

(* The handler of the gateway takes the oldest event.                       *)
LEMMA EventIsHandled ==
  ASSUME RoomsInv, NEW c \in Clients, Rooms!Handle(c)
  PROVE  RoomsInv'
<1> DEFINE old == events[c]
           new == events'[c]
           e == Head(old)
<1>1. /\ UNCHANGED <<link, handlers, disturbed>> /\ link[c] = "open" /\ old # <<>>
      /\ events' = [events EXCEPT ![c] = Tail(old)]
      /\ rooms' = [rooms EXCEPT ![c] = IF e.kind = "subscribe" THEN @ \cup {e.session}
                                       ELSE @ \ {e.session}]
  BY DEF Rooms!Handle
<1>2. Rooms!TypeOK /\ old \in Seq(Rooms!Event)
  BY DEF RoomsInv, Rooms!TypeOK
<1>3. /\ new = Tail(old) /\ new \in Seq(Rooms!Event) /\ Len(old) \in Nat \ {0}
      /\ Len(new) = Len(old) - 1 /\ \A i \in 1..Len(new) : new[i] = old[i + 1]
      /\ e = old[1] /\ e \in Rooms!Event
  BY <1>1, <1>2 DEF Rooms!TypeOK
<1>4. /\ rooms'[c] = IF e.kind = "subscribe" THEN rooms[c] \cup {e.session}
                     ELSE rooms[c] \ {e.session}
      /\ rooms'[c] \in SUBSET Sessions
      /\ \A d \in Clients : d # c => events'[d] = events[d] /\ rooms'[d] = rooms[d]
  BY <1>1, <1>2, <1>3 DEF Rooms!TypeOK, Rooms!Event
<1>5. Rooms!TypeOK'
  <2>1. events' \in [Clients -> Seq(Rooms!Event)] /\ rooms' \in [Clients -> SUBSET Sessions]
    BY <1>1, <1>2, <1>3, <1>4 DEF Rooms!TypeOK
  <2> QED BY <1>1, <1>2, <1>4, <2>1 DEF Rooms!TypeOK
<1> HIDE DEF old, new, e
<1>6. ASSUME NEW d \in Clients, NEW s \in Sessions
      PROVE  WillBeIn(d, s)' <=> WillBeIn(d, s)
  <2>1. CASE d # c
    BY <1>4, <2>1, EventsStay
  <2>2. CASE d = c
    <3>1. WillBeIn(c, s)' <=>
            \/ s \in rooms'[c] /\ \A i \in 1..(Len(old) - 1) : old[i + 1].session # s
            \/ \E i \in 1..(Len(old) - 1) :
                 /\ old[i + 1].kind = "subscribe" /\ old[i + 1].session = s
                 /\ \A j \in 1..(Len(old) - 1) : old[j + 1].session = s => j <= i
      BY <1>3 DEF WillBeIn, new
    <3>2. WillBeIn(c, s) <=>
            \/ s \in rooms[c] /\ \A i \in 1..Len(old) : old[i].session # s
            \/ \E i \in 1..Len(old) :
                 /\ old[i].kind = "subscribe" /\ old[i].session = s
                 /\ \A j \in 1..Len(old) : old[j].session = s => j <= i
      BY DEF WillBeIn, old
    <3>3. /\ s \in rooms'[c] <=> IF e.session = s THEN e.kind = "subscribe" ELSE s \in rooms[c]
          /\ e.session = old[1].session /\ e.kind = old[1].kind
      BY <1>3, <1>4
    <3> DEFINE n == Len(old) - 1
               Of(i) == old[i].session = s
               In(i) == old[i].kind = "subscribe"
    <3>4. n \in Nat /\ Len(old) = n + 1
      BY <1>3
    <3>5. WillBeIn(c, s)' <=>
            \/ (IF Of(1) THEN In(1) ELSE s \in rooms[c]) /\ \A i \in 1..n : ~Of(i + 1)
            \/ \E i \in 1..n : In(i + 1) /\ Of(i + 1) /\ \A j \in 1..n : Of(j + 1) => j <= i
      BY <3>1, <3>3
    <3>6. WillBeIn(c, s) <=>
            \/ s \in rooms[c] /\ \A i \in 1..(n + 1) : ~Of(i)
            \/ \E i \in 1..(n + 1) : In(i) /\ Of(i) /\ \A j \in 1..(n + 1) : Of(j) => j <= i
      BY <3>2, <3>4
    <3> HIDE DEF n, Of, In
    <3>7. \A i \in 1..(n + 1) : i = 1 \/ (i - 1 \in 1..n /\ i = (i - 1) + 1)
      BY <3>4
    <3>8. \A i \in 1..n : i + 1 \in 1..(n + 1)
      BY <3>4
    <3>9. 1 \in 1..(n + 1)
      BY <3>4
    <3>10. ASSUME WillBeIn(c, s)'
           PROVE  WillBeIn(c, s)
      <4>1. CASE (IF Of(1) THEN In(1) ELSE s \in rooms[c]) /\ \A i \in 1..n : ~Of(i + 1)
        <5>1. \A i \in 1..(n + 1) : Of(i) => i = 1
          BY <3>7, <4>1
        <5> QED BY <3>4, <3>6, <3>9, <4>1, <5>1
      <4>2. ASSUME NEW i \in 1..n, In(i + 1) /\ Of(i + 1) /\ \A j \in 1..n : Of(j + 1) => j <= i
            PROVE  WillBeIn(c, s)
        <5>1. \A j \in 1..(n + 1) : Of(j) => j <= i + 1
          BY <3>4, <3>7, <4>2
        <5> QED BY <3>6, <3>8, <4>2, <5>1
      <4> QED BY <3>5, <3>10, <4>1, <4>2
    <3>11. ASSUME WillBeIn(c, s)
           PROVE  WillBeIn(c, s)'
      <4>1. CASE s \in rooms[c] /\ \A i \in 1..(n + 1) : ~Of(i)
        BY <3>5, <3>8, <3>9, <4>1
      <4>2. ASSUME NEW i \in 1..(n + 1), In(i) /\ Of(i) /\ \A j \in 1..(n + 1) : Of(j) => j <= i
            PROVE  WillBeIn(c, s)'
        <5>1. CASE i = 1
          <6>1. \A j \in 1..n : ~Of(j + 1)
            BY <3>4, <3>8, <4>2, <5>1
          <6> QED BY <3>5, <4>2, <5>1, <6>1
        <5>2. CASE i # 1
          <6>1. i - 1 \in 1..n /\ i = (i - 1) + 1
            BY <3>7, <5>2
          <6>2. \A j \in 1..n : Of(j + 1) => j <= i - 1
            BY <3>4, <3>8, <4>2
          <6> QED BY <3>5, <4>2, <6>1, <6>2
        <5> QED BY <5>1, <5>2
      <4> QED BY <3>6, <3>11, <4>1, <4>2
    <3> QED BY <2>2, <3>10, <3>11
  <2> QED BY <2>1, <2>2
<1>7. Rooms!RoomsFollowListeners'
  <2>1. SUFFICES ASSUME NEW d \in Clients, NEW s \in Sessions
                 PROVE  /\ handlers'[d][s] > 0 /\ <<d, s>> \notin disturbed' =>
                             s \in Rooms!RoomsToBe(d)'
                        /\ handlers'[d][s] = 0 => s \notin Rooms!RoomsToBe(d)'
    BY DEF Rooms!RoomsFollowListeners
  <2>2. (s \in Rooms!RoomsToBe(d) <=> WillBeIn(d, s)) /\ (s \in Rooms!RoomsToBe(d)' <=> WillBeIn(d, s)')
    BY <1>2, <1>5, RoomsToBeType, RoomsToBeNext
  <2>3. /\ handlers[d][s] > 0 /\ <<d, s>> \notin disturbed => s \in Rooms!RoomsToBe(d)
        /\ handlers[d][s] = 0 => s \notin Rooms!RoomsToBe(d)
    BY DEF RoomsInv, Rooms!RoomsFollowListeners
  <2> QED BY <1>1, <1>6, <2>2, <2>3
<1> QED BY <1>5, <1>7 DEF RoomsInv

(* A step that keeps events, rooms, listeners and what was disturbed.       *)
LEMMA LinkStep ==
  ASSUME RoomsInv, UNCHANGED <<rooms, events, handlers, disturbed>>,
         link' \in [Clients -> {"closed", "opening", "open"}],
         \A c \in Clients : link'[c] # "open" => link[c] # "open"
  PROVE  RoomsInv'
<1>1. Rooms!TypeOK'
  BY DEF RoomsInv, Rooms!TypeOK
<1>2. \A c \in Clients : Rooms!RoomsToBe(c)' = Rooms!RoomsToBe(c)
  BY DEF Rooms!RoomsToBe
<1> QED BY <1>1, <1>2 DEF RoomsInv, Rooms!RoomsFollowListeners

LEMMA SubscriptionChanges ==
  ASSUME RoomsInv, Rooms!RoomsAssumption, NEW c \in Clients, NEW s \in Sessions,
         Rooms!Subscribe(c, s) \/ Rooms!Unsubscribe(c, s)
  PROVE  RoomsInv'
<1> DEFINE kind == IF Rooms!Subscribe(c, s) THEN "subscribe" ELSE "unsubscribe"
           count == IF Rooms!Subscribe(c, s) THEN handlers[c][s] + 1 ELSE handlers[c][s] - 1
<1>1. /\ Rooms!Emitted(c, kind, s) /\ UNCHANGED rooms /\ kind \in {"subscribe", "unsubscribe"}
      /\ handlers' = [handlers EXCEPT ![c][s] = count]
      /\ link' = link \/ link' = Rooms!Connected(c)
  BY DEF Rooms!Subscribe, Rooms!Unsubscribe
<1>2. Rooms!TypeOK /\ handlers[c][s] \in 0..MaxHandlers /\ MaxHandlers \in Nat
  BY RoomsToBeType DEF RoomsInv, Rooms!RoomsAssumption
<1>3. count \in 0..MaxHandlers
  BY <1>2 DEF Rooms!Subscribe, Rooms!Unsubscribe
<1>4. /\ disturbed' \subseteq Clients \X Sessions
      /\ \A d \in Clients, t \in Sessions :
           d # c \/ t # s => (<<d, t>> \in disturbed' <=> <<d, t>> \in disturbed)
      /\ count > 0 /\ <<c, s>> \notin disturbed' => kind = "subscribe"
      /\ count = 0 => kind = "unsubscribe"
  <2>1. CASE Rooms!Subscribe(c, s)
    BY <1>2, <2>1 DEF Rooms!Subscribe, Rooms!TypeOK
  <2>2. CASE ~Rooms!Subscribe(c, s)
    <3>1. disturbed' = IF handlers[c][s] > 1 THEN disturbed \cup {<<c, s>>}
                       ELSE disturbed \ {<<c, s>>}
      BY <2>2 DEF Rooms!Unsubscribe
    <3>2. count > 0 => handlers[c][s] > 1
      BY <1>2, <2>2
    <3> QED BY <1>2, <2>2, <3>1, <3>2 DEF Rooms!TypeOK
  <2> QED BY <2>1, <2>2
<1>5. /\ handlers' \in [Clients -> [Sessions -> 0..MaxHandlers]] /\ handlers'[c][s] = count
      /\ \A d \in Clients, t \in Sessions : d # c \/ t # s => handlers'[d][t] = handlers[d][t]
  <2> HIDE DEF count
  <2> QED BY <1>1, <1>2, <1>3 DEF Rooms!TypeOK
<1>6. /\ link' \in [Clients -> {"closed", "opening", "open"}]
      /\ \A d \in Clients : link'[d] # "open" => link[d] # "open"
  BY <1>1, <1>2 DEF Rooms!TypeOK, Rooms!Connected
<1> HIDE DEF kind, count
<1>7. /\ events' \in [Clients -> Seq(Rooms!Event)]
      /\ \A d \in Clients, t \in Sessions :
           IF d = c /\ t = s THEN WillBeIn(d, t)' <=> kind = "subscribe"
           ELSE WillBeIn(d, t)' <=> WillBeIn(d, t)
  BY <1>1, EventIsEmitted
<1>8. Rooms!TypeOK'
  BY <1>1, <1>2, <1>4, <1>5, <1>6, <1>7 DEF Rooms!TypeOK
<1>9. ASSUME NEW d \in Clients, NEW t \in Sessions
      PROVE  /\ handlers'[d][t] > 0 /\ <<d, t>> \notin disturbed' => t \in Rooms!RoomsToBe(d)'
             /\ handlers'[d][t] = 0 => t \notin Rooms!RoomsToBe(d)'
  <2>1. (t \in Rooms!RoomsToBe(d) <=> WillBeIn(d, t)) /\ (t \in Rooms!RoomsToBe(d)' <=> WillBeIn(d, t)')
    BY <1>2, <1>8, RoomsToBeType, RoomsToBeNext
  <2>2. /\ handlers[d][t] > 0 /\ <<d, t>> \notin disturbed => t \in Rooms!RoomsToBe(d)
        /\ handlers[d][t] = 0 => t \notin Rooms!RoomsToBe(d)
    BY DEF RoomsInv, Rooms!RoomsFollowListeners
  <2>3. CASE d = c /\ t = s
    BY <1>4, <1>5, <1>7, <2>1, <2>3
  <2>4. CASE ~(d = c /\ t = s)
    BY <1>4, <1>5, <1>7, <2>1, <2>2, <2>4
  <2> QED BY <2>3, <2>4
<1> QED BY <1>8, <1>9 DEF RoomsInv, Rooms!RoomsFollowListeners

LEMMA RoomsBegin ==
  ASSUME Rooms!Init, Rooms!RoomsAssumption
  PROVE  RoomsInv
<1>1. Rooms!TypeOK
  BY DEF Rooms!Init, Rooms!TypeOK, Rooms!RoomsAssumption
<1>2. \A c \in Clients, s \in Sessions : handlers[c][s] = 0 /\ s \notin Rooms!RoomsToBe(c)
  BY DEF Rooms!Init, Rooms!RoomsToBe
<1> QED BY <1>1, <1>2 DEF RoomsInv, Rooms!RoomsFollowListeners

LEMMA RoomsContinue ==
  ASSUME RoomsInv, Rooms!RoomsAssumption, [Rooms!Next]_roomsVars
  PROVE  RoomsInv'
<1>1. Rooms!TypeOK
  BY DEF RoomsInv
<1>2. ASSUME NEW c \in Clients, Rooms!Connect(c) \/ Rooms!Open(c)
      PROVE  RoomsInv'
  <2>1. UNCHANGED <<rooms, events, handlers, disturbed>>
    BY <1>2 DEF Rooms!Connect, Rooms!Open
  <2>2. /\ link' \in [Clients -> {"closed", "opening", "open"}]
        /\ \A d \in Clients : link'[d] # "open" => link[d] # "open"
    BY <1>1, <1>2 DEF Rooms!Connect, Rooms!Open, Rooms!Connected, Rooms!TypeOK
  <2> QED BY <2>1, <2>2, LinkStep
<1>3. ASSUME NEW c \in Clients, Rooms!Disconnect(c)
      PROVE  RoomsInv'
  BY <1>3, RoomsAreLost DEF Rooms!Disconnect
<1>4. ASSUME NEW c \in Clients, Rooms!Drop(c)
      PROVE  RoomsInv'
  <2>1. events' = [events EXCEPT ![c] = IF link[c] = "open" THEN <<>> ELSE @]
    BY <1>4 DEF Rooms!Drop
  <2> QED BY <1>4, <2>1, RoomsAreLost DEF Rooms!Drop
<1>5. ASSUME NEW c \in Clients, NEW s \in Sessions, Rooms!Subscribe(c, s) \/ Rooms!Unsubscribe(c, s)
      PROVE  RoomsInv'
  BY <1>5, SubscriptionChanges
<1>6. ASSUME NEW c \in Clients, Rooms!Handle(c)
      PROVE  RoomsInv'
  BY <1>6, EventIsHandled
<1>7. CASE UNCHANGED roomsVars
  <2>1. UNCHANGED <<link, rooms, events, handlers, disturbed>>
    BY <1>7 DEF roomsVars
  <2> QED BY <1>1, <2>1, LinkStep DEF Rooms!TypeOK
<1> QED BY <1>2, <1>3, <1>4, <1>5, <1>6, <1>7 DEF Rooms!Next

-----------------------------------------------------------------------------
(* Push notifications                                                      *)

NoRow == [user |-> Push!Nobody, isActive |-> FALSE]

\* The phone's runtime listens and has registered the token the phone has.
Registered(p) == Push!Listening(p) /\ phone[p].known = phone[p].token

(* Its token is on a row of its user, or on none while its request is on    *)
(* its way.                                                                 *)
Reachable(p) ==
  LET token == <<p, phone[p].token>> IN
  Registered(p) =>
    \/ rows[token] = [user |-> phone[p].user, isActive |-> TRUE]
    \/ /\ rows[token].user = Push!Nobody
       /\ \E call \in calls : call.op = "register" /\ call.token = token
                              /\ call.user = phone[p].user

(* A delivery has tokens that phones had or have: what it switches off they *)
(* have no more, and where the phone has registered what it has, and not    *)
(* begun or ended meanwhile, it is of the user the message is for.          *)
SendKnows(s) ==
  /\ sends[s].pc = "deactivate" =>
       \A t \in sends[s].tokens : t[2] < phone[t[1]].token
  /\ sends[s].pc = "send" =>
       \A t \in sends[s].tokens :
         /\ t[2] <= phone[t[1]].token
         /\ t[1] \notin sends[s].stale /\ t[2] = phone[t[1]].token /\ Registered(t[1]) =>
              phone[t[1]].user = sends[s].message.to

(* The tokens of requests and rows are those that a phone has or had.       *)
TokensAreGiven ==
  /\ \A call \in calls : call.token[2] <= phone[call.token[1]].token
  /\ \A t \in Push!Tokens : t[2] > phone[t[1]].token => rows[t] = NoRow

PushInv ==
  /\ Push!TypeOK /\ IsFiniteSet(calls)
  /\ \A p \in Phones : phone[p].pc # "off" => phone[p].user \in Users
  /\ TokensAreGiven
  /\ \A p \in Phones : Reachable(p)
  /\ \A s \in Sends : SendKnows(s)
  /\ Push!HandledByItsUser

HandledType ==
  \A h \in handled : h.callback \in Push!Callbacks /\ h.kind \in Kinds
                     /\ {h.user, h.to} \subseteq Users /\ h.fresh \in BOOLEAN

LEMMA SameCalls == \A S : Push!Cardinality(S) = Cardinality(S)
BY DEF Push!Cardinality, Cardinality

(* What a slot of a delivery holds.                                         *)
LEMMA SendSlot ==
  ASSUME Push!TypeOK, NEW s \in Sends
  PROVE  /\ sends[s].pc \in {"idle", "send", "deactivate"}
         /\ sends[s].pc # "idle" => sends[s] \in Push!Send
         /\ sends[s].pc = "idle" => sends[s] = Push!Idle
         /\ sends[s] = Push!Idle => sends[s].pc = "idle"
BY DEF Push!TypeOK, Push!Send, Push!Idle

(* A step of one phone p, which then is q.                                  *)
LEMMA PhoneStep ==
  ASSUME PushInv, NEW p \in Phones, NEW q \in Push!Phone,
         phone' \in [Phones -> Push!Phone], phone'[p] = q,
         \A x \in Phones \ {p} : phone'[x] = phone[x],
         q.pc # "off" => q.user \in Users,
         q.token >= phone[p].token,
         UNCHANGED <<enabled, client>>,
         rows' \in [Push!Tokens -> [user : Users \cup {Push!Nobody}, isActive : BOOLEAN]],
         \A t \in Push!Tokens : t[1] # p \/ t[2] > q.token => rows'[t] = rows[t],
         calls' \subseteq Push!Call, IsFiniteSet(calls'), Cardinality(calls') <= MaxPushRequests,
         \A call \in calls : call.token[1] # p => call \in calls',
         \A call \in calls' \ calls : call.token = <<p, q.token>>,
         Reachable(p)',
         sends' \in [Sends -> {Push!Idle} \cup Push!Send],
         \A s \in Sends :
           /\ sends'[s].pc = sends[s].pc
           /\ sends[s].pc # "idle" => /\ sends'[s].tokens = sends[s].tokens
                                      /\ sends'[s].message = sends[s].message
                                      /\ sends[s].stale \subseteq sends'[s].stale
           /\ sends[s].pc = "send" =>
                \/ p \in sends'[s].stale
                \/ q.token = phone[p].token /\ Registered(p)' =>
                     Registered(p) /\ q.user = phone[p].user,
         HandledType', Push!HandledByItsUser'
  PROVE  PushInv'
<1>1. Push!TypeOK'
  BY SameCalls DEF PushInv, Push!TypeOK, HandledType
<1>2. \A x \in Phones : phone[x] \in Push!Phone /\ phone'[x].token >= phone[x].token
  BY DEF PushInv, Push!TypeOK, Push!Phone
<1>3. \A x \in Phones : phone'[x].pc # "off" => phone'[x].user \in Users
  BY DEF PushInv
<1>4. TokensAreGiven'
  <2>1. ASSUME NEW call \in calls'
        PROVE  call.token[2] <= phone'[call.token[1]].token
    <3>1. call.token \in Push!Tokens /\ call.token[1] \in Phones /\ call.token[2] \in 1..MaxToken
      BY DEF Push!Call, Push!Tokens
    <3>2. CASE call \in calls
      <4>1. call.token[2] <= phone[call.token[1]].token
        BY <3>2 DEF PushInv, TokensAreGiven
      <4>2. phone[call.token[1]].token \in 1..MaxToken /\ phone'[call.token[1]].token \in 1..MaxToken
        BY <3>1 DEF PushInv, Push!TypeOK, Push!Phone
      <4> QED BY <1>2, <3>1, <4>1, <4>2
    <3>3. CASE call \notin calls
      <4>1. call.token = <<p, q.token>> /\ q.token \in 1..MaxToken
        BY <3>3 DEF Push!Phone
      <4> QED BY <4>1
    <3> QED BY <3>2, <3>3
  <2>2. ASSUME NEW t \in Push!Tokens, t[2] > phone'[t[1]].token
        PROVE  rows'[t] = NoRow
    <3>1. t[1] \in Phones /\ t[2] \in 1..MaxToken
      BY DEF Push!Tokens
    <3>2. phone[t[1]].token \in 1..MaxToken /\ phone'[t[1]].token \in 1..MaxToken
      BY <3>1 DEF PushInv, Push!TypeOK, Push!Phone
    <3>3. t[2] > phone[t[1]].token
      BY <1>2, <2>2, <3>1, <3>2
    <3>4. rows[t] = NoRow
      BY <3>3 DEF PushInv, TokensAreGiven
    <3>5. rows'[t] = rows[t]
      BY <2>2
    <3> QED BY <3>4, <3>5
  <2> QED BY <2>1, <2>2 DEF TokensAreGiven, NoRow
<1>5. ASSUME NEW x \in Phones
      PROVE  Reachable(x)'
  <2>1. CASE x = p
    BY <2>1
  <2>2. CASE x # p
    <3>1. <<x, phone[x].token>> \in Push!Tokens /\ phone'[x] = phone[x]
      BY <2>2 DEF PushInv, Push!TypeOK, Push!Phone, Push!Tokens
    <3>2. rows'[<<x, phone[x].token>>] = rows[<<x, phone[x].token>>]
      BY <2>2, <3>1
    <3>3. Reachable(x)
      BY DEF PushInv
    <3>4. \A call \in calls : call.token = <<x, phone[x].token>> => call \in calls'
      BY <2>2
    <3> QED BY <3>1, <3>2, <3>3, <3>4 DEF Reachable, Registered, Push!Listening
  <2> QED BY <2>1, <2>2
<1>6. ASSUME NEW s \in Sends
      PROVE  SendKnows(s)'
  <2>1. SendKnows(s) /\ sends'[s].pc = sends[s].pc
    BY DEF PushInv
  <2>2. CASE sends[s].pc # "idle"
    <3>1. sends[s] \in Push!Send /\ sends'[s].tokens = sends[s].tokens
      BY <2>2, SendSlot DEF PushInv
    <3>2. \A t \in sends[s].tokens :
            /\ t \in Push!Tokens /\ t[1] \in Phones /\ t[2] \in 1..MaxToken
            /\ phone[t[1]].token \in 1..MaxToken /\ phone'[t[1]].token \in 1..MaxToken
            /\ phone'[t[1]].token >= phone[t[1]].token
      BY <1>2, <3>1 DEF Push!Send, Push!Tokens, PushInv, Push!TypeOK, Push!Phone
    <3>3. sends'[s].pc = "deactivate" =>
            \A t \in sends'[s].tokens : t[2] < phone'[t[1]].token
      <4>1. SUFFICES ASSUME sends[s].pc = "deactivate", NEW t \in sends[s].tokens
                     PROVE  t[2] < phone'[t[1]].token
        BY <2>1, <3>1
      <4>2. t[2] < phone[t[1]].token
        BY <2>1, <4>1 DEF SendKnows
      <4> QED BY <3>2, <4>2
    <3>4. ASSUME sends[s].pc = "send", NEW t \in sends[s].tokens
          PROVE  /\ t[2] <= phone'[t[1]].token
                 /\ t[1] \notin sends'[s].stale /\ t[2] = phone'[t[1]].token /\ Registered(t[1])' =>
                      phone'[t[1]].user = sends'[s].message.to
      <4>1. /\ t[2] <= phone[t[1]].token
            /\ t[1] \notin sends[s].stale /\ t[2] = phone[t[1]].token /\ Registered(t[1]) =>
                 phone[t[1]].user = sends[s].message.to
        BY <2>1, <3>4 DEF SendKnows
      <4>2. t[2] <= phone'[t[1]].token
        BY <3>2, <4>1
      <4>3. sends[s].stale \subseteq sends'[s].stale /\ sends'[s].message = sends[s].message
        BY <2>2
      <4>4. CASE t[1] # p
        <5>1. phone'[t[1]] = phone[t[1]]
          BY <3>2, <4>4
        <5>2. Registered(t[1])' => Registered(t[1])
          BY <5>1 DEF Registered, Push!Listening
        <5> QED BY <4>1, <4>2, <4>3, <5>1, <5>2
      <4>5. CASE t[1] = p /\ p \notin sends'[s].stale /\ t[2] = q.token /\ Registered(p)'
        <5>1. q.token = phone[p].token
          <6> DEFINE new == q.token
                     old == phone[p].token
          <6>1. new \in Int /\ old \in Int
            BY <3>2, <4>5
          <6>2. new <= old /\ old <= new
            BY <4>1, <4>5
          <6> HIDE DEF new, old
          <6>3. new = old
            BY <6>1, <6>2
          <6> QED BY <6>3 DEF new, old
        <5>2. Registered(p) /\ q.user = phone[p].user
          BY <3>4, <4>5, <5>1
        <5> QED BY <4>1, <4>2, <4>3, <4>5, <5>1, <5>2
      <4> QED BY <4>2, <4>4, <4>5
    <3> QED BY <2>1, <3>1, <3>3, <3>4 DEF SendKnows
  <2>3. CASE sends[s].pc = "idle"
    BY <2>1, <2>3 DEF SendKnows
  <2> QED BY <2>2, <2>3
<1> QED BY <1>1, <1>3, <1>4, <1>5, <1>6 DEF PushInv

(* A step that leaves the phones and their requests alone.                  *)
LEMMA ServiceStep ==
  ASSUME PushInv, UNCHANGED <<phone, calls>>, Push!TypeOK',
         \A p \in Phones : rows'[<<p, phone[p].token>>] = rows[<<p, phone[p].token>>],
         \A t \in Push!Tokens : t[2] > phone[t[1]].token => rows'[t] = rows[t],
         \A s \in Sends : SendKnows(s)',
         Push!HandledByItsUser'
  PROVE  PushInv'
<1>1. TokensAreGiven'
  BY DEF PushInv, TokensAreGiven, NoRow
<1>2. \A p \in Phones : Reachable(p)'
  BY DEF PushInv, Reachable, Registered, Push!Listening
<1> QED BY <1>1, <1>2 DEF PushInv

(* Nobody is called by a step that calls nobody.                            *)
LEMMA NobodyCalled ==
  ASSUME handled' = {}
  PROVE  HandledType' /\ Push!HandledByItsUser'
BY DEF HandledType, Push!HandledByItsUser

LEMMA PhoneType ==
  ASSUME PushInv, NEW p \in Phones
  PROVE  /\ phone[p] \in Push!Phone
         /\ phone[p].user \in Users \cup {Push!Nobody}
         /\ phone[p].token \in 1..MaxToken /\ phone[p].known \in 0..MaxToken
         /\ phone[p].initial \in Push!Message \cup {Push!NoMessage}
         /\ phone[p].pc # "off" => phone[p].user \in Users
BY DEF PushInv, Push!TypeOK, Push!Phone

(* The step of a phone that only touches itself.                            *)
LEMMA PhoneAlone ==
  ASSUME PushInv, NEW p \in Phones, NEW q \in Push!Phone,
         phone' = [phone EXCEPT ![p] = q],
         q.pc # "off" => q.user \in Users,
         q.token >= phone[p].token,
         UNCHANGED <<rows, enabled, client, sends>>,
         calls' = calls \/ \E c \in Push!Call : /\ calls' = calls \cup {c}
                                               /\ c.token = <<p, q.token>>
                                               /\ Push!Cardinality(calls) < MaxPushRequests,
         Push!PushAssumption,
         Reachable(p)',
         q.token = phone[p].token /\ Registered(p)' => Registered(p) /\ q.user = phone[p].user,
         HandledType', Push!HandledByItsUser'
  PROVE  PushInv'
<1>1. /\ calls \subseteq Push!Call /\ IsFiniteSet(calls)
      /\ Cardinality(calls) <= MaxPushRequests /\ Cardinality(calls) \in Nat
      /\ MaxPushRequests \in Nat
  BY SameCalls, FS_CardinalityType DEF PushInv, Push!TypeOK, Push!PushAssumption
<1>2. /\ calls' \subseteq Push!Call /\ IsFiniteSet(calls')
      /\ Cardinality(calls') <= MaxPushRequests
      /\ \A c \in calls : c \in calls'
      /\ \A c \in calls' \ calls : c.token = <<p, q.token>>
  <2>1. CASE calls' = calls
    BY <1>1, <2>1
  <2>2. CASE calls' # calls
    <3>1. PICK c \in Push!Call : /\ calls' = calls \cup {c} /\ c.token = <<p, q.token>>
                                 /\ Push!Cardinality(calls) < MaxPushRequests
      BY <2>2
    <3>2. IsFiniteSet(calls \cup {c}) /\ Cardinality(calls \cup {c}) <= Cardinality(calls) + 1
      <4>1. /\ IsFiniteSet(calls \cup {c})
            /\ Cardinality(calls \cup {c})
                 = IF c \in calls THEN Cardinality(calls) ELSE Cardinality(calls) + 1
        BY <1>1, FS_AddElement
      <4> QED BY <1>1, <4>1
    <3>3. Cardinality(calls) < MaxPushRequests
      BY <3>1, SameCalls
    <3>4. Cardinality(calls \cup {c}) \in Nat
      BY <3>2, FS_CardinalityType
    <3> QED BY <1>1, <3>1, <3>2, <3>3, <3>4
  <2> QED BY <2>1, <2>2
<1>3. /\ phone' \in [Phones -> Push!Phone] /\ phone'[p] = q
      /\ \A x \in Phones \ {p} : phone'[x] = phone[x]
  BY DEF PushInv, Push!TypeOK
<1>4. /\ rows' \in [Push!Tokens -> [user : Users \cup {Push!Nobody}, isActive : BOOLEAN]]
      /\ sends' \in [Sends -> {Push!Idle} \cup Push!Send]
  BY DEF PushInv, Push!TypeOK
<1> QED BY <1>2, <1>3, <1>4, PhoneStep

LEMMA RuntimeBegins ==
  ASSUME PushInv, Push!PushAssumption, NEW p \in Phones, NEW u \in Users, Push!Initialize(p, u)
  PROVE  PushInv'
<1> DEFINE a == [phone[p] EXCEPT !.pc = "permission"]
           b == [a EXCEPT !.user = u]
           q == [b EXCEPT !.known = 0]
<1>1. phone' = [phone EXCEPT ![p] = q]
  BY DEF Push!Initialize, PushInv, Push!TypeOK
<1>2. a \in Push!Phone /\ a.pc = "permission" /\ a.token = phone[p].token
  BY PhoneType DEF Push!Phone
<1> HIDE DEF a
<1>3. b \in Push!Phone /\ b.pc = "permission" /\ b.token = phone[p].token /\ b.user = u
  BY <1>2 DEF Push!Phone
<1> HIDE DEF b
<1>4. q \in Push!Phone /\ q.pc = "permission" /\ q.token = phone[p].token /\ q.user = u
  BY <1>3, PhoneType DEF Push!Phone, Push!PushAssumption
<1> HIDE DEF q
<1>5. phone'[p] = q
  BY <1>1 DEF PushInv, Push!TypeOK
<1>6. ~Registered(p)' /\ Reachable(p)'
  BY <1>4, <1>5 DEF Registered, Push!Listening, Reachable
<1>7. UNCHANGED <<rows, enabled, client, calls, sends>> /\ handled' = {}
  BY DEF Push!Initialize
<1>8. q.token >= phone[p].token
  BY <1>4, PhoneType
<1> QED BY <1>1, <1>4, <1>6, <1>7, <1>8, NobodyCalled, PhoneAlone

LEMMA PermissionRefused ==
  ASSUME PushInv, Push!PushAssumption, NEW p \in Phones, Push!Refuse(p)
  PROVE  PushInv'
<1> DEFINE a == [phone[p] EXCEPT !.pc = "off"]
           q == [a EXCEPT !.user = Push!Nobody]
<1>1. phone' = [phone EXCEPT ![p] = q]
  BY DEF Push!Refuse, PushInv, Push!TypeOK
<1>2. a \in Push!Phone /\ a.pc = "off" /\ a.token = phone[p].token
  BY PhoneType DEF Push!Phone
<1> HIDE DEF a
<1>3. q \in Push!Phone /\ q.pc = "off" /\ q.token = phone[p].token
  BY <1>2 DEF Push!Phone
<1> HIDE DEF q
<1>4. phone'[p] = q
  BY <1>1 DEF PushInv, Push!TypeOK
<1>5. ~Registered(p)' /\ Reachable(p)'
  BY <1>3, <1>4 DEF Registered, Push!Listening, Reachable
<1>6. UNCHANGED <<rows, enabled, client, calls, sends>> /\ handled' = {}
  BY DEF Push!Refuse
<1>7. q.token >= phone[p].token
  BY <1>3, PhoneType
<1> QED BY <1>1, <1>3, <1>5, <1>6, <1>7, NobodyCalled, PhoneAlone

LEMMA TokenIsRegistered ==
  ASSUME PushInv, Push!PushAssumption, NEW p \in Phones, Push!RegisterToken(p)
  PROVE  PushInv'
<1> DEFINE q == [phone[p] EXCEPT !.pc = "register"]
           c == [op |-> "register", user |-> phone[p].user, token |-> <<p, phone[p].token>>]
<1>1. phone' = [phone EXCEPT ![p] = q]
  BY DEF Push!RegisterToken, PushInv, Push!TypeOK
<1>2. q \in Push!Phone /\ q.pc = "register" /\ q.token = phone[p].token /\ q.user = phone[p].user
  BY PhoneType DEF Push!Phone
<1> HIDE DEF q
<1>3. phone'[p] = q
  BY <1>1 DEF PushInv, Push!TypeOK
<1>4. ~Registered(p)' /\ Reachable(p)'
  BY <1>2, <1>3 DEF Registered, Push!Listening, Reachable
<1>5. /\ UNCHANGED <<rows, enabled, client, sends>> /\ handled' = {}
      /\ calls' = calls \cup {c} /\ Push!Cardinality(calls) < MaxPushRequests
  BY <1>2, <1>3 DEF Push!RegisterToken, Push!Sent
<1>6. phone[p].user \in Users
  BY PhoneType DEF Push!RegisterToken
<1>7. c \in Push!Call /\ c.token = <<p, q.token>>
  BY <1>2, <1>6, PhoneType DEF Push!Call, Push!Tokens
<1> HIDE DEF c
<1>8. q.token >= phone[p].token /\ q.user \in Users
  BY <1>2, <1>6, PhoneType
<1> QED BY <1>1, <1>2, <1>4, <1>5, <1>7, <1>8, NobodyCalled, PhoneAlone

LEMMA HandlingIsTyped ==
  ASSUME NEW p \in Phones, NEW m \in Push!Message, NEW fresh \in BOOLEAN,
         phone[p].user \in Users
  PROVE  LET h == Push!Handling(p, m, fresh) IN
           /\ h.callback \in Push!Callbacks /\ h.kind \in Kinds
           /\ {h.user, h.to} \subseteq Users /\ h.fresh \in BOOLEAN
           /\ h.fresh = fresh /\ h.user = phone[p].user /\ h.to = m.to
BY DEF Push!Handling, Push!Callback, Push!Callbacks, Push!Message

LEMMA InitialIsHandled ==
  ASSUME PushInv, Push!PushAssumption, NEW p \in Phones, Push!HandleInitial(p)
  PROVE  PushInv'
<1> DEFINE a == [phone[p] EXCEPT !.pc = "running"]
           q == [a EXCEPT !.initial = Push!NoMessage]
<1>1. phone' = [phone EXCEPT ![p] = q]
  BY DEF Push!HandleInitial, PushInv, Push!TypeOK
<1>2. /\ a \in Push!Phone /\ a.pc = "running" /\ a.token = phone[p].token
      /\ a.user = phone[p].user /\ a.known = phone[p].known
  BY PhoneType DEF Push!Phone
<1> HIDE DEF a
<1>3. /\ q \in Push!Phone /\ q.pc = "running" /\ q.token = phone[p].token
      /\ q.user = phone[p].user /\ q.known = phone[p].known
  BY <1>2 DEF Push!Phone
<1> HIDE DEF q
<1>4. phone'[p] = q /\ UNCHANGED <<rows, enabled, client, calls, sends>> /\ phone[p].pc = "initial"
  BY <1>1 DEF Push!HandleInitial, PushInv, Push!TypeOK
<1>5. Registered(p)' <=> Registered(p)
  BY <1>3, <1>4 DEF Registered, Push!Listening
<1>6. Reachable(p)'
  BY <1>3, <1>4, <1>5 DEF PushInv, Reachable
<1>7. phone[p].user \in Users
  BY <1>4, PhoneType
<1>8. HandledType' /\ Push!HandledByItsUser'
  <2>1. CASE phone[p].initial = Push!NoMessage
    BY <2>1 DEF Push!HandleInitial, HandledType, Push!HandledByItsUser
  <2>2. CASE phone[p].initial # Push!NoMessage
    <3>1. phone[p].initial \in Push!Message
      BY <2>2, PhoneType
    <3>2. handled' = {Push!Handling(p, phone[p].initial, FALSE)}
      BY <2>2 DEF Push!HandleInitial
    <3> DEFINE h == Push!Handling(p, phone[p].initial, FALSE)
    <3>3. /\ h.callback \in Push!Callbacks /\ h.kind \in Kinds
          /\ {h.user, h.to} \subseteq Users /\ h.fresh \in BOOLEAN /\ ~h.fresh
      BY <1>7, <3>1, HandlingIsTyped
    <3> HIDE DEF h
    <3>4. handled' = {h}
      BY <3>2 DEF h
    <3> QED BY <3>3, <3>4 DEF HandledType, Push!HandledByItsUser
  <2> QED BY <2>1, <2>2
<1>9. q.token >= phone[p].token
  BY <1>3, PhoneType
<1> QED BY <1>1, <1>3, <1>4, <1>5, <1>6, <1>7, <1>8, <1>9, PhoneAlone

LEMMA TokenIsReplaced ==
  ASSUME PushInv, Push!PushAssumption, NEW p \in Phones, Push!RefreshToken(p)
  PROVE  PushInv'
<1> DEFINE next == phone[p].token + 1
           known == IF Push!Listening(p) /\ phone[p].known # 0 THEN next ELSE phone[p].known
           a == [phone[p] EXCEPT !.token = next]
           q == [a EXCEPT !.known = known]
           c == [op |-> "register", user |-> phone[p].user, token |-> <<p, next>>]
<1>1. phone' = [phone EXCEPT ![p] = q]
  BY DEF Push!RefreshToken, PushInv, Push!TypeOK
<1>2. next \in 1..MaxToken /\ next > phone[p].token /\ known \in 0..MaxToken
  BY PhoneType DEF Push!RefreshToken, Push!PushAssumption
<1>4. UNCHANGED <<rows, enabled, client, sends>> /\ handled' = {}
  BY DEF Push!RefreshToken
<1> HIDE DEF known, next
<1>5. a \in Push!Phone /\ a.token = next /\ a.user = phone[p].user /\ a.pc = phone[p].pc
  BY <1>2, PhoneType DEF Push!Phone
<1> HIDE DEF a
<1>6. /\ q \in Push!Phone /\ q.token = next /\ q.known = known /\ q.user = phone[p].user
      /\ q.pc = phone[p].pc
  BY <1>2, <1>5 DEF Push!Phone
<1> HIDE DEF q
<1>7. phone'[p] = q
  BY <1>1 DEF PushInv, Push!TypeOK
<1>8. IF Push!Listening(p)
      THEN calls' = calls \cup {c} /\ Push!Cardinality(calls) < MaxPushRequests
      ELSE calls' = calls
  BY <1>6, <1>7 DEF Push!RefreshToken, Push!Sent
<1>9. Push!Listening(p) => c \in Push!Call /\ c.token = <<p, q.token>>
  <2>1. Push!Listening(p) => phone[p].user \in Users
    BY PhoneType DEF Push!Listening
  <2> QED BY <1>2, <1>6, <2>1 DEF Push!Call, Push!Tokens
<1>10. c.op = "register" /\ c.user = phone[p].user /\ c.token = <<p, next>>
  OBVIOUS
<1> HIDE DEF c
<1>11. Reachable(p)'
  <2>1. SUFFICES ASSUME Registered(p)'
                 PROVE  /\ rows'[<<p, next>>].user = Push!Nobody
                        /\ \E call \in calls' : call.op = "register" /\ call.token = <<p, next>>
                                                /\ call.user = phone[p].user
    BY <1>6, <1>7 DEF Reachable
  <2>2. Push!Listening(p)
    BY <1>6, <1>7, <2>1 DEF Registered, Push!Listening
  <2>3. rows[<<p, next>>] = NoRow
    <3>1. <<p, next>> \in Push!Tokens
      BY <1>2 DEF Push!Tokens
    <3> QED BY <1>2, <3>1 DEF PushInv, TokensAreGiven
  <2> QED BY <1>4, <1>8, <1>10, <2>2, <2>3 DEF NoRow
<1>12. q.token # phone[p].token /\ q.token >= phone[p].token
  BY <1>2, <1>6, PhoneType
<1>13. q.pc # "off" => q.user \in Users
  BY <1>6, PhoneType
<1>14. calls' = calls \/ \E d \in Push!Call : /\ calls' = calls \cup {d}
                                              /\ d.token = <<p, q.token>>
                                              /\ Push!Cardinality(calls) < MaxPushRequests
  BY <1>8, <1>9
<1> QED BY <1>1, <1>4, <1>6, <1>11, <1>12, <1>13, <1>14, NobodyCalled, PhoneAlone

LEMMA TokenIsTakenOff ==
  ASSUME PushInv, Push!PushAssumption, NEW p \in Phones, Push!Unregister(p)
  PROVE  PushInv'
<1> DEFINE q == [phone[p] EXCEPT !.known = 0]
           c == [op |-> "unregister", user |-> phone[p].user, token |-> <<p, phone[p].token>>]
<1>1. phone' = [phone EXCEPT ![p] = q]
  BY DEF Push!Unregister, PushInv, Push!TypeOK
<1>2. /\ q \in Push!Phone /\ q.known = 0 /\ q.token = phone[p].token /\ q.user = phone[p].user
      /\ q.pc = phone[p].pc
  BY PhoneType DEF Push!Phone, Push!PushAssumption
<1> HIDE DEF q
<1>3. phone'[p] = q
  BY <1>1 DEF PushInv, Push!TypeOK
<1>4. ~Registered(p)' /\ Reachable(p)'
  BY <1>2, <1>3, PhoneType DEF Registered, Reachable
<1>5. /\ UNCHANGED <<rows, enabled, client, sends>> /\ handled' = {}
      /\ calls' = calls \cup {c} /\ Push!Cardinality(calls) < MaxPushRequests
  BY <1>2, <1>3 DEF Push!Unregister, Push!Sent
<1>6. phone[p].user \in Users
  BY PhoneType DEF Push!Unregister, Push!Listening
<1>7. c \in Push!Call /\ c.token = <<p, q.token>>
  BY <1>2, <1>6, PhoneType DEF Push!Call, Push!Tokens
<1> HIDE DEF c
<1>8. q.token >= phone[p].token /\ q.user \in Users
  BY <1>2, <1>6, PhoneType
<1> QED BY <1>1, <1>2, <1>4, <1>5, <1>7, <1>8, NobodyCalled, PhoneAlone

(* A delivery for which the phone p has gone stale.                         *)
LEMMA MadeStale ==
  ASSUME PushInv, NEW p \in Phones,
         sends' = [s \in Sends |-> IF sends[s].pc = "idle" THEN Push!Idle
                                   ELSE [sends[s] EXCEPT !.stale = @ \cup {p}]]
  PROVE  /\ sends' \in [Sends -> {Push!Idle} \cup Push!Send]
         /\ \A s \in Sends :
              /\ sends'[s].pc = sends[s].pc
              /\ sends[s].pc # "idle" => /\ sends'[s].tokens = sends[s].tokens
                                         /\ sends'[s].message = sends[s].message
                                         /\ sends[s].stale \subseteq sends'[s].stale
                                         /\ p \in sends'[s].stale
<1>1. ASSUME NEW s \in Sends
      PROVE  /\ sends'[s] \in {Push!Idle} \cup Push!Send
             /\ sends'[s].pc = sends[s].pc
             /\ sends[s].pc # "idle" => /\ sends'[s].tokens = sends[s].tokens
                                        /\ sends'[s].message = sends[s].message
                                        /\ sends[s].stale \subseteq sends'[s].stale
                                        /\ p \in sends'[s].stale
  <2>1. CASE sends[s].pc = "idle"
    BY <1>1, <2>1, SendSlot DEF PushInv, Push!Idle
  <2>2. CASE sends[s].pc # "idle"
    <3>1. sends[s] \in Push!Send
      BY <2>2, SendSlot DEF PushInv
    <3>2. sends'[s] = [sends[s] EXCEPT !.stale = sends[s].stale \cup {p}]
      BY <2>2
    <3> QED BY <3>1, <3>2 DEF Push!Send
  <2> QED BY <2>1, <2>2
<1>2. sends' = [s \in Sends |-> sends'[s]]
  OBVIOUS
<1> QED BY <1>1, <1>2

LEMMA RuntimeEnds ==
  ASSUME PushInv, Push!PushAssumption, NEW p \in Phones, Push!Cleanup(p)
  PROVE  PushInv'
<1> DEFINE a == [phone[p] EXCEPT !.pc = "off"]
           b == [a EXCEPT !.user = Push!Nobody]
           q == [b EXCEPT !.known = 0]
<1>1. phone' = [phone EXCEPT ![p] = q]
  BY DEF Push!Cleanup, PushInv, Push!TypeOK
<1>2. a \in Push!Phone /\ a.pc = "off" /\ a.token = phone[p].token
  BY PhoneType DEF Push!Phone
<1> HIDE DEF a
<1>3. b \in Push!Phone /\ b.pc = "off" /\ b.token = phone[p].token
  BY <1>2 DEF Push!Phone
<1> HIDE DEF b
<1>4. q \in Push!Phone /\ q.pc = "off" /\ q.token = phone[p].token
  BY <1>3 DEF Push!Phone, Push!PushAssumption
<1> HIDE DEF q
<1>5. /\ phone' \in [Phones -> Push!Phone] /\ phone'[p] = q
      /\ \A x \in Phones \ {p} : phone'[x] = phone[x]
  BY <1>1, <1>4 DEF PushInv, Push!TypeOK
<1>6. ~Registered(p)' /\ Reachable(p)'
  BY <1>4, <1>5 DEF Registered, Push!Listening, Reachable
<1>7. UNCHANGED <<rows, enabled, client, calls>> /\ handled' = {}
  BY DEF Push!Cleanup
<1>8. /\ sends' \in [Sends -> {Push!Idle} \cup Push!Send]
      /\ \A s \in Sends :
           /\ sends'[s].pc = sends[s].pc
           /\ sends[s].pc # "idle" => /\ sends'[s].tokens = sends[s].tokens
                                      /\ sends'[s].message = sends[s].message
                                      /\ sends[s].stale \subseteq sends'[s].stale
                                      /\ p \in sends'[s].stale
  BY MadeStale DEF Push!Cleanup
<1>9. q.token >= phone[p].token
  BY <1>4, PhoneType
<1>10. rows' \in [Push!Tokens -> [user : Users \cup {Push!Nobody}, isActive : BOOLEAN]]
  BY <1>7 DEF PushInv, Push!TypeOK
<1>11. calls' \subseteq Push!Call /\ IsFiniteSet(calls') /\ Cardinality(calls') <= MaxPushRequests
  BY <1>7, SameCalls DEF PushInv, Push!TypeOK
<1> QED BY <1>4, <1>5, <1>6, <1>7, <1>8, <1>9, <1>10, <1>11, NobodyCalled, PhoneStep

LEMMA CallType ==
  ASSUME PushInv, NEW call \in calls
  PROVE  /\ call \in Push!Call /\ call.op \in {"register", "unregister"} /\ call.user \in Users
         /\ call.token \in Push!Tokens
         /\ call.token[1] \in Phones /\ call.token[2] \in 1..MaxToken
         /\ call.token = <<call.token[1], call.token[2]>>
         /\ call.token[2] <= phone[call.token[1]].token
BY DEF PushInv, Push!TypeOK, Push!Call, Push!Tokens, TokensAreGiven

(* A request that has been answered is on its way no more.                  *)
LEMMA CallEnds ==
  ASSUME PushInv, NEW call \in calls, calls' = calls \ {call}
  PROVE  /\ calls' \subseteq Push!Call /\ IsFiniteSet(calls')
         /\ Cardinality(calls') <= MaxPushRequests
         /\ \A c \in calls : c # call => c \in calls'
         /\ calls' \ calls = {}
<1>1. calls \subseteq Push!Call /\ IsFiniteSet(calls) /\ Cardinality(calls) <= MaxPushRequests
  BY SameCalls DEF PushInv, Push!TypeOK
<1>2. IsFiniteSet(calls') /\ Cardinality(calls') = Cardinality(calls) - 1
  BY <1>1, FS_RemoveElement
<1>3. Cardinality(calls) \in Nat /\ Cardinality(calls') \in Nat
  BY <1>1, <1>2, FS_CardinalityType
<1>4. MaxPushRequests \in Nat \/ Cardinality(calls') <= MaxPushRequests
  BY MobileAssumptions DEF Push!PushAssumption
<1> QED BY <1>1, <1>2, <1>3, <1>4

(* Is the call the registration that the runtime waits for?                 *)
First(call) ==
  LET p == call.token[1] IN
  phone[p].pc = "register" /\ phone[p].user = call.user /\ call.op = "register"

LEMMA RequestIsLost ==
  ASSUME PushInv, Push!PushAssumption, NEW call \in calls, Push!LoseCall(call)
  PROVE  PushInv'
<1> DEFINE p == call.token[1]
           known == IF call.op = "register" /\ phone[p].user = call.user THEN 0 ELSE phone[p].known
           pc == IF First(call) THEN "off" ELSE phone[p].pc
           user == IF First(call) THEN Push!Nobody ELSE phone[p].user
           a == [phone[p] EXCEPT !.known = known]
           b == [a EXCEPT !.pc = pc]
           q == [b EXCEPT !.user = user]
<1>1. phone' = [phone EXCEPT ![p] = q] /\ calls' = calls \ {call}
  BY DEF Push!LoseCall, PushInv, Push!TypeOK, First
<1>2. p \in Phones /\ call.user \in Users /\ call.op \in {"register", "unregister"}
  BY CallType
<1>3. known \in 0..MaxToken /\ known \in {0, phone[p].known}
  BY <1>2, PhoneType DEF Push!PushAssumption
<1>4. pc \in {"off", "permission", "register", "initial", "running"} /\ pc \in {"off", phone[p].pc}
  BY <1>2, PhoneType DEF Push!Phone
<1>5. /\ user \in Users \cup {Push!Nobody}
      /\ pc # "off" => user \in Users
      /\ pc \in {"initial", "running"} => phone[p].pc = pc /\ user = phone[p].user
  BY <1>2, PhoneType DEF First
<1>6. Push!Listening(p) /\ call.op = "register" /\ phone[p].user = call.user => known = 0
  OBVIOUS
<1> HIDE DEF known, pc, user
<1>7. a \in Push!Phone /\ a.token = phone[p].token /\ a.known = known
  BY <1>2, <1>3, PhoneType DEF Push!Phone
<1> HIDE DEF a
<1>8. b \in Push!Phone /\ b.token = phone[p].token /\ b.known = known /\ b.pc = pc
  BY <1>4, <1>7 DEF Push!Phone
<1> HIDE DEF b
<1>9. q \in Push!Phone /\ q.token = phone[p].token /\ q.known = known /\ q.pc = pc /\ q.user = user
  BY <1>5, <1>8 DEF Push!Phone
<1> HIDE DEF q
<1>10. /\ phone' \in [Phones -> Push!Phone] /\ phone'[p] = q
       /\ \A x \in Phones \ {p} : phone'[x] = phone[x]
  BY <1>1, <1>2, <1>9 DEF PushInv, Push!TypeOK
<1>11. UNCHANGED <<rows, enabled, client, sends>> /\ handled' = {}
  BY DEF Push!LoseCall
<1>12. Registered(p)' => /\ Registered(p) /\ q.user = phone[p].user
                         /\ ~(call.op = "register" /\ phone[p].user = call.user)
  <2>1. phone[p].token \in 1..MaxToken
    BY <1>2, PhoneType
  <2> QED BY <1>3, <1>5, <1>6, <1>9, <1>10, <2>1 DEF Registered, Push!Listening
<1> HIDE DEF p
<1>13. Reachable(p)'
  <2>1. SUFFICES ASSUME Registered(p)'
                 PROVE  Reachable(p)'
    BY DEF Reachable
  <2>2. Reachable(p) /\ Registered(p)
    BY <1>2, <1>12, <2>1 DEF PushInv
  <2>3. ASSUME NEW c \in calls, c.op = "register", c.user = phone[p].user
        PROVE  c \in calls'
    BY <1>1, <1>12, <2>1, <2>3
  <2> QED BY <1>9, <1>10, <1>11, <1>12, <2>1, <2>2, <2>3 DEF Reachable
<1>14. q.token >= phone[p].token
  BY <1>2, <1>9, PhoneType
<1>15. /\ rows' \in [Push!Tokens -> [user : Users \cup {Push!Nobody}, isActive : BOOLEAN]]
       /\ sends' \in [Sends -> {Push!Idle} \cup Push!Send]
  BY <1>11 DEF PushInv, Push!TypeOK
<1>16. /\ calls' \subseteq Push!Call /\ IsFiniteSet(calls') /\ Cardinality(calls') <= MaxPushRequests
       /\ \A c \in calls : c.token[1] # p => c \in calls'
       /\ \A c \in calls' \ calls : c.token = <<p, q.token>>
  BY <1>1, CallEnds DEF p
<1>17. q.pc # "off" => q.user \in Users
  BY <1>5, <1>9
<1> QED BY <1>2, <1>9, <1>10, <1>11, <1>12, <1>13, <1>14, <1>15, <1>16, <1>17, NobodyCalled, PhoneStep

LEMMA RequestIsHandled ==
  ASSUME PushInv, Push!PushAssumption, NEW call \in calls, Push!HandleCall(call)
  PROVE  PushInv'
<1> DEFINE p == call.token[1]
           ends == Push!Outdated(call) \/ (call.op = "unregister" /\ call.user = phone[p].user)
           known == IF ends THEN 0 ELSE IF First(call) THEN call.token[2] ELSE phone[p].known
           pc == IF First(call) THEN "initial" ELSE phone[p].pc
           a == [phone[p] EXCEPT !.known = known]
           q == [a EXCEPT !.pc = pc]
<1>1. /\ calls' = calls \ {call}
      /\ UNCHANGED <<enabled, client>> /\ handled' = {}
      /\ rows' = IF call.op = "register" THEN Push!Upserted(call.user, call.token)
                 ELSE Push!Deactivated(call.user, {call.token})
  BY DEF Push!HandleCall
<1>2. /\ p \in Phones /\ call.user \in Users /\ call.op \in {"register", "unregister"}
      /\ call.token \in Push!Tokens /\ call.token = <<p, call.token[2]>>
      /\ call.token[2] \in 1..MaxToken /\ call.token[2] <= phone[p].token
  BY CallType
<1>3. /\ First(call) <=> /\ phone[p].pc = "register" /\ phone[p].user = call.user
                         /\ call.op = "register"
      /\ Push!Outdated(call) <=> call.op = "register" /\ phone[p].user # call.user
  BY DEF First, Push!Outdated
<1>4. phone' = [phone EXCEPT ![p] = q]
  BY <1>3 DEF Push!HandleCall, PushInv, Push!TypeOK
<1>5. sends' = [s \in Sends |-> IF sends[s].pc # "idle" /\ (First(call) \/ Push!Outdated(call))
                                THEN [sends[s] EXCEPT !.stale = @ \cup {p}] ELSE sends[s]]
  BY <1>3 DEF Push!HandleCall
<1>6. known \in 0..MaxToken
  BY <1>2, PhoneType DEF Push!PushAssumption
<1>7. pc \in {"off", "permission", "register", "initial", "running"}
  BY <1>2, PhoneType DEF Push!Phone
<1>8. /\ pc # "off" => phone[p].user \in Users
      /\ ~First(call) => pc = phone[p].pc
      /\ First(call) /\ ~ends => known = call.token[2]
      /\ ~First(call) /\ ~ends => known = phone[p].known
      /\ ends => known = 0
      /\ First(call) => ~ends
  BY <1>2, <1>3, PhoneType
<1> HIDE DEF known, pc
<1>9. a \in Push!Phone /\ a.token = phone[p].token /\ a.user = phone[p].user /\ a.known = known
  BY <1>2, <1>6, PhoneType DEF Push!Phone
<1> HIDE DEF a
<1>10. /\ q \in Push!Phone /\ q.token = phone[p].token /\ q.user = phone[p].user
       /\ q.known = known /\ q.pc = pc
  BY <1>7, <1>9 DEF Push!Phone
<1> HIDE DEF q
<1>11. /\ phone' \in [Phones -> Push!Phone] /\ phone'[p] = q
       /\ \A x \in Phones \ {p} : phone'[x] = phone[x]
  BY <1>2, <1>4, <1>10 DEF PushInv, Push!TypeOK
<1>12. /\ rows' \in [Push!Tokens -> [user : Users \cup {Push!Nobody}, isActive : BOOLEAN]]
       /\ \A t \in Push!Tokens : t # call.token => rows'[t] = rows[t]
       /\ call.op = "register" => rows'[call.token] = [user |-> call.user, isActive |-> TRUE]
       /\ call.op = "unregister" /\ rows[call.token].user # call.user =>
            rows'[call.token] = rows[call.token]
  <2>1. rows \in [Push!Tokens -> [user : Users \cup {Push!Nobody}, isActive : BOOLEAN]]
    BY DEF PushInv, Push!TypeOK
  <2>2. CASE call.op = "register"
    BY <1>1, <1>2, <2>1, <2>2 DEF Push!Upserted
  <2>3. CASE call.op = "unregister"
    <3>1. rows' = [t \in Push!Tokens |-> IF t \in {call.token} /\ rows[t].user = call.user
                                         THEN [rows[t] EXCEPT !.isActive = FALSE] ELSE rows[t]]
      BY <1>1, <2>3 DEF Push!Deactivated
    <3> QED BY <1>2, <2>1, <2>3, <3>1
  <2> QED BY <1>2, <2>2, <2>3
<1>13. Registered(p)' => /\ ~ends
                         /\ First(call) => call.token = <<p, q.token>>
                         /\ ~First(call) => Registered(p)
  <2>1. phone[p].token \in 1..MaxToken
    BY <1>2, PhoneType
  <2> QED BY <1>2, <1>8, <1>10, <1>11, <2>1 DEF Registered, Push!Listening
<1> HIDE DEF p, ends
<1>14. Reachable(p)'
  <2> DEFINE token == <<p, phone[p].token>>
             u == phone[p].user
  <2>1. SUFFICES ASSUME Registered(p)'
                 PROVE  \/ rows'[token] = [user |-> u, isActive |-> TRUE]
                        \/ /\ rows'[token].user = Push!Nobody
                           /\ \E c \in calls' : c.op = "register" /\ c.token = token /\ c.user = u
    BY <1>10, <1>11 DEF Reachable
  <2>2. call.op = "register" => call.user = u
    BY <1>3, <1>13, <2>1 DEF ends, p
  <2>3. call.op = "unregister" => call.user # u
    BY <1>13, <2>1 DEF ends
  <2>4. CASE call.op = "register" /\ call.token = token
    BY <1>12, <2>2, <2>4
  <2>5. CASE ~(call.op = "register" /\ call.token = token)
    <3>1. ~First(call)
      BY <1>3, <1>10, <1>13, <2>1, <2>5
    <3>2. Reachable(p) /\ Registered(p)
      BY <1>2, <1>13, <2>1, <3>1 DEF PushInv
    <3>3. token \in Push!Tokens
      BY <1>2, PhoneType DEF Push!Tokens
    <3>4. rows[token].user \in {u, Push!Nobody}
      BY <3>2 DEF Reachable
    <3>5. rows'[token] = rows[token]
      <4>1. CASE call.token # token
        BY <1>12, <3>3, <4>1
      <4>2. CASE call.token = token
        <5>1. call.op = "unregister" /\ rows[token].user # call.user
          BY <1>2, <2>3, <2>5, <3>4, <4>2 DEF Push!PushAssumption
        <5> QED BY <1>12, <4>2, <5>1
      <4> QED BY <4>1, <4>2
    <3>6. \A c \in calls : c.op = "register" /\ c.token = token => c \in calls'
      BY <1>1, <2>5
    <3> QED BY <3>2, <3>5, <3>6 DEF Reachable
  <2> QED BY <2>4, <2>5
<1>15. q.token >= phone[p].token
  BY <1>2, <1>10, PhoneType
<1>16. /\ calls' \subseteq Push!Call /\ IsFiniteSet(calls') /\ Cardinality(calls') <= MaxPushRequests
       /\ \A c \in calls : c.token[1] # p => c \in calls'
       /\ \A c \in calls' \ calls : c.token = <<p, q.token>>
  BY <1>1, CallEnds DEF p
<1>17. q.pc # "off" => q.user \in Users
  BY <1>8, <1>10
<1>18. \A t \in Push!Tokens : t[1] # p \/ t[2] > q.token => rows'[t] = rows[t]
  <2>1. SUFFICES ASSUME NEW t \in Push!Tokens, t[1] # p \/ t[2] > q.token
                 PROVE  t # call.token
    BY <1>12
  <2>2. CASE t[1] # p
    BY <2>2 DEF p
  <2>3. CASE t[2] > q.token
    <3>1. ~(call.token[2] > phone[p].token)
      BY <1>2, PhoneType
    <3> QED BY <1>10, <2>3, <3>1
  <2> QED BY <2>1, <2>2, <2>3
<1>19. /\ sends' \in [Sends -> {Push!Idle} \cup Push!Send]
       /\ \A s \in Sends :
            /\ sends'[s].pc = sends[s].pc
            /\ sends[s].pc # "idle" => /\ sends'[s].tokens = sends[s].tokens
                                       /\ sends'[s].message = sends[s].message
                                       /\ sends[s].stale \subseteq sends'[s].stale
                                       /\ First(call) => p \in sends'[s].stale
  <2>1. CASE First(call) \/ Push!Outdated(call)
    <3>1. sends' = [s \in Sends |-> IF sends[s].pc = "idle" THEN Push!Idle
                                    ELSE [sends[s] EXCEPT !.stale = @ \cup {p}]]
      BY <1>5, <2>1, SendSlot DEF PushInv
    <3> QED BY <1>2, <3>1, MadeStale
  <2>2. CASE ~(First(call) \/ Push!Outdated(call))
    <3>1. sends' = [s \in Sends |-> sends[s]]
      BY <1>5, <2>2
    <3> QED BY <2>2, <3>1 DEF PushInv, Push!TypeOK
  <2> QED BY <2>1, <2>2
<1>20. \A s \in Sends : sends[s].pc = "send" =>
         \/ p \in sends'[s].stale
         \/ q.token = phone[p].token /\ Registered(p)' => Registered(p) /\ q.user = phone[p].user
  BY <1>10, <1>13, <1>19
<1>21. HandledType' /\ Push!HandledByItsUser'
  BY <1>1, NobodyCalled
<1>22. \A s \in Sends :
         /\ sends'[s].pc = sends[s].pc
         /\ sends[s].pc # "idle" => /\ sends'[s].tokens = sends[s].tokens
                                    /\ sends'[s].message = sends[s].message
                                    /\ sends[s].stale \subseteq sends'[s].stale
         /\ sends[s].pc = "send" =>
              \/ p \in sends'[s].stale
              \/ q.token = phone[p].token /\ Registered(p)' =>
                   Registered(p) /\ q.user = phone[p].user
  BY <1>19, <1>20
<1>23. /\ p \in Phones /\ q \in Push!Phone
       /\ UNCHANGED <<enabled, client>>
       /\ rows' \in [Push!Tokens -> [user : Users \cup {Push!Nobody}, isActive : BOOLEAN]]
       /\ sends' \in [Sends -> {Push!Idle} \cup Push!Send]
  BY <1>1, <1>2, <1>10, <1>12, <1>19
<1> QED BY <1>11, <1>14, <1>15, <1>16, <1>17, <1>18, <1>21, <1>22, <1>23, PhoneStep

LEMMA PreferenceIsSet ==
  ASSUME PushInv, NEW u \in Users, Push!SetEnabled(u)
  PROVE  PushInv'
<1>1. UNCHANGED <<rows, client, phone, calls, sends>> /\ handled' = {}
  BY DEF Push!SetEnabled
<1>2. enabled' \in [Users -> BOOLEAN]
  BY DEF Push!SetEnabled, PushInv, Push!TypeOK
<1>3. Push!TypeOK' /\ Push!HandledByItsUser'
  BY <1>1, <1>2, NobodyCalled DEF PushInv, Push!TypeOK
<1>4. \A s \in Sends : SendKnows(s)'
  BY <1>1 DEF PushInv, SendKnows, Registered, Push!Listening
<1> QED BY <1>1, <1>3, <1>4, ServiceStep

(* A step of one delivery, which then is d.                                 *)
LEMMA SendStep ==
  ASSUME PushInv, NEW s \in Sends, NEW d \in {Push!Idle} \cup Push!Send,
         sends' = [sends EXCEPT ![s] = d],
         UNCHANGED <<rows, enabled, client, phone, calls>>,
         SendKnows(s)', HandledType', Push!HandledByItsUser'
  PROVE  PushInv'
<1>1. sends' \in [Sends -> {Push!Idle} \cup Push!Send] /\ \A x \in Sends \ {s} : sends'[x] = sends[x]
  BY DEF PushInv, Push!TypeOK
<1>2. Push!TypeOK'
  BY <1>1 DEF PushInv, Push!TypeOK, HandledType
<1>3. \A x \in Sends : SendKnows(x)'
  BY <1>1 DEF PushInv, SendKnows, Registered, Push!Listening
<1> QED BY <1>2, <1>3, ServiceStep

LEMMA DeliveryBegins ==
  ASSUME PushInv, NEW s \in Sends, NEW u \in Users, NEW kind \in Kinds, Push!BeginSend(s, u, kind),
         Push!PushAssumption
  PROVE  PushInv'
<1> DEFINE d == [pc |-> "send", message |-> [kind |-> kind, to |-> u],
                 tokens |-> Push!ActiveTokens(u), stale |-> {}]
<1>1. /\ sends' = [sends EXCEPT ![s] = d]
      /\ UNCHANGED <<rows, enabled, client, phone, calls>> /\ handled' = {}
  BY DEF Push!BeginSend
<1>2. /\ d \in Push!Send /\ d.pc = "send" /\ d.message.to = u
      /\ d.tokens = Push!ActiveTokens(u)
  BY DEF Push!Send, Push!Message, Push!ActiveTokens
<1> HIDE DEF d
<1>3. sends'[s] = d
  BY <1>1 DEF PushInv, Push!TypeOK
<1>4. ASSUME NEW t \in Push!ActiveTokens(u)
      PROVE  /\ t[2] <= phone[t[1]].token
             /\ t[2] = phone[t[1]].token /\ Registered(t[1]) => phone[t[1]].user = u
  <2>1. /\ t \in Push!Tokens /\ rows[t].user = u /\ rows[t].isActive
        /\ t[1] \in Phones /\ t[2] \in 1..MaxToken /\ t = <<t[1], t[2]>>
    BY DEF Push!ActiveTokens, Push!Tokens
  <2>2. phone[t[1]].token \in 1..MaxToken /\ u # Push!Nobody
    BY <2>1, PhoneType DEF Push!PushAssumption
  <2>3. rows[t] # NoRow
    BY <2>1, <2>2 DEF NoRow
  <2>4. t[2] <= phone[t[1]].token
    BY <2>1, <2>2, <2>3 DEF PushInv, TokensAreGiven
  <2>5. ASSUME t[2] = phone[t[1]].token, Registered(t[1])
        PROVE  phone[t[1]].user = u
    <3>1. Reachable(t[1]) /\ t = <<t[1], phone[t[1]].token>>
      BY <2>1, <2>5 DEF PushInv
    <3> QED BY <2>1, <2>2, <2>5, <3>1 DEF Reachable
  <2> QED BY <2>4, <2>5
<1>5. SendKnows(s)'
  BY <1>1, <1>2, <1>3, <1>4 DEF SendKnows, Registered, Push!Listening
<1> QED BY <1>1, <1>2, <1>5, NobodyCalled, SendStep

LEMMA ClientIsResolved ==
  ASSUME PushInv, NEW s \in Sends, Push!ResolveClient(s)
  PROVE  PushInv'
<1>1. /\ UNCHANGED <<rows, enabled, phone, calls, sends>> /\ handled' = {}
      /\ client' \in {"undefined", "null", "ready"}
  BY DEF Push!ResolveClient
<1>2. Push!TypeOK' /\ Push!HandledByItsUser'
  BY <1>1, NobodyCalled DEF PushInv, Push!TypeOK
<1>3. \A x \in Sends : SendKnows(x)'
  BY <1>1 DEF PushInv, SendKnows, Registered, Push!Listening
<1> QED BY <1>1, <1>2, <1>3, ServiceStep

LEMMA NothingIsSent ==
  ASSUME PushInv, NEW s \in Sends, Push!SendNothing(s)
  PROVE  PushInv'
<1>1. /\ UNCHANGED <<rows, enabled, client, phone, calls>> /\ handled' = {}
      /\ sends' = [sends EXCEPT ![s] = Push!Idle]
  BY DEF Push!SendNothing
<1>2. SendKnows(s)'
  <2>1. sends'[s] = Push!Idle
    BY <1>1 DEF PushInv, Push!TypeOK
  <2> QED BY <2>1 DEF SendKnows, Push!Idle
<1> QED BY <1>1, <1>2, NobodyCalled, SendStep

LEMMA InvalidIsSwitchedOff ==
  ASSUME PushInv, NEW s \in Sends, Push!DeactivateInvalid(s)
  PROVE  PushInv'
<1> DEFINE to == sends[s].message.to
           tokens == sends[s].tokens
<1>1. /\ UNCHANGED <<enabled, client, phone, calls>> /\ handled' = {}
      /\ sends' = [sends EXCEPT ![s] = Push!Idle] /\ sends[s].pc = "deactivate"
      /\ rows' = [t \in Push!Tokens |-> IF t \in tokens /\ rows[t].user = to
                                        THEN [rows[t] EXCEPT !.isActive = FALSE] ELSE rows[t]]
  BY DEF Push!DeactivateInvalid, Push!Deactivated
<1>2. \A t \in tokens : /\ t \in Push!Tokens /\ t[1] \in Phones /\ t[2] \in 1..MaxToken
                        /\ t[2] < phone[t[1]].token
  <2>1. sends[s] \in Push!Send /\ SendKnows(s)
    BY <1>1, SendSlot DEF PushInv
  <2> QED BY <1>1, <2>1 DEF Push!Send, Push!Tokens, SendKnows
<1> HIDE DEF tokens, to
<1>3. /\ sends' \in [Sends -> {Push!Idle} \cup Push!Send] /\ sends'[s] = Push!Idle
      /\ \A x \in Sends \ {s} : sends'[x] = sends[x]
  BY <1>1 DEF PushInv, Push!TypeOK
<1>4. /\ rows' \in [Push!Tokens -> [user : Users \cup {Push!Nobody}, isActive : BOOLEAN]]
      /\ \A t \in Push!Tokens \ tokens : rows'[t] = rows[t]
  <2>1. rows \in [Push!Tokens -> [user : Users \cup {Push!Nobody}, isActive : BOOLEAN]]
    BY DEF PushInv, Push!TypeOK
  <2> QED BY <1>1, <2>1
<1>5. \A p \in Phones : /\ <<p, phone[p].token>> \in Push!Tokens
                        /\ <<p, phone[p].token>> \notin tokens
  <2>1. SUFFICES ASSUME NEW p \in Phones
                 PROVE  /\ <<p, phone[p].token>> \in Push!Tokens
                        /\ <<p, phone[p].token>> \notin tokens
    OBVIOUS
  <2>2. phone[p].token \in 1..MaxToken
    BY PhoneType
  <2> QED BY <1>2, <2>2 DEF Push!Tokens
<1>6. \A t \in Push!Tokens : t[2] > phone[t[1]].token => t \notin tokens
  <2>1. SUFFICES ASSUME NEW t \in tokens, t[2] > phone[t[1]].token
                 PROVE  FALSE
    OBVIOUS
  <2>2. t[2] < phone[t[1]].token /\ t[2] \in Int /\ phone[t[1]].token \in Int
    BY <1>2, PhoneType
  <2> QED BY <2>1, <2>2
<1>7. Push!TypeOK' /\ Push!HandledByItsUser'
  BY <1>1, <1>3, <1>4, NobodyCalled DEF PushInv, Push!TypeOK, HandledType
<1>8. \A x \in Sends : SendKnows(x)'
  BY <1>1, <1>3 DEF PushInv, SendKnows, Registered, Push!Listening, Push!Idle
<1> QED BY <1>1, <1>4, <1>5, <1>6, <1>7, <1>8, ServiceStep

(* The tapped phones get another first notification; nothing else of a      *)
(* phone changes.                                                           *)
LEMMA Tapped ==
  ASSUME PushInv, NEW tapped, tapped \in SUBSET Phones, NEW m \in Push!Message,
         phone' = [p \in Phones |-> IF p \in tapped THEN [phone[p] EXCEPT !.initial = m]
                                    ELSE phone[p]]
  PROVE  /\ phone' \in [Phones -> Push!Phone]
         /\ \A p \in Phones : /\ phone'[p].pc = phone[p].pc /\ phone'[p].user = phone[p].user
                              /\ phone'[p].token = phone[p].token
                              /\ phone'[p].known = phone[p].known
<1>1. ASSUME NEW p \in Phones
      PROVE  /\ phone'[p] \in Push!Phone
             /\ phone'[p].pc = phone[p].pc /\ phone'[p].user = phone[p].user
             /\ phone'[p].token = phone[p].token /\ phone'[p].known = phone[p].known
  <2>1. phone[p] \in Push!Phone
    BY PhoneType
  <2>2. phone'[p] = IF p \in tapped THEN [phone[p] EXCEPT !.initial = m] ELSE phone[p]
    OBVIOUS
  <2> QED BY <2>1, <2>2 DEF Push!Phone
<1>2. phone' = [p \in Phones |-> phone'[p]]
  OBVIOUS
<1> QED BY <1>1, <1>2

LEMMA MessageIsSent ==
  ASSUME PushInv, Push!PushAssumption, NEW s \in Sends, Push!Multicast(s)
  PROVE  PushInv'
<1> DEFINE send == sends[s]
           invalid == Push!Invalid(send.tokens)
           reached == {t[1] : t \in send.tokens \ invalid}
           fresh(p) == p \notin send.stale /\ phone[p].known = phone[p].token
           d == [send EXCEPT !.pc = "deactivate", !.tokens = invalid]
<1>1. /\ UNCHANGED <<rows, enabled, client, calls>> /\ send.pc = "send"
      /\ handled' = {Push!Handling(p, send.message, fresh(p)) :
                       p \in {q \in reached : Push!Listening(q)}}
      /\ sends' = [sends EXCEPT ![s] = IF invalid = {} THEN Push!Idle ELSE d]
  BY DEF Push!Multicast
<1>2. /\ send \in Push!Send /\ send.message \in Push!Message /\ send.message.to \in Users
      /\ send.tokens \subseteq Push!Tokens
      /\ SendKnows(s)
  BY <1>1, SendSlot DEF PushInv, Push!Send, Push!Message
<1>3. /\ invalid = {t \in send.tokens : phone[t[1]].token # t[2]}
      /\ reached \subseteq Phones
  BY <1>2 DEF Push!Invalid, Push!Tokens
<1>4. PICK tapped \in SUBSET {p \in reached : phone[p].pc = "off"} :
        phone' = [p \in Phones |-> IF p \in tapped THEN [phone[p] EXCEPT !.initial = send.message]
                                   ELSE phone[p]]
  BY DEF Push!Multicast
<1>5. /\ phone' \in [Phones -> Push!Phone]
      /\ \A p \in Phones : /\ phone'[p].pc = phone[p].pc /\ phone'[p].user = phone[p].user
                           /\ phone'[p].token = phone[p].token
                           /\ phone'[p].known = phone[p].known
  <2>1. tapped \in SUBSET Phones
    BY <1>3
  <2> QED BY <1>2, <1>4, <2>1, Tapped
<1>6. d \in Push!Send /\ d.pc = "deactivate" /\ d.tokens = invalid
  <2> DEFINE e == [send EXCEPT !.pc = "deactivate"]
  <2>1. e \in Push!Send /\ e.pc = "deactivate"
    BY <1>2 DEF Push!Send
  <2>2. d = [e EXCEPT !.tokens = invalid]
    BY <1>2 DEF Push!Send
  <2>3. invalid \in SUBSET Push!Tokens
    BY <1>2, <1>3
  <2> HIDE DEF e, d, invalid
  <2> QED BY <2>1, <2>2, <2>3 DEF Push!Send
<1>7. /\ sends' \in [Sends -> {Push!Idle} \cup Push!Send]
      /\ sends'[s] = IF invalid = {} THEN Push!Idle ELSE d
      /\ \A x \in Sends \ {s} : sends'[x] = sends[x]
  <2> HIDE DEF d, invalid, send
  <2> QED BY <1>1, <1>6 DEF PushInv, Push!TypeOK
<1>8. ASSUME NEW h \in handled'
      PROVE  /\ h.callback \in Push!Callbacks /\ h.kind \in Kinds
             /\ {h.user, h.to} \subseteq Users /\ h.fresh \in BOOLEAN
             /\ h.fresh => h.user = h.to
  <2>1. PICK p \in reached : Push!Listening(p) /\ h = Push!Handling(p, send.message, fresh(p))
    BY <1>1
  <2>2. p \in Phones /\ phone[p].user \in Users
    BY <1>3, <2>1, PhoneType DEF Push!Listening
  <2>3. fresh(p) \in BOOLEAN
    OBVIOUS
  <2>4. fresh(p) => phone[p].user = send.message.to
    <3>1. PICK t \in send.tokens : t[1] = p /\ phone[p].token = t[2]
      BY <1>3, <2>1
    <3>2. fresh(p) => Registered(p)
      BY <2>1 DEF Registered
    <3> QED BY <1>1, <1>2, <3>1, <3>2 DEF SendKnows
  <2> DEFINE f == fresh(p)
             m == send.message
  <2>5. h = Push!Handling(p, m, f) /\ m \in Push!Message /\ f \in BOOLEAN
    BY <1>2, <2>1, <2>3
  <2>6. f => phone[p].user = m.to
    BY <2>4
  <2> HIDE DEF f, m
  <2>7. /\ h.callback \in Push!Callbacks /\ h.kind \in Kinds
        /\ {h.user, h.to} \subseteq Users /\ h.fresh \in BOOLEAN
        /\ h.fresh = f /\ h.user = phone[p].user /\ h.to = m.to
    BY <2>2, <2>5, HandlingIsTyped
  <2> QED BY <2>6, <2>7
<1>9. HandledType' /\ Push!HandledByItsUser'
  BY <1>8 DEF HandledType, Push!HandledByItsUser
<1>10. Push!TypeOK'
  BY <1>1, <1>5, <1>7, <1>9 DEF PushInv, Push!TypeOK, HandledType
<1>11. TokensAreGiven'
  <2>1. ASSUME NEW call \in calls'
        PROVE  call.token[2] <= phone'[call.token[1]].token
    BY <1>1, <1>5, <2>1, CallType
  <2>2. \A t \in Push!Tokens : t[1] \in Phones
    BY DEF Push!Tokens
  <2>3. \A t \in Push!Tokens : t[2] > phone'[t[1]].token => rows'[t] = NoRow
    BY <1>1, <1>5, <2>2 DEF PushInv, TokensAreGiven
  <2> QED BY <2>1, <2>3 DEF TokensAreGiven, NoRow
<1>12. \A p \in Phones : Registered(p)' <=> Registered(p)
  BY <1>5 DEF Registered, Push!Listening
<1>13. \A p \in Phones : Reachable(p)'
  <2>1. SUFFICES ASSUME NEW p \in Phones
                 PROVE  Reachable(p)'
    OBVIOUS
  <2>2. Reachable(p)
    BY DEF PushInv
  <2> QED BY <1>1, <1>5, <1>12, <2>2 DEF Reachable
<1>14. ASSUME NEW x \in Sends
       PROVE  SendKnows(x)'
  <2>1. CASE x = s
    <3>1. CASE invalid = {}
      BY <1>7, <2>1, <3>1 DEF SendKnows, Push!Idle
    <3>2. CASE invalid # {}
      <4>1. sends'[s].pc = "deactivate" /\ sends'[s].tokens = invalid
        BY <1>6, <1>7, <3>2
      <4>2. ASSUME NEW t \in invalid
            PROVE  t[2] < phone'[t[1]].token
        <5>1. t \in send.tokens /\ phone[t[1]].token # t[2]
          BY <1>3
        <5>2. t[1] \in Phones /\ t[2] \in 1..MaxToken
          BY <1>2, <5>1 DEF Push!Tokens
        <5>3. phone[t[1]].token \in 1..MaxToken /\ phone'[t[1]].token = phone[t[1]].token
          BY <1>5, <5>2, PhoneType
        <5>4. t[2] <= phone[t[1]].token
          BY <1>1, <1>2, <5>1 DEF SendKnows
        <5> DEFINE n == t[2]
                   k == phone[t[1]].token
        <5>5. n \in Int /\ k \in Int /\ n <= k /\ n # k /\ phone'[t[1]].token = k
          BY <5>1, <5>2, <5>3, <5>4
        <5> HIDE DEF n, k
        <5>6. n < phone'[t[1]].token
          BY <5>5
        <5> QED BY <5>6 DEF n
      <4> HIDE DEF invalid
      <4> QED BY <2>1, <4>1, <4>2 DEF SendKnows
    <3> QED BY <3>1, <3>2
  <2>2. CASE x # s
    <3>1. sends'[x] = sends[x] /\ SendKnows(x)
      BY <1>7, <2>2 DEF PushInv
    <3>2. sends[x].pc # "idle" => \A t \in sends[x].tokens : t[1] \in Phones
      BY SendSlot DEF PushInv, Push!Send, Push!Tokens
    <3>3. sends'[x].pc = "deactivate" => \A t \in sends'[x].tokens : t[2] < phone'[t[1]].token
      BY <1>5, <3>1, <3>2 DEF SendKnows
    <3>4. sends'[x].pc = "send" =>
            \A t \in sends'[x].tokens :
              /\ t[2] <= phone'[t[1]].token
              /\ t[1] \notin sends'[x].stale /\ t[2] = phone'[t[1]].token /\ Registered(t[1])' =>
                   phone'[t[1]].user = sends'[x].message.to
      BY <1>5, <1>12, <3>1, <3>2 DEF SendKnows
    <3> QED BY <3>3, <3>4 DEF SendKnows
  <2> QED BY <2>1, <2>2
<1>15. \A p \in Phones : phone'[p].pc # "off" => phone'[p].user \in Users
  BY <1>5 DEF PushInv
<1>16. IsFiniteSet(calls')
  BY <1>1 DEF PushInv
<1> HIDE DEF reached, invalid, d, send
<1> QED BY <1>9, <1>10, <1>11, <1>13, <1>14, <1>15, <1>16 DEF PushInv

LEMMA PushBegins ==
  ASSUME Push!Init, Push!PushAssumption
  PROVE  PushInv
<1>1. IsFiniteSet(calls) /\ Cardinality(calls) = 0
  BY FS_EmptySet DEF Push!Init
<1>2. Push!TypeOK
  <2>1. phone \in [Phones -> Push!Phone]
    BY DEF Push!Init, Push!PushAssumption, Push!Phone, Push!Message
  <2>2. rows \in [Push!Tokens -> [user : Users \cup {Push!Nobody}, isActive : BOOLEAN]]
    BY DEF Push!Init
  <2> QED BY <1>1, <2>1, <2>2, SameCalls DEF Push!Init, Push!TypeOK, Push!PushAssumption
<1>3. TokensAreGiven /\ \A p \in Phones : Reachable(p)
  BY DEF Push!Init, TokensAreGiven, NoRow, Reachable, Registered, Push!Listening
<1>4. \A s \in Sends : SendKnows(s)
  BY DEF Push!Init, SendKnows, Push!Idle
<1> QED BY <1>1, <1>2, <1>3, <1>4 DEF Push!Init, PushInv, Push!HandledByItsUser

LEMMA PushContinues ==
  ASSUME PushInv, Push!PushAssumption, [Push!Next]_pushVars
  PROVE  PushInv'
<1>1. CASE Push!Next
  <2>1. ASSUME NEW call \in calls, Push!HandleCall(call) \/ Push!LoseCall(call)
        PROVE  PushInv'
    BY <2>1, RequestIsHandled, RequestIsLost
  <2>2. ASSUME NEW u \in Users, Push!SetEnabled(u)
        PROVE  PushInv'
    BY <2>2, PreferenceIsSet
  <2>3. ASSUME NEW s \in Sends, NEW u \in Users, NEW kind \in Kinds, Push!BeginSend(s, u, kind)
        PROVE  PushInv'
    BY <2>3, DeliveryBegins
  <2>4. ASSUME NEW s \in Sends, Push!ResolveClient(s)
        PROVE  PushInv'
    BY <2>4, ClientIsResolved
  <2>5. ASSUME NEW s \in Sends, Push!Multicast(s)
        PROVE  PushInv'
    BY <2>5, MessageIsSent
  <2>6. ASSUME NEW s \in Sends, Push!SendNothing(s)
        PROVE  PushInv'
    BY <2>6, NothingIsSent
  <2>7. ASSUME NEW s \in Sends, Push!DeactivateInvalid(s)
        PROVE  PushInv'
    BY <2>7, InvalidIsSwitchedOff
  <2>8. ASSUME NEW p \in Phones, NEW u \in Users, Push!Initialize(p, u)
        PROVE  PushInv'
    BY <2>8, RuntimeBegins
  <2>9. ASSUME NEW p \in Phones, Push!Refuse(p) \/ Push!RegisterToken(p) \/ Push!HandleInitial(p)
        PROVE  PushInv'
    BY <2>9, PermissionRefused, TokenIsRegistered, InitialIsHandled
  <2>10. ASSUME NEW p \in Phones, Push!RefreshToken(p) \/ Push!Unregister(p) \/ Push!Cleanup(p)
         PROVE  PushInv'
    BY <2>10, TokenIsReplaced, TokenIsTakenOff, RuntimeEnds
  <2> QED BY <1>1, <2>1, <2>2, <2>3, <2>4, <2>5, <2>6, <2>7, <2>8, <2>9, <2>10 DEF Push!Next
<1>2. CASE UNCHANGED pushVars
  <2>1. UNCHANGED <<rows, enabled, client, phone, calls, sends, handled>>
    BY <1>2 DEF pushVars
  <2>2. Push!TypeOK' /\ Push!HandledByItsUser'
    BY <2>1 DEF PushInv, Push!TypeOK, Push!HandledByItsUser
  <2>3. \A s \in Sends : SendKnows(s)'
    BY <2>1 DEF PushInv, SendKnows, Registered, Push!Listening
  <2> QED BY <2>1, <2>2, <2>3, ServiceStep
<1> QED BY <1>1, <1>2

LEMMA PushIsSound ==
  ASSUME PushInv
  PROVE  Push!TypeOK /\ Push!PhoneIsReachable /\ Push!HandledByItsUser
<1>1. ASSUME NEW p \in Phones, Push!Listening(p), phone[p].known = phone[p].token
      PROVE  \/ rows[<<p, phone[p].token>>] = [user |-> phone[p].user, isActive |-> TRUE]
             \/ \E call \in calls : call.op = "register" /\ call.token = <<p, phone[p].token>>
                                    /\ call.user = phone[p].user
  BY <1>1 DEF PushInv, Reachable, Registered
<1> QED BY <1>1 DEF PushInv, Push!PhoneIsReachable

-----------------------------------------------------------------------------
(* The app                                                                 *)

(* The part that a behaviour is of keeps its invariant.                     *)
PartsInv ==
  /\ part = "map" => MapInv
  /\ part = "favorites" => FavoritesInv
  /\ part = "forms" => FormsInv
  /\ part = "rooms" => RoomsInv
  /\ part = "push" => PushInv

LEMMA PartsBegin ==
  Init => PartsInv
BY MobileAssumptions, MapBegins, FavoritesBegin, FormsBegin, RoomsBegin, PushBegins
   DEF Init, PartsInv

LEMMA PartsContinue ==
  PartsInv /\ [Next]_vars => PartsInv'
<1>1. SUFFICES ASSUME PartsInv, [Next]_vars
               PROVE  PartsInv'
  OBVIOUS
<1>2. part = "map" => MapInv'
  BY <1>1, PartStep, MobileAssumptions, MapContinues DEF PartsInv
<1>3. part = "favorites" => FavoritesInv'
  BY <1>1, PartStep, MobileAssumptions, FavoritesContinue DEF PartsInv
<1>4. part = "forms" => FormsInv'
  BY <1>1, PartStep, MobileAssumptions, FormsContinue DEF PartsInv
<1>5. part = "rooms" => RoomsInv'
  BY <1>1, PartStep, MobileAssumptions, RoomsContinue DEF PartsInv
<1>6. part = "push" => PushInv'
  BY <1>1, PartStep, MobileAssumptions, PushContinues DEF PartsInv
<1> QED BY <1>1, <1>2, <1>3, <1>4, <1>5, <1>6, PartStep DEF PartsInv

(* Every variable of the app keeps its type, in each of its parts.          *)
THEOREM TypesHold ==
  Spec => []TypeOK
<1>1. PartsInv => TypeOK
  BY FormsAreSound, PushIsSound DEF PartsInv, TypeOK, MapInv, FavoritesInv, RoomsInv
<1> QED BY <1>1, PartsBegin, PartsContinue, PTL DEF Spec

(* A screen shows what its user has asked for, however late the answers to  *)
(* its requests come: the sheet its own station, the list the current       *)
(* query, both screens the favourites that are stored; and each screen of   *)
(* the onboarding finds what it needs, and claims only what is true.        *)
THEOREM ScreensStayCurrent ==
  Spec => []ScreensAreCurrent
<1>1. PartsInv => ScreensAreCurrent
  BY FormsAreSound DEF PartsInv, ScreensAreCurrent, MapInv, FavoritesInv
<1> QED BY <1>1, PartsBegin, PartsContinue, PTL DEF Spec

(* A client is in the rooms it listens to once its events are handled, and  *)
(* a push notification reaches the phone of its user and no other, across   *)
(* reconnections, requests that are late or lost, and new tokens.           *)
THEOREM UpdatesReachOnlyTheirUser ==
  Spec => []UpdatesReachTheirUser
<1>1. PartsInv => UpdatesReachTheirUser
  BY PushIsSound DEF PartsInv, UpdatesReachTheirUser, RoomsInv
<1> QED BY <1>1, PartsBegin, PartsContinue, PTL DEF Spec

=============================================================================
