--------------------------- MODULE StationsScreen ---------------------------
(***************************************************************************)
(* The station map of the mobile app: the list that a search or the        *)
(* filters ask for, refreshed by a timer, and the bottom sheet of the      *)
(* selected station, whose detail is a request of its own                  *)
(* (features/stations/stations-screen.tsx, station-filters.tsx,            *)
(* station-bottom-sheet.tsx, use-debounced-value.ts).                      *)
(* A state change, the render after it and the effects of that render are  *)
(* one step; requests are answered later and in any order.  A payload is   *)
(* the query it answers.                                                   *)
(***************************************************************************)
EXTENDS Integers

CONSTANTS
  Stations,     \* ids that the API may list
  Fallback,     \* FALLBACK_STATIONS
  Inputs,       \* texts of the search field
  Blank,        \* the inputs that are normalized to the empty text
  Options,      \* Options[d]: what can be selected in a dimension of the filters
  MaxRequests   \* bound on requests in flight

NoStation == "no station"
Dimensions == {"connectorTypes", "minimumPowerKw", "availabilityStatuses", "operatorIds"}

ScreenAssumption ==
  /\ Fallback \subseteq Stations /\ NoStation \notin Stations
  /\ Blank \subseteq Inputs /\ "" \in Blank
  /\ DOMAIN Options = Dimensions
  /\ MaxRequests \in Nat \ {0}

VARIABLES
  input, debounced,   \* the search field and its value of 350 ms ago
  filters,            \* filters[d]: what is selected
  stations,           \* ids of the listed stations
  answers,            \* history: the query that the list answers
  listFailed,         \* hasStationLoadError
  refreshing,         \* isRefreshingStations
  selected,           \* selectedStationId
  detail,             \* selectedStationDetail
  loading,            \* isLoadingSelectedStationDetail
  detailFailed,       \* hasSelectedStationDetailLoadError
  camera,             \* the station the camera is focused on
  net                 \* requests in flight

listVars == <<stations, answers, listFailed, refreshing>>
detailVars == <<selected, detail, loading, detailFailed>>
vars == <<input, debounced, filters, listVars, detailVars, camera, net>>

-----------------------------------------------------------------------------
(* Queries                                                                 *)

\* buildDefaultStationFilters
NoFilters == [d \in Dimensions |-> {}]

\* hasAnyStationFilters, hasAnyActiveFilters
AnyFilter(f) == \E d \in Dimensions : f[d] # {}

\* A search leaves the filters out.
ListQuery(q, f) ==
  IF q \in Blank THEN [search |-> "", filters |-> f] ELSE [search |-> q, filters |-> NoFilters]

\* getStationDetail: two of the filters restrict the connectors.
DetailQuery(s, f) ==
  [station |-> s, connectorTypes |-> f["connectorTypes"], power |-> f["minimumPowerKw"]]

NoQuery == [station |-> NoStation, connectorTypes |-> {}, power |-> {}]
NoList == [search |-> NoStation, filters |-> NoFilters]

Filters == {f \in [Dimensions -> UNION {SUBSET Options[d] : d \in Dimensions}] :
              \A d \in Dimensions : f[d] \subseteq Options[d]}
ListQueries == {ListQuery(q, f) : q \in Inputs, f \in Filters}
DetailQueries == {DetailQuery(s, f) : s \in Stations, f \in Filters}

Slots == 1..MaxRequests
Idle == [kind |-> "idle"]
Request(kind, query) == [kind |-> kind, query |-> query, mounted |-> TRUE]

\* The clean-up of an effect: its requests go on, but their answers are dropped.
Unmounted(n, kind) ==
  [r \in Slots |-> IF n[r].kind = kind THEN [n[r] EXCEPT !.mounted = FALSE] ELSE n[r]]

CanSend(n) == \E r \in Slots : n[r] = Idle
Sent(n, request) ==
  LET r == CHOOSE i \in Slots : n[i] = Idle /\ \A j \in Slots : n[j] = Idle => i <= j
  IN  [n EXCEPT ![r] = request]

TypeOK ==
  /\ input \in Inputs /\ debounced \in Inputs
  /\ filters \in Filters
  /\ stations \subseteq Stations
  /\ answers \in ListQueries \cup {NoList}
  /\ selected \in stations \cup {NoStation}
  /\ detail \in DetailQueries \cup {NoQuery}
  /\ camera \in Stations \cup {NoStation}
  /\ {listFailed, refreshing, loading, detailFailed} \subseteq BOOLEAN
  /\ \A r \in Slots :
       \/ net[r] = Idle
       \/ /\ net[r].kind = "list" /\ net[r].query \in ListQueries
          /\ net[r].mounted \in BOOLEAN
       \/ /\ net[r].kind = "detail" /\ net[r].query \in DetailQueries
          /\ net[r].mounted \in BOOLEAN

Init ==
  /\ input = "" /\ debounced = ""
  /\ filters = NoFilters
  /\ stations = Fallback /\ answers = NoList
  /\ listFailed = FALSE /\ refreshing = TRUE
  /\ selected = NoStation /\ detail = NoQuery
  /\ loading = FALSE /\ detailFailed = FALSE
  /\ camera = NoStation
  /\ net = Sent([r \in Slots |-> Idle], Request("list", ListQuery("", NoFilters)))

-----------------------------------------------------------------------------
(* Effects                                                                 *)

\* Mutant: the effect depends on the search only.
RefetchedForSearch(n, q, f) ==
  IF q = debounced THEN n
  ELSE Sent(Unmounted(n, "list"), Request("list", ListQuery(q, f)))

\* The effect of [debouncedSearchQuery, stationFilters], up to its request.
Refetched(n, q, f) == Sent(Unmounted(n, "list"), Request("list", ListQuery(q, f)))

\* The effect of [selectedStationId, stationFilters]: s is selected under f,
\* and n is what the other effects left of the requests.
DetailEffect(s, f, n) ==
  /\ selected' = s
  /\ detailFailed' = FALSE
  /\ IF s = NoStation
       THEN /\ detail' = NoQuery /\ loading' = FALSE
            /\ net' = Unmounted(n, "detail")
       ELSE /\ CanSend(n)
            /\ loading' = TRUE /\ UNCHANGED detail
            /\ net' = Sent(Unmounted(n, "detail"), Request("detail", DetailQuery(s, f)))

\* The effect of [selectedStationId, stations]: listed is the new list.
DeselectEffect(listed, n) ==
  IF selected \in listed \cup {NoStation}
    THEN net' = n /\ UNCHANGED detailVars
    ELSE DetailEffect(NoStation, filters, n)

-----------------------------------------------------------------------------
(* The user and the timers                                                 *)

Type(text) ==
  /\ text # input
  /\ input' = text
  /\ UNCHANGED <<debounced, filters, listVars, detailVars, camera, net>>

\* useDebouncedValue: 350 ms without a key.
Debounce ==
  /\ input # debounced
  /\ CanSend(net)
  /\ debounced' = input
  /\ net' = Refetched(net, input, filters)
  /\ UNCHANGED <<input, filters, listVars, detailVars, camera>>

\* toggleSelection; a power step replaces the one before.
Toggled(d, option) ==
  IF d = "minimumPowerKw" THEN {option}
  ELSE IF option \in filters[d] THEN filters[d] \ {option} ELSE filters[d] \cup {option}

ChangeFilters(f) ==
  /\ f # filters
  /\ CanSend(net)
  /\ filters' = f
  /\ LET n == Refetched(net, debounced, f)
     IN  IF selected = NoStation
           THEN net' = n /\ UNCHANGED detailVars
           ELSE DetailEffect(selected, f, n)
  /\ UNCHANGED <<input, debounced, listVars, camera>>

\* The chips of StationFilters, the power step of any power, and clear.
PickFilter ==
  \/ \E d \in Dimensions : \E option \in Options[d] :
       ChangeFilters([filters EXCEPT ![d] = Toggled(d, option)])
  \/ ChangeFilters([filters EXCEPT !["minimumPowerKw"] = {}])
  \/ ChangeFilters(NoFilters)

\* setInterval(refreshStations): the effect's own query once more.
RefreshTimer ==
  /\ CanSend(net)
  /\ net' = Sent(net, Request("list", ListQuery(debounced, filters)))
  /\ UNCHANGED <<input, debounced, filters, listVars, detailVars, camera>>

\* handleShapeSourcePress: the event may name a station that a refresh has
\* just taken off the list, and the effects deselect it at once.
Press(s) ==
  /\ s # selected
  /\ DetailEffect(IF s \in stations THEN s ELSE NoStation, filters, net)
  /\ camera' = IF s \in stations THEN s ELSE camera
  /\ UNCHANGED <<input, debounced, filters, listVars>>

\* handleCloseBottomSheetPress
CloseSheet ==
  /\ selected # NoStation
  /\ DetailEffect(NoStation, filters, net)
  /\ UNCHANGED <<input, debounced, filters, listVars, camera>>

\* handleRecenterMapPress, handleFocusSelectedStationPress
MoveCamera ==
  /\ camera' \in {NoStation, selected}
  /\ camera' # camera
  /\ UNCHANGED <<input, debounced, filters, listVars, detailVars, net>>

-----------------------------------------------------------------------------
(* The API answers or fails                                                *)

\* refreshStations after its await: without filters and search, the answer of
\* no station is replaced by the fallback list.
AnswerList(r) ==
  /\ net[r].kind = "list"
  /\ LET n == [net EXCEPT ![r] = Idle]
     IN  \/ /\ net[r].mounted
            /\ \E listed \in SUBSET Stations :
                 /\ stations' = IF listed # {} \/ AnyFilter(filters) \/ debounced \notin Blank
                                  THEN listed ELSE Fallback
                 /\ DeselectEffect(stations', n)
            /\ answers' = net[r].query
            /\ listFailed' = FALSE /\ refreshing' = FALSE
         \/ /\ net[r].mounted
            /\ listFailed' = TRUE /\ refreshing' = FALSE
            /\ net' = n
            /\ UNCHANGED <<stations, answers, detailVars>>
         \/ /\ ~net[r].mounted
            /\ net' = n
            /\ UNCHANGED <<listVars, detailVars>>
  /\ UNCHANGED <<input, debounced, filters, camera>>

\* Mutant: the check of isMounted after the await is missing.
AnswerDetailUnmounted(r) ==
  /\ net[r].kind = "detail"
  /\ net' = [net EXCEPT ![r] = Idle]
  /\ detail' = net[r].query /\ loading' = FALSE
  /\ UNCHANGED <<input, debounced, filters, listVars, selected, detailFailed, camera>>

\* Mutant: a failed request leaves the sheet loading.
AnswerDetailStuck(r) ==
  /\ net[r].kind = "detail"
  /\ net' = [net EXCEPT ![r] = Idle]
  /\ \/ net[r].mounted /\ detail' = net[r].query /\ loading' = FALSE /\ UNCHANGED detailFailed
     \/ net[r].mounted /\ detail' = NoQuery /\ detailFailed' = TRUE /\ UNCHANGED loading
     \/ ~net[r].mounted /\ UNCHANGED <<detail, detailFailed, loading>>
  /\ UNCHANGED <<input, debounced, filters, listVars, selected, camera>>

\* refreshSelectedStationDetail after its await.
AnswerDetail(r) ==
  /\ net[r].kind = "detail"
  /\ net' = [net EXCEPT ![r] = Idle]
  /\ \/ /\ net[r].mounted
        /\ \/ detail' = net[r].query /\ UNCHANGED detailFailed
           \/ detail' = NoQuery /\ detailFailed' = TRUE
        /\ loading' = FALSE
     \/ ~net[r].mounted /\ UNCHANGED <<detail, detailFailed, loading>>
  /\ UNCHANGED <<input, debounced, filters, listVars, selected, camera>>

Next ==
  \/ \E text \in Inputs : Type(text)
  \/ Debounce
  \/ PickFilter
  \/ RefreshTimer
  \/ \E s \in Stations : Press(s)
  \/ CloseSheet
  \/ MoveCamera
  \/ \E r \in Slots : AnswerList(r) \/ AnswerDetail(r)

\* A request is answered or fails at last; nothing forces the user.
Fairness == \A r \in Slots : WF_vars(AnswerList(r) \/ AnswerDetail(r))

Spec == Init /\ [][Next]_vars /\ Fairness

-----------------------------------------------------------------------------
(* What the sheet shows: connectors, prices and reviews unless it says that
   they are loading or could not be loaded, and a badge of active filters. *)

SheetOpen == selected \in stations
SheetShowsConnectors == SheetOpen /\ ~loading /\ ~detailFailed

\* The connectors on the sheet are those of the station it is open for, under
\* the filters that are set, whatever was selected and asked for before.
SheetShowsItsStation ==
  /\ SheetShowsConnectors => detail = DetailQuery(selected, filters)
  /\ ~SheetOpen => detail = NoQuery /\ ~loading

\* A list that answers another query than the one on the screen is shown only
\* while an answer is awaited that replaces it, or with the error message.
ListIsCurrent ==
  answers = ListQuery(debounced, filters) \/ listFailed
    \/ \E r \in Slots : net[r] = Request("list", ListQuery(debounced, filters))

\* The sheet does not load for ever, unless the user goes on to something else.
DetailSettles ==
  \A q \in DetailQueries :
    (loading /\ DetailQuery(selected, filters) = q)
       ~> (~loading \/ DetailQuery(selected, filters) # q)

=============================================================================
