------------------------------ MODULE MCMobile ------------------------------
(***************************************************************************)
(* The parts of the mobile app for TLC: the station map, the favourites,   *)
(* the onboarding, the rooms of live updates and the push notifications.   *)
(* They share no state in the code, so that each behaviour is one of one   *)
(* part, which the initial state chooses; the others rest.                 *)
(***************************************************************************)
EXTENDS Integers, TLC

CONSTANTS
  Stations, Fallback, Inputs, Blank, MaxMapRequests,
  MaxClock,
  NewUsers, Gateways, Wirings, MaxScreens, MaxFormRequests,
  Clients, Sessions, MaxHandlers, MaxEvents,
  Users, Phones, Kinds, Sends, MaxToken, MaxPushRequests

VARIABLES
  part,
  input, debounced, filters, stations, answers, listFailed, refreshing, selected, detail,
  loading, detailFailed, camera, requests,
  stored, listening, shown, clock,
  stack, session, forms, api, sendsToken, finished, refused,
  link, rooms, events, handlers, disturbed,
  rows, enabled, client, phone, calls, sends, handled

\* One of the four dimensions of the filters has a choice.
Options == [connectorTypes |-> {}, minimumPowerKw |-> {"kW22"},
            availabilityStatuses |-> {}, operatorIds |-> {}]

Map == INSTANCE StationsScreen WITH MaxRequests <- MaxMapRequests, net <- requests
Favorites == INSTANCE FavoriteStations
Forms == INSTANCE Onboarding WITH Users <- NewUsers, MaxRequests <- MaxFormRequests, net <- forms
Rooms == INSTANCE MonitorRooms
Push == INSTANCE PushNotifications WITH MaxRequests <- MaxPushRequests

ASSUME MobileAssumptions ==
  /\ Map!ScreenAssumption /\ Favorites!ClockAssumption /\ Forms!OnboardingAssumption
  /\ Rooms!RoomsAssumption /\ Push!PushAssumption

mapVars == <<input, debounced, filters, stations, answers, listFailed, refreshing, selected,
             detail, loading, detailFailed, camera, requests>>
favoritesVars == <<stored, listening, shown, clock>>
formsVars == <<stack, session, forms, api, sendsToken, finished, refused>>
roomsVars == <<link, rooms, events, handlers, disturbed>>
pushVars == <<rows, enabled, client, phone, calls, sends, handled>>
vars == <<part, mapVars, favoritesVars, formsVars, roomsVars, pushVars>>

Init ==
  /\ part \in {"map", "favorites", "forms", "rooms", "push"}
  /\ Map!Init /\ Favorites!Init /\ Forms!Init /\ Rooms!Init /\ Push!Init
  /\ part # "forms" => ~sendsToken

MapStep == part = "map" /\ Map!Next
  /\ UNCHANGED <<part, favoritesVars, formsVars, roomsVars, pushVars>>
FavoritesStep == part = "favorites" /\ Favorites!Next
  /\ UNCHANGED <<part, mapVars, formsVars, roomsVars, pushVars>>
FormsStep == part = "forms" /\ Forms!Next
  /\ UNCHANGED <<part, mapVars, favoritesVars, roomsVars, pushVars>>
RoomsStep == part = "rooms" /\ Rooms!Next
  /\ UNCHANGED <<part, mapVars, favoritesVars, formsVars, pushVars>>
PushStep == part = "push" /\ Push!Next
  /\ UNCHANGED <<part, mapVars, favoritesVars, formsVars, roomsVars>>

Next == MapStep \/ FavoritesStep \/ FormsStep \/ RoomsStep \/ PushStep

\* The fairness of StationsScreen and of MonitorRooms, each in its own behaviours.
MapFairness ==
  \A r \in Map!Slots : WF_mapVars(part = "map" /\ (Map!AnswerList(r) \/ Map!AnswerDetail(r)))
RoomsFairness ==
  \A c \in Clients : WF_roomsVars(part = "rooms" /\ Rooms!Open(c))
                   /\ WF_roomsVars(part = "rooms" /\ Rooms!Handle(c))

Spec == Init /\ [][Next]_vars /\ MapFairness /\ RoomsFairness

-----------------------------------------------------------------------------
\* The types of the parts. A part at rest keeps its initial state, so that each
\* part is examined in its own behaviours only, here and below.
TypeOK ==
  /\ part = "map" => Map!TypeOK
  /\ part = "favorites" => Favorites!TypeOK
  /\ part = "forms" => Forms!TypeOK
  /\ part = "rooms" => Rooms!TypeOK
  /\ part = "push" => Push!TypeOK

\* A screen shows what its user has asked for, whatever answers come late: the
\* sheet its own station, the list the current query, the favourites on both
\* screens what is stored; the screens of the onboarding find what they need, and
\* what they claim is true.
ScreensAreCurrent ==
  /\ part = "map" => Map!SheetShowsItsStation /\ Map!ListIsCurrent
  /\ part = "favorites" => Favorites!FavoritesAgree
  /\ part = "forms" => Forms!FlowIsSound

\* Live updates and push notifications reach the client and the phone of their
\* user, and nobody else, across reconnections, late requests and new tokens.
UpdatesReachTheirUser ==
  /\ part = "rooms" => Rooms!RoomsFollowListeners
  /\ part = "push" => Push!PhoneIsReachable /\ Push!HandledByItsUser

\* Nothing is awaited for ever: the detail of the sheet, a room of a subscription.
WaitsEnd == Map!DetailSettles /\ Rooms!SubscriptionsArrive

=============================================================================
