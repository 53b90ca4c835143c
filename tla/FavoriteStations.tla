-------------------------- MODULE FavoriteStations --------------------------
(***************************************************************************)
(* The favorite stations of the mobile app: a list kept in MMKV            *)
(* (features/favorites/favorites-storage.ts), the map, which toggles the   *)
(* selected station, and the favorites tab, which removes stations         *)
(* (favorites-screen.tsx, stations-screen.tsx).  Each screen shows a copy  *)
(* that it reads again when the storage calls its listener.                *)
(***************************************************************************)
EXTENDS Integers, Sequences

CONSTANTS
  Stations,   \* ids of stations
  MaxClock    \* bound on the clock

ClockAssumption == MaxClock \in Nat

Screens == {"map", "favorites"}

VARIABLES
  stored,      \* FAVORITE_STATIONS_STORAGE_KEY
  listening,   \* listeners: the screens that have subscribed
  shown,       \* shown[s]: the copy of a screen
  clock        \* milliseconds, coarsely

vars == <<stored, listening, shown, clock>>

Favorite == [station : Stations, createdAt : 0..MaxClock]

TypeOK ==
  /\ stored \in Seq(Favorite)
  /\ listening \subseteq Screens
  /\ shown \in [Screens -> Seq(Favorite)]
  /\ clock \in 0..MaxClock

Init ==
  /\ stored = <<>> /\ listening = {}
  /\ shown = [s \in Screens |-> <<>>]
  /\ clock = 0

-----------------------------------------------------------------------------
IsFavorite(s) == \E i \in DOMAIN stored : stored[i].station = s

\* writeFavorites, emitChange: every listener reads the list again.
Write(list) ==
  /\ stored' = list
  /\ shown' = [s \in Screens |-> IF s \in listening THEN list ELSE shown[s]]
  /\ UNCHANGED <<listening, clock>>

\* The filter of the list.
Without(s) ==
  LET kept[n \in 0..Len(stored)] ==
        IF n = 0 THEN <<>>
        ELSE IF stored[n].station # s THEN Append(kept[n - 1], stored[n]) ELSE kept[n - 1]
  IN  kept[Len(stored)]

\* Mutant: the new entry goes to the end.
SavedLast(s) == Append(Without(s), [station |-> s, createdAt |-> clock])

\* saveFavoriteStation: on top, with the date of the entry it replaces.
Saved(s) ==
  LET existing == CHOOSE i \in DOMAIN stored :
                    stored[i].station = s /\ \A j \in 1..(i - 1) : stored[j].station # s
      createdAt == IF IsFavorite(s) THEN stored[existing].createdAt ELSE clock
  IN  <<[station |-> s, createdAt |-> createdAt]>> \o Without(s)

\* A screen is mounted: it reads the list and subscribes.
Mount(s) ==
  /\ s \notin listening
  /\ listening' = listening \cup {s}
  /\ shown' = [shown EXCEPT ![s] = stored]
  /\ UNCHANGED <<stored, clock>>

Unmount(s) ==
  /\ s \in listening
  /\ listening' = listening \ {s}
  /\ UNCHANGED <<stored, shown, clock>>

\* handleToggleFavoriteStation
Toggle(s) ==
  /\ "map" \in listening
  /\ Write(IF IsFavorite(s) THEN Without(s) ELSE Saved(s))

\* The remove button of a card.
Remove(s) ==
  /\ "favorites" \in listening
  /\ \E i \in DOMAIN shown["favorites"] : shown["favorites"][i].station = s
  /\ Write(Without(s))

\* The app is closed and opened again: only MMKV is kept.
RestartApp ==
  /\ listening # {}
  /\ listening' = {} /\ shown' = [s \in Screens |-> <<>>]
  /\ UNCHANGED <<stored, clock>>

Tick == clock < MaxClock /\ clock' = clock + 1 /\ UNCHANGED <<stored, listening, shown>>

Next ==
  \/ \E s \in Screens : Mount(s) \/ Unmount(s)
  \/ \E s \in Stations : Toggle(s) \/ Remove(s)
  \/ RestartApp
  \/ Tick

Spec == Init /\ [][Next]_vars

-----------------------------------------------------------------------------
\* Every screen that is open shows what is stored, whichever screen changed it;
\* a station is listed once and the newest favorite comes first.
FavoritesAgree ==
  /\ \A s \in listening : shown[s] = stored
  /\ \A i, j \in DOMAIN stored :
       i < j => /\ stored[i].station # stored[j].station
                /\ stored[i].createdAt >= stored[j].createdAt

=============================================================================
