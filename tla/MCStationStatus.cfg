\* One station with two connectors and one listing; two updates, one lookup at a time.
CONSTANTS
  Connectors = {c1, c2}
  Listings = {nearby}
  Updates = {u1, u2}
  Lookups = {l1}
  Reports = {"OCCUPIED", "OFFLINE"}

SPECIFICATION Spec

INVARIANTS
  TypeOK
  AggregateAsStated
  FavoritesMatchMap
  NoStaleWithoutRace

PROPERTY CachesCatchUp
