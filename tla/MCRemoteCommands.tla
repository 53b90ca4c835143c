------------------------- MODULE MCRemoteCommands --------------------------
(* Clients, users, commands and request slots are interchangeable; the     *)
(* records a link chooses among have different places in the map's order.  *)
EXTENDS RemoteCommands, TLC
Symmetry == Permutations(Clients) \cup Permutations(IdTags)
              \cup Permutations(RemoteStarts) \cup Permutations(Requests)
=============================================================================
