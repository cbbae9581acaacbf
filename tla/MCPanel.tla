------------------------------ MODULE MCPanel ------------------------------
(* Small instances of Panel. *)
EXTENDS Panel

Overview == [page |-> "dashboard", ask |-> "stats", timed |-> TRUE]
Log      == [page |-> "querylog", ask |-> "all", timed |-> TRUE]
History  == [page |-> "querylog", ask |-> "old", timed |-> FALSE]

Views == {Overview, Log, History}
Starts == {Overview, Log}
=============================================================================
