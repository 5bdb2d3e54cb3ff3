--------------------------- MODULE MC_FeedScheduler ---------------------------
(* A small instance of FeedScheduler: one feed due on every tick and one due on *)
(* every second tick, whose requests may or may not return.                     *)
EXTENDS FeedScheduler

MC_Feeds == {"vehiclepositions", "tripupdates"}
MC_Interval == [f \in MC_Feeds |-> IF f = "tripupdates" THEN 2 ELSE 1]
MC_Hung == {"tripupdates"}
================================================================================
