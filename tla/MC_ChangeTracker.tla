-------------------------- MODULE MC_ChangeTracker --------------------------
EXTENDS ChangeTracker

\* A delay with a tolerance of one, and a stop compared for equality.
MC_Fields == {"delay", "stop"}
MC_Tolerance == [delay |-> 1, stop |-> 0]
MC_Values == [delay : {Null} \union 0..2, stop : {0}]
               \union {[delay |-> 0, stop |-> 1]}
MC_Times == 0..3
=============================================================================
