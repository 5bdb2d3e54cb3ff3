--------------------------- MODULE MC_StaticGtfs ---------------------------
EXTENDS StaticGtfs

\* Two archives of the old collector.
MC_LegacyDates == {-1, 0}
=============================================================================
