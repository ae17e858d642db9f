--------------------------- MODULE MCStatsClient ---------------------------
EXTENDS StatsClient

\* Two values on the last connection; on the one before it enough for a value
\* or for half of one that a reset or a reconnect leaves behind.
CellsPerConnection == <<2, 4>>

=============================================================================
