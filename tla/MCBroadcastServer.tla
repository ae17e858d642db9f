------------------------- MODULE MCBroadcastServer -------------------------
EXTENDS BroadcastServer, TLC

Overlays == Permutations(Handlers)

=============================================================================
