------------------------- MODULE MCGuiBroadcaster -------------------------
EXTENDS GuiBroadcaster


=============================================================================
