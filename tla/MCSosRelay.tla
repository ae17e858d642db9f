---------------------------- MODULE MCSosRelay ----------------------------
EXTENDS SosRelay

=============================================================================
