--------------------------- MODULE MCSacnUniverse ---------------------------
EXTENDS SacnUniverse
=============================================================================
