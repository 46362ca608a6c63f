--------------------------- MODULE MCDmxUniverse ---------------------------
EXTENDS DmxUniverse
=============================================================================
