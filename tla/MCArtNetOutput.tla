--------------------------- MODULE MCArtNetOutput ---------------------------
EXTENDS ArtNetOutput
=============================================================================
