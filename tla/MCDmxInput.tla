----------------------------- MODULE MCDmxInput -----------------------------
EXTENDS DmxInput
=============================================================================
