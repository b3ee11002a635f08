--------------------------- MODULE MCCircularFifo ---------------------------
EXTENDS CircularFifo
=============================================================================
