------------------------------ MODULE MCTurns -------------------------------
EXTENDS SessionTurns
=============================================================================
