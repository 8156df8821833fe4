------------------------- MODULE MCStatePersistence -------------------------
EXTENDS StatePersistence, TLC

CONSTANTS core, edge, w1, w2

MCNamespaces == {core, edge}
MCWriters == {w1, w2}
=============================================================================
