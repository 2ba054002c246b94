--------------------------- MODULE MCPolygonStrip ---------------------------
EXTENDS PolygonStrip, TLC

MCSymmetry == Permutations(Worker)
=============================================================================
