------------------------------ MODULE MCTracer ------------------------------
EXTENDS Tracer

CONSTANTS p1, p2, sh, nope
=============================================================================
