----------------------------- MODULE MCSessions -----------------------------
EXTENDS Sessions

CONSTANT r1
=============================================================================
