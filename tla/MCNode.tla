------------------------------- MODULE MCNode -------------------------------
EXTENDS NodeProperties
=============================================================================
