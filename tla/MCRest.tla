------------------------------- MODULE MCRest -------------------------------
EXTENDS Rest
=============================================================================
