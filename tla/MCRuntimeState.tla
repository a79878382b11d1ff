--------------------------- MODULE MCRuntimeState ---------------------------
EXTENDS RuntimeState
=============================================================================
