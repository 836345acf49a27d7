--------------------------- MODULE MC_SessionCrash ---------------------------
EXTENDS SessionRefinement, Numbering
=============================================================================
