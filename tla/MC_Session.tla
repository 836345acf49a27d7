----------------------------- MODULE MC_Session -----------------------------
EXTENDS Dialogue, TLC
=============================================================================
