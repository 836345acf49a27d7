-------------------------- MODULE MC_ServerProcess --------------------------
EXTENDS ServerProcess, TLC

CONSTANTS f1, f2

\* A file and what an interrupted upload has left, or only that.
TwoDirs == {f1 :> "old" @@ f2 :> "empty", f1 :> "empty" @@ f2 :> "none"}
=============================================================================
