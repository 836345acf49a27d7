---------------------------- MODULE MC_Transfer -----------------------------
(* Transfer for TLC, with the sizes around its boundaries.                  *)
EXTENDS Transfer, TLC

AllSizes == 0 .. MaxFileSize + 1
TheLimit == {MaxFileSize}

=============================================================================
