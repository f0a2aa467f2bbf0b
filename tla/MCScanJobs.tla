------------------------------- MODULE MCScanJobs -------------------------------
(* Model-checking instance of ScanJobs: two jobs of different priority.      *)
EXTENDS ScanJobs, TLC

CONSTANTS j1, j2

MCJob == {j1, j2}
MCPriority == (j1 :> 1) @@ (j2 :> 2)

================================================================================
