----------------------------- MODULE MCPrLifecycle -----------------------------
(* Model-checking instance of PrLifecycle: the pull requests are             *)
(* interchangeable, and so are the heads of each.                            *)
EXTENDS PrLifecycle, TLC

Symmetry == Permutations(PR) \cup Permutations(HeadSha)

================================================================================
