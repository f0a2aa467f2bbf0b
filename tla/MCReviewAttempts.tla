---------------------------- MODULE MCReviewAttempts ----------------------------
(* Model-checking instance of ReviewAttempts: the deliveries are anonymous,  *)
(* and four of them, two at a time, make a reclaim of a reclaimed attempt.   *)
EXTENDS ReviewAttempts, TLC

CONSTANTS c1, c2, c3, c4

Deliveries == {c1, c2, c3, c4}

================================================================================
