------------------------------ MODULE MCPullReview ------------------------------
(* Two places in one file and one in another, reports that are the same      *)
(* issue when they say the same of one file, and candidate_ids that are      *)
(* unique.                                                                   *)
EXTENDS PullReview

CONSTANTS f, g, p, q, r, k1, k2, c1, c2, c3

Files == (p :> f) @@ (q :> f) @@ (r :> g)
SameFileSameKind ==
    {s \in (Place \X Kind) \X (Place \X Kind) : Files[s[1][1]] = Files[s[2][1]] /\ s[1][2] = s[2][2]}
Unique == (p :> c1) @@ (q :> c2) @@ (r :> c3)
Ratings == {<<"high", "sure">>, <<"medium", "sure">>}
High == <<"high", "sure">>
Storing == {<<p, k1>>}
Tracking == {<<p, k1>>, <<q, k1>>}

ASSUME UniqueAssumption == UniqueIds
================================================================================
