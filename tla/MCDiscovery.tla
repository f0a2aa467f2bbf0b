------------------------------ MODULE MCDiscovery -------------------------------
EXTENDS Discovery, TLC

CONSTANTS r1, r2, o1, o2, w, x, y

MCAsked == r1 :> {o1, o2} @@ r2 :> {o1}
MCMaxContinuations == r1 :> 1 @@ r2 :> 0

Says(v1, v2) == o1 :> v1 @@ o2 :> v2

Reply(cands, grounded, v1, v2, fresh, flaw) ==
    [cands |-> cands, grounded |-> grounded, says |-> Says(v1, v2), fresh |-> fresh,
     flaw |-> flaw]

MCAnswers ==
    {Reply({}, {}, "clean", "clean", FALSE, "none"),
     Reply({x}, {x}, x, "context", TRUE, "none"),
     Reply({x, y}, {y}, x, y, FALSE, "none"),
     Reply({y}, {y}, "context", "clean", FALSE, "none"),
     Reply({x}, {x}, "clean", "omitted", FALSE, "none"),
     Reply({}, {}, "clean", "clean", FALSE, "unknown"),
     Reply({y}, {y}, "clean", y, FALSE, "evidence")}

(* The regions stand alone, are the two batches of a workset, or two of the  *)
(* three it was split into.                                                  *)
MCPlans ==
    {[scope |-> [r \in Region |-> NoWorkset], batches |-> w :> 1]}
    \cup {[scope |-> [r \in Region |-> w], batches |-> w :> n] : n \in 2..3}

================================================================================
