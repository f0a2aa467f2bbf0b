----------------------------- MODULE MCGraphReuse -------------------------------
(* Model-checking instance of GraphReuse: m calls a, and a calls k.  A       *)
(* revision changes the caller of the surface a, or what it calls.           *)
EXTENDS GraphReuse, TLC

CONSTANTS a, k, m, v1, v2, fa, ra

MCCalls == [p \in Node \X Content |-> IF p[1] = m THEN {a} ELSE IF p[1] = a THEN {k} ELSE {}]

Revision(va, vk, vm) == a :> va @@ k :> vk @@ m :> vm

MCCodes == {Revision(v1, v1, v1), Revision(v1, v2, v1), Revision(v1, v1, v2)}

MCPlace == fa :> a @@ ra :> a

================================================================================
