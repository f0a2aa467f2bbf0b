------------------------------ MODULE MCModelCalls ------------------------------
(* Model-checking instance of ModelCalls: two prompts about one piece of     *)
(* work, such as a review and its repetition under a changed prompt, and a   *)
(* third one without an identity.                                            *)
EXTENDS ModelCalls, TLC

CONSTANTS u1, u2, u3, w

MCWorkOf == u1 :> w @@ u2 :> w @@ u3 :> NoWork

Symmetry == Permutations(Slot)

================================================================================
