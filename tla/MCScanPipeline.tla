----------------------------- MODULE MCScanPipeline -----------------------------
(* Model-checking instance of ScanPipeline: a and b differ in their lines    *)
(* only, so they share a fingerprint; c is another weakness.                 *)
EXTENDS ScanPipeline, TLC

CONSTANTS a, b, c, fab, fc, i1, i2, i3

MCFpOf == a :> fab @@ b :> fab @@ c :> fc
MCIssueOf == a :> i1 @@ b :> i2 @@ c :> i3
MCGravity == a :> "block" @@ b :> "block" @@ c :> "none"
MCReportable ==
    "discovery" :> {a, b} @@ "variants" :> {b} @@ "chain" :> {c}

================================================================================
