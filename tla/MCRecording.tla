--------------------------- MODULE MCRecording ---------------------------
(* Small instances of Recording for TLC.                                  *)
EXTENDS Recording, TLC

CONSTANTS v1, v2, r1, r2, u1, u2

(* Each recorder has one recording.                                       *)
TwoOwners == (v1 :> u1) @@ (v2 :> u2)
OneOwner  == v1 :> u1
============================================================================
