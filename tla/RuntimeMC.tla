------------------------------ MODULE RuntimeMC -------------------------------
(* Small instances of Runtime: which library a service comes from. *)
EXTENDS Runtime, TLC

CONSTANTS p1, p2, s1, s2, s3

\* Two services of one library and one of another.
TwoLibraries == (s1 :> p1) @@ (s2 :> p1) @@ (s3 :> p2)

================================================================================
