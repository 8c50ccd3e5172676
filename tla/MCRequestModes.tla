----------------------------- MODULE MCRequestModes -----------------------------
(* An instance of RequestModes for TLC. *)
EXTENDS RequestModes, TLC

\* Requests 1 and 3 ask for the windows [1, 3) and [2, 4), which overlap.
MCRequestTime == <<2, 2, 3>>

\* The Fragment IDs of a board are interchangeable.
FIDSymmetry == Permutations(FID)
=============================================================================
