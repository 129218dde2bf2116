---------------------------- MODULE MCIndexWatch ----------------------------
(***************************************************************************)
(* Model values and symmetry for the runs of IndexWatch.                   *)
(***************************************************************************)
EXTENDS IndexWatch, TLC

CONSTANTS x, y

TwoObjects == {x, y}
OneObject == {x}

\* No action and no safety property tells one object from another.
Symmetry == Permutations(Objects)
=============================================================================
