----------------------------- MODULE MCManager -----------------------------
(***************************************************************************)
(* Model values and symmetry for the runs of Manager.                      *)
(***************************************************************************)
EXTENDS Manager, TLC

CONSTANTS a, b

TwoProcs == {a, b}

\* The runners of the commands that the runs look at.
Allocations == Commands["allocations"]
Evaluations == Commands["evaluations"]
Deployments == Commands["deployments"]

\* No action and no safety property tells one process from another.
Symmetry == Permutations(Procs)
=============================================================================
