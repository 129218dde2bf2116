----------------------------- MODULE MCPipeline -----------------------------
(***************************************************************************)
(* Model values and symmetry for the run of Pipeline.                      *)
(***************************************************************************)
EXTENDS Pipeline, Sinks, TLC

CONSTANTS x, y, w1

TwoObjects == {x, y}
OneWriter == {w1}
ConfiguredSink == GetSink["syslog"]

\* No action and no safety property tells one object from another.
Symmetry == Permutations(Objects)
=============================================================================
