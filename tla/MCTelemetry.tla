----------------------------- MODULE MCTelemetry -----------------------------
(* Two invocations after two earlier ones; one snapshot may fill the byte *)
(* budget by itself, and two events are all that the log may hold.        *)
EXTENDS Telemetry

Symmetry == Permutations(Recorders) \cup Permutations(Earlier)
==============================================================================
