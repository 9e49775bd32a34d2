----------------------------- MODULE MCCommands -----------------------------
(* Instances of Commands, with its store: three processes. *)
EXTENDS Enclave, TLC

CONSTANTS p1, p2, p3

ThreeProcesses == {p1, p2, p3}
ProcessSymmetry == Permutations(ThreeProcesses)
=============================================================================
