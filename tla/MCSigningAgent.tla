-------------------------- MODULE MCSigningAgent --------------------------
(* Small instances of SigningAgent: its kinds of key and its symmetry. *)
EXTENDS SigningAgentInvariant, TLC

Confirmed == [confirm |-> TRUE, encrypted |-> FALSE]
ConfirmedEncrypted == [confirm |-> TRUE, encrypted |-> TRUE]
Unconfirmed == [confirm |-> FALSE, encrypted |-> FALSE]
UnconfirmedEncrypted == [confirm |-> FALSE, encrypted |-> TRUE]

OnlyConfirmed == {Confirmed}
OnlyUnconfirmed == {Unconfirmed}
OnlyEncrypted == {ConfirmedEncrypted}
ConfirmedOrNot == {ConfirmedEncrypted, Unconfirmed}

RequestSymmetry == Permutations(Requests)
=============================================================================
