---------------------------- MODULE MCIdentities ----------------------------
(* Instances of Identities for TLC: two items, two keys. *)
EXTENDS Identities, TLC

CONSTANTS k1, k2

TwoItems == {1, 2}
TwoKeys == {k1, k2}
DiscoverOrPin == {{}, {1}}
Discover == {{}}
KeySymmetry == Permutations(TwoKeys)
=============================================================================
