---------------------------- MODULE MCBondStore ----------------------------
(* Instances of BondStore for model checking *)
EXTENDS BondStore, TLC

CONSTANTS phone, tablet, laptop, k1, k2

MCDevices == {phone, tablet, laptop}

Symmetry == Permutations(MCDevices) \cup Permutations({k1, k2})
=============================================================================
