-------------------------- MODULE MCCollateralEscrows --------------------------
(***************************************************************************)
(* A small instance of CollateralEscrows.                                   *)
(***************************************************************************)
EXTENDS CollateralEscrows, TLC

CONSTANTS w1, w2, f1, f2

BothTracks == {<<f1, f2>>, <<f2, f1>>}

Symmetry == Permutations(Wallets) \cup Permutations(Tracks)
=============================================================================
