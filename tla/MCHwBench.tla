----------------------------- MODULE MCHwBench ------------------------------
(* HwBench for TLC.                                                        *)
EXTENDS HwBench, TLC
CONSTANTS r1, r2
MCBags == <<40>>
MCCounts == <<1, 2>>
Symmetry == Permutations(Runs)
=============================================================================
