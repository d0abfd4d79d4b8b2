------------------------- MODULE MCCapturePipeline --------------------------
(* CapturePipeline for TLC.  BAGs of 10 and 15 are near enough to each     *)
(* other for one's frames to be analysed under the other; 40 is not.       *)
EXTENDS CapturePipeline, TLC

MCBagOf == <<10, 15, 40>>
MCTwoBags == <<10, 15>>
TabSymmetry == Permutations(Tabs)
=============================================================================
