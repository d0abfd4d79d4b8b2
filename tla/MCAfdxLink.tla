----------------------------- MODULE MCAfdxLink -----------------------------
(* AfdxLink for TLC, scaled down: a BAG of twenty ticks, five sequence     *)
(* numbers instead of 255, reordering from a distance of four instead of   *)
(* 65, and a comparison window of eight BAGs instead of a thousand.        *)
EXTENDS AfdxLink

MCDelays == {0, 7}
MCLateDelays == {0, 14}
MCGaps == {10, 20, 170}
MCLengths == {60, 1600}
MCFirstSN == {0, 4}
=============================================================================
