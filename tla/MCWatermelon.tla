---------------------------- MODULE MCWatermelon ----------------------------
(* Model-checking instance of Watermelon: three levels, of which the two lower *)
(* are drawn, worth 0, 2 and 3 points (as the first three of cfg_data/).       *)
EXTENDS Watermelon

MCPoint == <<0, 2, 3>>
MCInitFruit == <<1, 1>>
=============================================================================
