----------------------------- MODULE MCFanCurve -----------------------------
(***************************************************************************)
(* Curves for FanCurve: the one of the README, one that ends within the    *)
(* hysteresis of full speed, one that ends low; and two that are refused,  *)
(* one that falls and one that is too slow where it is hot.                *)
(***************************************************************************)
EXTENDS FanCurve

MCCurves == {
    <<Point(40000, 0), Point(95000, 100)>>,
    <<Point(50000, 35), Point(92000, 98)>>,
    <<Point(55000, 40), Point(60000, 50)>>,
    <<Point(40000, 60), Point(60000, 30), Point(95000, 100)>>,
    <<Point(40000, 0), Point(96000, 90)>>}
=============================================================================
