------------------------------- MODULE MCTia --------------------------------
(***************************************************************************)
(* Tia on a small screen with the proportions of the real one: borders on  *)
(* all sides, a raster one clock longer and one line higher than the       *)
(* totals say, a visible region that the raster does not fill.             *)
(***************************************************************************)
EXTENDS Tia

MCLayouts == {"counters", "table"}

ASSUME MCRasterAssumption == RasterAssumption

=============================================================================
