------------------------------- MODULE MCView -------------------------------
(* View on a small instance. *)
EXTENDS View, TLC

FitsWidth == 1 :> 4 @@ 2 :> 2
Quarter == {<<1, <<1, 4>>>>}
Near == {<<1, 4>>, <<3, 4>>}
Switches == {{}, {"scroll-wrap", "scroll-page-aware", "vertical-center", "zoom-center"}}

ASSUME SurfaceIsHigh
=============================================================================
