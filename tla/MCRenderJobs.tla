---------------------------- MODULE MCRenderJobs ----------------------------
(* Small instances of RenderJobs for TLC. *)
EXTENDS RenderJobs

CONSTANTS p1, icon, j1, j2, j3

OnePage == {p1}
OneIcon == {icon}
NoIcon == {}
ThreeJobs == {j1, j2, j3}
TwoJobs == {j1, j2}
=============================================================================
