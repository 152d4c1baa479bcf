--------------------------- MODULE MCAnnotations ---------------------------
EXTENDS Annotations, TLC

\* Geometries 0 and 1 are one highlight to the import and the deletion, 1 and
\* 3 only to the deletion.
OnePage == {0}
ThreeGeos == {0, 1, 3}

Symmetry == Permutations(Ids) \cup Permutations(Origins)
=============================================================================
