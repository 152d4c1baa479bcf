---------------------------- MODULE MCNoteEditor ----------------------------
(* NoteEditor on a small instance: one document, one place.              *)
EXTENDS NoteEditor, TLC

Symmetry == Permutations(Ids) \cup Permutations(Texts)
OnePlace == {0}
=============================================================================
