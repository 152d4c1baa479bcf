------------------------------- MODULE MCStore -------------------------------
(* Store on a small instance: two processes, one document, old databases. *)
EXTENDS Store, TLC

CONSTANTS Jumps, Marks
SmallRows == [l \in Lists |-> IF l = "jumplist" THEN Jumps ELSE Marks]

\* A file that is not there yet, and those of older versions.
File(version, tables, columns) ==
    [exists |-> TRUE, version |-> version, tables |-> tables, columns |-> columns,
     skipped |-> {}]
Some == {"bookmarks", "fileinfo"}
Fresh == [File(0, {}, {}) EXCEPT !.exists = FALSE]
Before1 == File(0, Some, {"zoom"})
Mistyped == File(0, Some, Columns \ {"typed", "page_right_to_left", "sha256", "adjust_mode"})
Version1 == File(1, Some, Columns \ {"sha256", "adjust_mode"})
Current == File(6, TableNames, Columns)
AllLayouts == {Fresh, Before1, Mistyped, Version1, Current}

Symmetry == Permutations(Procs) \cup Permutations(Marks)
=============================================================================
