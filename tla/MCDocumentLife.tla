--------------------------- MODULE MCDocumentLife ---------------------------
(* DocumentLife on a small instance: a is encrypted and is written by others, *)
(* b is neither.                                                              *)
EXTENDS DocumentLife, TLC

CONSTANTS a, b, k

OnlyA == {a}
TwoAndOne == a :> 2 @@ b :> 1
AEncrypted == a :> k @@ b :> NoKey
FirstOrLast == {Unspecified, -1}
=============================================================================
