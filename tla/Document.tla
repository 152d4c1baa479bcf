------------------------------ MODULE Document ------------------------------
(* The pages of the document that is open (document.c).                    *)
EXTENDS Integers

CONSTANT NumPages       \* number_of_pages

ASSUME PagesAssumption == NumPages \in Nat \ {0}

Pages == 0 .. NumPages - 1
=============================================================================
