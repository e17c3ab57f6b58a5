--------------------------- MODULE MCDocumentScan ---------------------------
(* Two or three documents, two ticks that could overlap, LOUD_AFTER_ATTEMPTS *)
(* of 2; the batch holds all documents, or fewer than there are.             *)
EXTENDS DocumentScan, TLC

CONSTANTS d1, d2, d3, k1, k2

TwoDocuments == {d1, d2}
ThreeDocuments == {d1, d2, d3}
BothContents == {"clean", "infected"}
CleanOnly == {"clean"}
OneTick == {k1}
TwoTicks == {k1, k2}
Symmetry == Permutations(Documents) \cup Permutations(Ticks)
=============================================================================
