--------------------------- MODULE MCUploadPortal ---------------------------
EXTENDS UploadPortal

(* Two names that sanitizeName() makes one, and a third *)
MCNames == {"Memorias.epub", "Memórias.epub", "Helena.epub"}
MCSafeName ==
  [name \in MCNames |-> IF name = "Helena.epub" THEN name ELSE "Memorias.epub"]

(* A folder under two of its names, one that leaves the root, one too deep *)
MCFolders == {<<"Books">>, <<"", ".", "Books">>, <<"..", "Books">>, <<"Books", "Old">>}
=============================================================================
