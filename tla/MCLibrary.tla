------------------------------ MODULE MCLibrary ------------------------------
EXTENDS Library

(* The root holds two folders and two books; the first folder a book and a   *)
(* hidden file, the second nothing.                                          *)
MCFolders == {0, 1, 2}
MCBooks == {3, 4, 5}
MCOthers == {6}
MCParent == [item \in 1 .. 6 |-> IF item \in {5, 6} THEN 1 ELSE 0]

(* All books share a file of the cache. *)
MCSlot == [book \in MCBooks |-> 0]
=============================================================================
