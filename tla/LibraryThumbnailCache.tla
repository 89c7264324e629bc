----------------------- MODULE LibraryThumbnailCache -----------------------
(***************************************************************************)
(* The thumbnails kept on the card (storage/LibraryThumbnailCache): one    *)
(* file for each hash of a path, with the path, size and time of the book  *)
(* in its header.  A thumbnail, or that a book has no cover, is the        *)
(* version it was made from.                                               *)
(***************************************************************************)
EXTENDS DirectoryScanner

CONSTANT Slot \* cachePath(): books may share a file

ASSUME SlotAssumption == Slot \in [Books -> Nat]

Slots == {Slot[book] : book \in Books}

NoThumbnail == [path |-> -1, stamp |-> 0, version |-> 0]

(* Mutated: the time and size are not compared. *)
HitOfAnyTime(cache, entry, busFree) == busFree /\ cache[Slot[entry.path]].path = entry.path

(* load() *)
Hit(cache, entry, busFree) ==
  /\ busFree
  /\ cache[Slot[entry.path]].path = entry.path
  /\ cache[Slot[entry.path]].stamp = entry.stamp

(* save(): it may fail before the old file is removed, or just after. *)
Saves(cache, entry, version, busFree) ==
  {cache} \cup
  (IF ~busFree THEN {}
   ELSE {[cache EXCEPT ![Slot[entry.path]] = file] :
           file \in {NoThumbnail,
                     [path |-> entry.path, stamp |-> entry.stamp, version |-> version]}})
=============================================================================
