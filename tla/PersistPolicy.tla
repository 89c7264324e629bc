--------------------------- MODULE PersistPolicy ---------------------------
(***************************************************************************)
(* When a reading position that changed is worth a write to the card       *)
(* (storage/PersistPolicy).  Times are ages, as far as they are compared.  *)
(***************************************************************************)
EXTENDS Integers

CONSTANTS
  IdleDelay,     \* idleDelayMs_
  MaxInterval,   \* maximumIntervalMs_
  PageThreshold, \* pageThreshold_
  PagesMax       \* the largest value of pagesSinceSave

ASSUME PolicyAssumption ==
  /\ {IdleDelay, MaxInterval, PageThreshold} \subseteq Nat \ {0}
  /\ PagesMax \in Nat /\ PagesMax >= PageThreshold

(* The age of lastSaveMs, 0, when nothing was saved yet. *)
NeverSaved == -1

PersistStates == [dirty : BOOLEAN, dirtyFor : 0 .. IdleDelay,
                  saveAge : NeverSaved .. MaxInterval, pages : 0 .. PagesMax]

CleanState == [dirty |-> FALSE, dirtyFor |-> 0, saveAge |-> NeverSaved, pages |-> 0]

(* The delay runs from the first change, not from the last. *)
MarkDirty(p, pageChanged) ==
  [p EXCEPT !.dirty = TRUE, !.dirtyFor = IF p.dirty THEN @ ELSE 0,
            !.pages = IF pageChanged /\ @ < PagesMax THEN @ + 1 ELSE @]

(* Mutated: before the first save, only the pages count. *)
ShouldSaveByInterval(p, interactive) ==
  /\ p.dirty /\ ~interactive
  /\ \/ p.pages >= PageThreshold
     \/ p.saveAge # NeverSaved /\ p.saveAge >= MaxInterval

ShouldSave(p, interactive) ==
  /\ p.dirty /\ ~interactive
  /\ \/ p.pages >= PageThreshold
     \/ p.saveAge # NeverSaved /\ p.saveAge >= MaxInterval
     \/ p.dirtyFor >= IdleDelay

RecordSaved(p) == [p EXCEPT !.dirty = FALSE, !.saveAge = 0, !.pages = 0]

PolicyAged(p) ==
  [p EXCEPT !.dirtyFor = IF p.dirty /\ @ < IdleDelay THEN @ + 1 ELSE @,
            !.saveAge = IF @ \in {NeverSaved, MaxInterval} THEN @ ELSE @ + 1]
=============================================================================
