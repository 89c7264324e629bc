------------------------- MODULE ReadingStateStore -------------------------
(***************************************************************************)
(* The reading position on the memory card (storage/ReadingStateStore):    *)
(* save() writes a temporary file, keeps the previous state as a backup,   *)
(* promotes the temporary file and drops the backup.  Every call to the    *)
(* file system is a step of its own: it may fail, and the power may go     *)
(* between any two.                                                        *)
(*                                                                         *)
(* States are numbered in the order they are saved, so a file holds the    *)
(* number of a whole state, or none.  Of the file system we assume that a  *)
(* rename or a removal happens or does not, that rename() refuses an       *)
(* existing target, as FAT does, and that a write which reports all its    *)
(* bytes put them on the card once the file is closed.                     *)
(***************************************************************************)
EXTENDS Integers

CONSTANTS
  MaxSaves,    \* bound on the states saved
  MediaFaults  \* whether calls to the file system may fail

ASSUME StoreAssumption == MaxSaves \in Nat /\ MediaFaults \in BOOLEAN

Absent == 0
Torn == -1
Contents == {Torn} \cup Nat

VARIABLES
  path,      \* what the file holds that load() reads,
  temporary, \* path + ".tmp"
  backup,    \* and path + ".bak"
  step,      \* the next step of the call in progress
  version,   \* the state saved last, or being saved
  previous,  \* hadPrevious
  oldest,    \* the oldest state that load() may still return
  saved      \* a save() returned true, and no remove() was called since

vars == <<path, temporary, backup, step, version, previous, oldest, saved>>

Steps ==
  {"idle", "create", "write", "dropBackup", "preserve", "promote", "clean",
   "forgetBackup", "forget", "off"}

Init ==
  /\ path = Absent /\ temporary = Absent /\ backup = Absent
  /\ step = "idle" /\ version = 0 /\ previous = FALSE /\ oldest = 0 /\ saved = FALSE

(* remove() of a file that may refuse to go *)
Removed(file) == {Absent} \cup IF MediaFaults THEN {file} ELSE {}

Go(here, next) == step = here /\ step' = next
Fail(here) == MediaFaults /\ Go(here, "idle")
-----------------------------------------------------------------------------
(* save(): what an earlier save left in the temporary file goes first. *)
Save ==
  /\ Go("idle", "create") /\ version < MaxSaves
  /\ version' = version + 1
  /\ temporary' \in Removed(temporary)
  /\ UNCHANGED <<path, backup, previous, oldest, saved>>

CreateTemporary ==
  /\ \/ Go("create", "write") /\ temporary' = Torn
     \/ Fail("create") /\ UNCHANGED temporary
  /\ UNCHANGED <<path, backup, version, previous, oldest, saved>>

(* Mutated: a short write goes unnoticed. *)
WriteWhatFits ==
  /\ Go("write", "dropBackup") /\ temporary' \in {version} \cup IF MediaFaults THEN {Torn} ELSE {}
  /\ UNCHANGED <<path, backup, version, previous, oldest, saved>>

WriteTemporary ==
  /\ \/ Go("write", "dropBackup") /\ temporary' = version
     \/ Fail("write") /\ temporary' \in Removed(temporary)
  /\ UNCHANGED <<path, backup, version, previous, oldest, saved>>

DropBackup ==
  /\ Go("dropBackup", "preserve")
  /\ backup' \in Removed(backup)
  /\ UNCHANGED <<path, temporary, version, previous, oldest, saved>>

(* Mutated: the previous state is removed to make room for the new one. *)
RemovePrevious ==
  /\ Go("preserve", "promote") /\ path' = Absent /\ previous' = FALSE
  /\ UNCHANGED <<temporary, backup, version, oldest, saved>>

PreservePrevious ==
  /\ previous' = (path # Absent)
  /\ \/ /\ Go("preserve", "promote") /\ path = Absent
        /\ UNCHANGED <<path, temporary, backup>>
     \/ /\ Go("preserve", "promote") /\ path # Absent /\ backup = Absent
        /\ path' = Absent /\ backup' = path /\ UNCHANGED temporary
     \/ /\ Fail("preserve") /\ path # Absent
        /\ temporary' \in Removed(temporary) /\ UNCHANGED <<path, backup>>
  /\ UNCHANGED <<version, oldest, saved>>

(* The previous state comes back, unless that rename fails as well. *)
RollBack ==
  \/ previous /\ path' = backup /\ backup' = Absent
  \/ UNCHANGED <<path, backup>>

Promote ==
  /\ \/ Go("promote", "clean") /\ path' = temporary /\ temporary' = Absent /\ UNCHANGED backup
     \/ Fail("promote") /\ RollBack /\ temporary' \in Removed(temporary)
  /\ UNCHANGED <<version, previous, oldest, saved>>

(* save() returns true, whether or not the backup could be removed. *)
Clean ==
  /\ Go("clean", "idle")
  /\ backup' \in Removed(backup) /\ oldest' = version /\ saved' = TRUE
  /\ UNCHANGED <<path, temporary, version, previous>>
-----------------------------------------------------------------------------
(* remove(), when the book is restarted: the state itself goes last. *)
Remove ==
  /\ \/ Go("idle", "forgetBackup") /\ temporary' = Absent
     \/ MediaFaults /\ Go("idle", "idle") /\ temporary # Absent /\ UNCHANGED temporary
  /\ saved' = FALSE
  /\ UNCHANGED <<path, backup, version, previous, oldest>>

ForgetBackup ==
  /\ \/ Go("forgetBackup", "forget") /\ backup' = Absent
     \/ Fail("forgetBackup") /\ backup # Absent /\ UNCHANGED backup
  /\ UNCHANGED <<path, temporary, version, previous, oldest, saved>>

(* Mutated: the state stays, only the temporary files go. *)
ForgetNothing ==
  /\ Go("forget", "idle") /\ oldest' = version + 1
  /\ UNCHANGED <<path, temporary, backup, version, previous, saved>>

Forget ==
  /\ \/ Go("forget", "idle") /\ path' = Absent /\ oldest' = version + 1
     \/ Fail("forget") /\ path # Absent /\ UNCHANGED <<path, oldest>>
  /\ UNCHANGED <<temporary, backup, version, previous, saved>>

PowerLoss ==
  /\ step # "off" /\ step' = "off"
  /\ UNCHANGED <<path, temporary, backup, version, previous, oldest, saved>>

(* load() reads the path and nothing else; it changes no file. *)
Boot ==
  /\ Go("off", "idle")
  /\ UNCHANGED <<path, temporary, backup, version, previous, oldest, saved>>

Next ==
  \/ Save \/ CreateTemporary \/ WriteTemporary \/ DropBackup \/ PreservePrevious
  \/ Promote \/ Clean \/ Remove \/ ForgetBackup \/ Forget \/ PowerLoss \/ Boot

Spec == Init /\ [][Next]_vars
-----------------------------------------------------------------------------
Loads == path > Absent

TypeOK ==
  /\ path \in Contents /\ temporary \in Contents /\ backup \in Contents
  /\ step \in Steps /\ version \in 0 .. MaxSaves /\ oldest \in Nat
  /\ previous \in BOOLEAN /\ saved \in BOOLEAN

(***************************************************************************)
(* Whatever failed and whenever the power went, the file load() reads is   *)
(* never a torn one.                                                       *)
(***************************************************************************)
NeverTorn == path # Torn

(***************************************************************************)
(* Once save() returned true, load() never returns an older state, and     *)
(* once remove() did, none that was there before: no rollback and no       *)
(* leftover of an interrupted save brings a position back.                 *)
(***************************************************************************)
NeverGoesBack == Loads => path >= oldest

(***************************************************************************)
(* No call of save() takes the confirmed state from where load() finds it  *)
(* without leaving it in the backup, where a rollback finds it.            *)
(***************************************************************************)
ConfirmedKeepsACopy ==
  [][(oldest > 0 /\ path = oldest /\ step # "forget") => oldest \in {path', backup'}]_vars

(***************************************************************************)
(* "Reinicie e reabra o mesmo EPUB; confirme retomada do trecho e zoom.    *)
(* Repita desligando durante uma troca de página para exercitar arquivo    *)
(* temporário/backup" (docs/hardware-test-plan.md:40): once a position was *)
(* saved, switching off at any moment leaves one to resume from.           *)
(***************************************************************************)
ResumesAfterPowerLoss == step = "off" /\ saved => Loads
=============================================================================
