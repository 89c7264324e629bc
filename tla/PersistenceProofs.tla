------------------------- MODULE PersistenceProofs -------------------------
(***************************************************************************)
(* Proofs about saving and resuming, for any books, places and number of   *)
(* saves: what load() finds is never torn and never older than what was    *)
(* confirmed; what the card gives back is a register of the place that was *)
(* saved, no change of place is forgotten, and no book resumes at a place  *)
(* of another.  The store comes first, for any caller of save() and        *)
(* remove(); then the application, which calls them.                       *)
(***************************************************************************)
EXTENDS Persistence, TLAPS

Saving == {"create", "write", "dropBackup", "preserve", "promote", "clean"}

(* A state that load() may return *)
Current(content) == content = Absent \/ content \in oldest .. version

(***************************************************************************)
(* The inductive invariant.  NeverTorn and NeverGoesBack speak of the path *)
(* alone, but the path is filled from the temporary file and, in a         *)
(* rollback, from the backup: what those two hold at that moment is what   *)
(* the invariant adds.                                                     *)
(***************************************************************************)
PathCurrent == Current(path)
TemporaryWhole == step \in {"dropBackup", "preserve", "promote"} => temporary = version
BackupCurrent == step = "promote" => path = Absent /\ (previous => backup \in oldest .. version)
Promoted == step = "clean" => path = version
OldestReached == oldest <= version + 1 /\ (step \in Saving => oldest <= version /\ version > 0)

Inv ==
  /\ TypeOK
  /\ PathCurrent /\ TemporaryWhole /\ BackupCurrent /\ Promoted /\ OldestReached

(* The initial state satisfies the invariant. *)
LEMMA InitInv == Init => Inv
<1> SUFFICES ASSUME Init PROVE Inv
  OBVIOUS
<1> USE DEF Init, Absent
<1>1. TypeOK
  <2>1. previous \in BOOLEAN /\ saved \in BOOLEAN
    OBVIOUS
  <2> QED
    BY <2>1, StoreAssumption DEF TypeOK, Contents, Steps
<1>2. PathCurrent /\ TemporaryWhole /\ BackupCurrent /\ Promoted /\ OldestReached
  BY DEF PathCurrent, Current, TemporaryWhole, BackupCurrent, Promoted, OldestReached, Saving
<1> QED
  BY <1>1, <1>2 DEF Inv

(* Every step of save() and remove(), every fault and every power loss     *)
(* preserves it.                                                           *)
LEMMA NextInv == Inv /\ [Next]_vars => Inv'
<1> SUFFICES ASSUME Inv, [Next]_vars PROVE Inv'
  OBVIOUS
<1> USE StoreAssumption
<1> USE DEF Inv, TypeOK, PathCurrent, Current, TemporaryWhole, BackupCurrent, Promoted,
        OldestReached, Contents, Steps, Saving, Absent, Torn, Go, Fail, Removed
<1>1. CASE Save
  BY <1>1 DEF Save
<1>2. CASE CreateTemporary
  BY <1>2 DEF CreateTemporary
<1>3. CASE WriteTemporary
  BY <1>3 DEF WriteTemporary
<1>4. CASE DropBackup
  BY <1>4 DEF DropBackup
<1>5. CASE PreservePrevious
  <2>1. previous' \in BOOLEAN
    BY <1>5 DEF PreservePrevious
  <2>2. CASE path = Absent
    <3>1. previous' = FALSE
      BY <1>5, <2>2 DEF PreservePrevious
    <3> QED
      BY <1>5, <2>2, <3>1 DEF PreservePrevious
  <2>3. CASE path # Absent
    <3>1. previous' = TRUE
      BY <1>5, <2>3 DEF PreservePrevious
    <3>2. CASE Go("preserve", "promote")
      BY <1>5, <2>3, <3>1, <3>2 DEF PreservePrevious
    <3>3. CASE Fail("preserve")
      BY <1>5, <2>3, <3>1, <3>3 DEF PreservePrevious
    <3> QED
      BY <1>5, <2>3, <3>2, <3>3 DEF PreservePrevious
  <2> QED
    BY <2>2, <2>3
<1>6. CASE Promote
  <2>1. CASE Go("promote", "clean") /\ path' = temporary
    BY <1>6, <2>1 DEF Promote
  <2>2. CASE Fail("promote") /\ RollBack
    BY <1>6, <2>2 DEF Promote, RollBack
  <2> QED
    BY <1>6, <2>1, <2>2 DEF Promote
<1>7. CASE Clean
  BY <1>7 DEF Clean
<1>8. CASE Remove
  <2>1. CASE Go("idle", "forgetBackup") /\ temporary' = Absent
    BY <1>8, <2>1 DEF Remove
  <2>2. CASE Go("idle", "idle") /\ UNCHANGED temporary
    BY <1>8, <2>2 DEF Remove
  <2> QED
    BY <1>8, <2>1, <2>2 DEF Remove
<1>9. CASE ForgetBackup
  BY <1>9 DEF ForgetBackup
<1>10. CASE Forget
  BY <1>10 DEF Forget
<1>11. CASE PowerLoss
  BY <1>11 DEF PowerLoss
<1>12. CASE Boot
  BY <1>12 DEF Boot
<1>13. CASE UNCHANGED vars
  BY <1>13 DEF vars
<1> QED
  BY <1>1, <1>2, <1>3, <1>4, <1>5, <1>6, <1>7, <1>8, <1>9, <1>10, <1>11, <1>12, <1>13 DEF Next

(* The files and the call in progress keep to their values. *)
THEOREM StoreInv == Spec => []Inv
BY InitInv, NextInv, PTL DEF Spec

(* ReadingStateStore::load() never finds a torn file, however save() was   *)
(* interrupted.                                                            *)
THEOREM StoreNeverTorn == Spec => []NeverTorn
<1>1. Inv => NeverTorn
  BY DEF Inv, TypeOK, PathCurrent, Current, NeverTorn, Absent, Torn
<1> QED
  BY StoreInv, <1>1, PTL

(* It never returns a state older than the last that was confirmed, nor    *)
(* one from before the last confirmed removal.                             *)
THEOREM StoreNeverGoesBack == Spec => []NeverGoesBack
<1>1. Inv => NeverGoesBack
  BY DEF Inv, TypeOK, PathCurrent, Current, NeverGoesBack, Loads, Absent, Torn
<1> QED
  BY StoreInv, <1>1, PTL

(* No step of save() destroys the confirmed state: it stays in the path or *)
(* goes to the backup.                                                     *)
THEOREM StoreKeepsACopy == Spec => ConfirmedKeepsACopy
<1> DEFINE Kept == (oldest > 0 /\ path = oldest /\ step # "forget")
                     => oldest \in {path', backup'}
<1>1. Inv /\ [Next]_vars => [Kept]_vars
  <2> SUFFICES ASSUME Inv, Next, oldest > 0, path = oldest, step # "forget"
               PROVE  oldest \in {path', backup'}
    BY DEF Kept
  <2> USE DEF Inv, TypeOK, Contents, Go, Fail
  <2>1. CASE PreservePrevious
    BY <2>1 DEF PreservePrevious
  <2>2. CASE Promote
    BY <2>2 DEF Promote, BackupCurrent, Absent
  <2>3. CASE Forget
    BY <2>3 DEF Forget
  <2>4. CASE Save \/ CreateTemporary \/ WriteTemporary \/ DropBackup \/ Clean
               \/ Remove \/ ForgetBackup \/ PowerLoss \/ Boot
    BY <2>4 DEF Save, CreateTemporary, WriteTemporary, DropBackup, Clean,
                Remove, ForgetBackup, PowerLoss, Boot
  <2> QED
    BY <2>1, <2>2, <2>3, <2>4 DEF Next
<1> QED
  BY StoreInv, <1>1, PTL DEF Spec, ConfirmedKeepsACopy
-----------------------------------------------------------------------------
(***************************************************************************)
(* The inductive invariant.  A save takes many steps, in which the reader  *)
(* stays where it is: the version on its way to the card is the place that *)
(* is read, and it is dirty until the card has it.  The menu keeps what    *)
(* reading relies on, for it goes back without another look at the policy. *)
(***************************************************************************)
SavedWhileOpen ==
  /\ step \in Saving => app \in {"Reading", "Menu"} /\ policy.dirty /\ savedAs[version] = place
  /\ step \in {"forgetBackup", "forget"} => app = "Menu"

CleanIsSaved ==
  app \in {"Reading", "Menu"} /\ hasPage /\ ~policy.dirty => Loads /\ savedAs[path] = place

OpenIsABook == app \in {"Parsing", "Laying", "Reading", "Menu"} => book \in Books

FilesHoldPlaces ==
  /\ Loads => savedAs[path] \in Places
  /\ step = "promote" /\ previous => backup > Absent /\ savedAs[backup] \in Places

PersistInv ==
  /\ Inv /\ PersistTypeOK
  /\ SavedWhileOpen /\ CleanIsSaved /\ OpenIsABook /\ ResumesOwnPlace /\ FilesHoldPlaces
-----------------------------------------------------------------------------
(* A book's places are its own. *)
LEMMA PlacesOfBooks ==
  ASSUME NEW b \in Books
  PROVE  /\ StartOf(b) \in PlacesIn(b)
         /\ \A p \in PlacesIn(b) : p \in Places /\ p.book = b
BY PersistenceAssumption DEF StartOf, PlacesIn, Places

LEMMA NowhereIsNoPlace == Nowhere \notin Places
BY PersistenceAssumption DEF Nowhere, Places, PlacesIn

(* What the policy notes keeps to its values. *)
LEMMA PolicySteps ==
  ASSUME NEW p \in PersistStates
  PROVE  /\ CleanState \in PersistStates /\ CleanState.dirty = FALSE
         /\ RecordSaved(p) \in PersistStates
         /\ \A pageChanged \in BOOLEAN :
              /\ MarkDirty(p, pageChanged) \in PersistStates
              /\ MarkDirty(p, pageChanged).dirty = TRUE
<1>1. /\ IdleDelay \in Nat /\ MaxInterval \in Nat /\ PagesMax \in Nat
      /\ 0 \in 0 .. IdleDelay /\ 0 \in 0 .. PagesMax
      /\ {0, NeverSaved} \subseteq NeverSaved .. MaxInterval
  BY PolicyAssumption DEF NeverSaved
<1>2. CleanState \in PersistStates /\ CleanState.dirty = FALSE
  BY <1>1 DEF CleanState, PersistStates
<1>3. RecordSaved(p) \in PersistStates
  BY <1>1 DEF RecordSaved, PersistStates
<1>4. ASSUME NEW pageChanged \in BOOLEAN
      PROVE  /\ MarkDirty(p, pageChanged) \in PersistStates
             /\ MarkDirty(p, pageChanged).dirty = TRUE
  <2>1. p.pages \in Nat /\ p.pages \in 0 .. PagesMax /\ p.dirtyFor \in 0 .. IdleDelay
    BY DEF PersistStates
  <2>2. (IF p.dirty THEN p.dirtyFor ELSE 0) \in 0 .. IdleDelay
    BY <1>1, <2>1
  <2>3. (IF pageChanged /\ p.pages < PagesMax THEN p.pages + 1 ELSE p.pages) \in 0 .. PagesMax
    BY <1>1, <2>1
  <2> QED
    BY <2>2, <2>3 DEF MarkDirty, PersistStates
<1> QED
  BY <1>2, <1>3, <1>4

(* ... as time passes, too, which makes nothing clean. *)
LEMMA PolicyAges ==
  ASSUME NEW p \in PersistStates
  PROVE  PolicyAged(p) \in PersistStates /\ PolicyAged(p).dirty = p.dirty
<1>1. IdleDelay \in Nat /\ MaxInterval \in Nat
  BY PolicyAssumption
<1>2. p.dirtyFor \in 0 .. IdleDelay /\ p.saveAge \in NeverSaved .. MaxInterval
  BY DEF PersistStates
<1>3. (IF p.dirty /\ p.dirtyFor < IdleDelay THEN p.dirtyFor + 1 ELSE p.dirtyFor)
        \in 0 .. IdleDelay
  BY <1>1, <1>2
<1>4. (IF p.saveAge \in {NeverSaved, MaxInterval} THEN p.saveAge ELSE p.saveAge + 1)
        \in NeverSaved .. MaxInterval
  BY <1>1, <1>2 DEF NeverSaved
<1> QED
  BY <1>3, <1>4 DEF PolicyAged, PersistStates

(* Every step of the application is a step of the store, or none. *)
LEMMA StoreSteps == [PersistNext]_allVars => [Next]_vars
<1> SUFFICES ASSUME [PersistNext]_allVars PROVE [Next]_vars
  OBVIOUS
<1>1. CASE SaveStep \/ RemoveStep \/ BackToLibrary \/ EnterSleepMode \/ ConfirmRestart
           \/ ForcedSave \/ PolicySave \/ PowerFails \/ PowerReturns
  BY <1>1 DEF SaveStep, RemoveStep, BackToLibrary, EnterSleepMode, ConfirmRestart, ForcedSave,
     PolicySave, Persist, PowerFails, PowerReturns, Next
<1>2. CASE OpenBook \/ BookParsed \/ OpeningFails \/ PageLaidOut \/ TurnPage \/ GeneratePage
           \/ OpenMenu \/ CloseMenu \/ SelectTocEntry \/ CycleFontFamily \/ DismissError
           \/ Settle \/ Elapse \/ GoQuiet
  BY <1>2 DEF OpenBook, BookParsed, OpeningFails, PageLaidOut, TurnPage, GeneratePage, OpenMenu,
     CloseMenu, SelectTocEntry, CycleFontFamily, DismissError, Settle, Elapse, GoQuiet, Free
<1>3. CASE UNCHANGED allVars
  BY <1>3 DEF allVars
<1> QED
  BY <1>1, <1>2, <1>3 DEF PersistNext
-----------------------------------------------------------------------------
(* While the store rests, only the reader's side has to be looked at. *)
LEMMA ReadingInv ==
  ASSUME PersistInv, Free, UNCHANGED <<asked, savedAs>>,
         app' \in Apps, book' \in Books \cup {"none"}, place' \in Places \cup {Nowhere},
         hasPage' \in BOOLEAN, waits' \in Waits, policy' \in PersistStates,
         forced' \in BOOLEAN, quiet' \in BOOLEAN,
         CleanIsSaved', OpenIsABook', ResumesOwnPlace'
  PROVE  PersistInv'
<1>1. Inv'
  BY NextInv DEF PersistInv, Free
<1>2. PersistTypeOK'
  BY <1>1 DEF PersistInv, PersistTypeOK, Inv
<1>3. SavedWhileOpen' /\ FilesHoldPlaces'
  BY DEF PersistInv, Free, vars, SavedWhileOpen, FilesHoldPlaces, Loads, Saving
<1> QED
  BY <1>1, <1>2, <1>3 DEF PersistInv

(* Opening a book, with or without a place to resume from *)
LEMMA OpeningInv ==
  ASSUME PersistInv, OpenBook \/ BookParsed \/ OpeningFails \/ PageLaidOut
  PROVE  PersistInv'
<1> USE DEF PersistInv, PersistTypeOK, StaysSaved
<1>1. CASE OpenBook
  <2>1. CleanIsSaved' /\ OpenIsABook' /\ ResumesOwnPlace'
    BY <1>1 DEF OpenBook, CleanIsSaved, OpenIsABook, ResumesOwnPlace
  <2> QED
    BY <1>1, <2>1, ReadingInv DEF OpenBook, Apps
<1>2. CASE BookParsed
  <2>1. book \in Books
    BY <1>2 DEF BookParsed, OpenIsABook
  <2>2. \A p \in Restored : p \in Places /\ p.book = book
    <3>1. StartOf(book) \in Places /\ StartOf(book).book = book
      BY <2>1, PlacesOfBooks
    <3>2. CASE ~Loads \/ savedAs[path].book # book
      BY <3>1, <3>2 DEF Restored
    <3>3. CASE Loads /\ savedAs[path].book = book
      BY <3>1, <3>3 DEF Restored, FilesHoldPlaces
    <3> QED
      BY <3>2, <3>3
  <2>3. CleanIsSaved' /\ OpenIsABook' /\ ResumesOwnPlace'
    BY <1>2, <2>1, <2>2 DEF BookParsed, CleanIsSaved, OpenIsABook, ResumesOwnPlace
  <2> QED
    BY <1>2, <2>2, <2>3, ReadingInv DEF BookParsed, Apps
<1>3. CASE OpeningFails
  <2>1. CleanIsSaved' /\ OpenIsABook' /\ ResumesOwnPlace'
    BY <1>3 DEF OpeningFails, CleanIsSaved, OpenIsABook, ResumesOwnPlace
  <2> QED
    BY <1>3, <2>1, ReadingInv DEF OpeningFails, Apps
<1>4. CASE PageLaidOut
  <2>1. policy' \in PersistStates /\ policy'.dirty = TRUE
    BY <1>4, PolicySteps DEF PageLaidOut
  <2>2. CleanIsSaved' /\ OpenIsABook' /\ ResumesOwnPlace'
    BY <1>4, <2>1 DEF PageLaidOut, CleanIsSaved, OpenIsABook, ResumesOwnPlace
  <2> QED
    BY <1>4, <2>1, <2>2, ReadingInv DEF PageLaidOut, Apps, Waits
<1> QED
  BY <1>1, <1>2, <1>3, <1>4

(* Turning pages *)
LEMMA TurningInv ==
  ASSUME PersistInv, TurnPage \/ GeneratePage
  PROVE  PersistInv'
<1> USE DEF PersistInv, PersistTypeOK, StaysSaved
<1>1. book \in Books
  BY DEF TurnPage, GeneratePage, OpenIsABook
<1>2. place' \in Places /\ place'.book = book
  BY <1>1, PlacesOfBooks DEF TurnPage, GeneratePage
<1>3. CASE TurnPage
  <2>1. policy' \in PersistStates /\ policy'.dirty = TRUE
    BY <1>3, PolicySteps DEF TurnPage
  <2>2. CleanIsSaved' /\ OpenIsABook' /\ ResumesOwnPlace'
    BY <1>1, <1>2, <1>3, <2>1 DEF TurnPage, CleanIsSaved, OpenIsABook, ResumesOwnPlace
  <2> QED
    BY <1>2, <1>3, <2>1, <2>2, ReadingInv DEF TurnPage, Waits
<1>4. CASE GeneratePage
  <2>1. CleanIsSaved' /\ OpenIsABook' /\ ResumesOwnPlace'
    BY <1>1, <1>2, <1>4 DEF GeneratePage, CleanIsSaved, OpenIsABook, ResumesOwnPlace
  <2> QED
    BY <1>2, <1>4, <2>1, ReadingInv DEF GeneratePage, Apps
<1> QED
  BY <1>3, <1>4

(* The menu, but for what it saves *)
LEMMA MenuInv ==
  ASSUME PersistInv, OpenMenu \/ CloseMenu \/ SelectTocEntry \/ CycleFontFamily \/ DismissError
  PROVE  PersistInv'
<1> USE DEF PersistInv, PersistTypeOK, StaysSaved, TapMenu
<1>1. CASE OpenMenu \/ CloseMenu
  <2>1. /\ {app, app'} \subseteq {"Reading", "Menu"} /\ waits' \in Waits
        /\ Free /\ UNCHANGED <<book, place, hasPage, policy, forced, asked, savedAs, quiet>>
    BY <1>1 DEF OpenMenu, CloseMenu, Waits
  <2>2. UNCHANGED path
    BY <2>1 DEF Free, vars
  <2>3. CleanIsSaved'
    BY <2>1, <2>2 DEF Loads, CleanIsSaved
  <2>4. OpenIsABook' /\ ResumesOwnPlace'
    BY <2>1 DEF OpenIsABook, ResumesOwnPlace
  <2>5. app' \in Apps
    BY <2>1 DEF Apps
  <2>6. book \in Books \cup {"none"} /\ place \in Places \cup {Nowhere} /\ hasPage \in BOOLEAN
        /\ policy \in PersistStates /\ forced \in BOOLEAN /\ quiet \in BOOLEAN
    OBVIOUS
  <2> HIDE DEF PersistInv, PersistTypeOK
  <2> QED
    BY <2>1, <2>3, <2>4, <2>5, <2>6, ReadingInv
<1>2. CASE SelectTocEntry
  <2>1. book \in Books
    BY <1>2 DEF SelectTocEntry, OpenIsABook
  <2>2. place' \in Places /\ place'.book = book
    BY <1>2, <2>1, PlacesOfBooks DEF SelectTocEntry
  <2>3. policy' \in PersistStates
    BY <1>2, PolicySteps DEF SelectTocEntry
  <2>4. CleanIsSaved' /\ OpenIsABook' /\ ResumesOwnPlace'
    BY <1>2, <2>1, <2>2 DEF SelectTocEntry, CleanIsSaved, OpenIsABook, ResumesOwnPlace
  <2> QED
    BY <1>2, <2>2, <2>3, <2>4, ReadingInv DEF SelectTocEntry, Apps
<1>3. CASE CycleFontFamily
  <2>1. policy' \in PersistStates /\ policy'.dirty = TRUE
    BY <1>3, PolicySteps DEF CycleFontFamily
  <2>2. CleanIsSaved' /\ OpenIsABook' /\ ResumesOwnPlace'
    BY <1>3, <2>1 DEF CycleFontFamily, CleanIsSaved, OpenIsABook, ResumesOwnPlace
  <2> QED
    BY <1>3, <2>1, <2>2, ReadingInv DEF CycleFontFamily, Apps
<1>4. CASE DismissError
  <2>1. CleanIsSaved' /\ OpenIsABook' /\ ResumesOwnPlace'
    BY <1>4 DEF DismissError, CleanIsSaved, OpenIsABook, ResumesOwnPlace
  <2> QED
    BY <1>4, <2>1, ReadingInv DEF DismissError, Apps
<1> QED
  BY <1>1, <1>2, <1>3, <1>4

(* The panel, time and the user's leaving change what is waited for. *)
LEMMA WaitingInv ==
  ASSUME PersistInv, Settle \/ Elapse \/ GoQuiet
  PROVE  PersistInv'
<1> USE DEF PersistInv, PersistTypeOK, StaysSaved, readerVars
<1>1. waits' \in Waits
  BY DEF Settle, Elapse, GoQuiet, Waits
<1>2. policy' \in PersistStates /\ policy'.dirty = policy.dirty
  BY PolicyAges DEF Settle, Elapse, GoQuiet
<1>3. /\ Free /\ UNCHANGED <<app, book, place, hasPage, forced, asked, savedAs>>
      /\ quiet' \in BOOLEAN
  BY DEF Settle, Elapse, GoQuiet
<1>4. CleanIsSaved' /\ OpenIsABook' /\ ResumesOwnPlace'
  BY <1>2, <1>3 DEF Free, vars, Loads, CleanIsSaved, OpenIsABook, ResumesOwnPlace
<1> QED
  BY <1>1, <1>2, <1>3, <1>4, ReadingInv

(* persistReadingState() takes the place with it, and calls it dirty. *)
LEMMA PersistBegins ==
  ASSUME PersistInv, NEW asker \in Askers, NEW p \in PersistStates, p.dirty = TRUE,
         Persist(asker, p), app \in {"Reading", "Menu"}, UNCHANGED <<readerVars, forced, quiet>>
  PROVE  PersistInv'
<1> USE StoreAssumption
<1>1. Inv'
  BY NextInv DEF PersistInv, Persist, Next
<1>2. /\ step = "idle" /\ step' = "create" /\ version' = version + 1 /\ version' \in 1 .. MaxSaves
      /\ policy' = p /\ asked' = asker
      /\ UNCHANGED <<app, book, place, hasPage, waits, forced, quiet, path, backup>>
  BY DEF PersistInv, Inv, TypeOK, Persist, Save, Go, readerVars
<1>3. place \in Places
  <2>1. book \in Books /\ place.book = book /\ place \in Places \cup {Nowhere}
    BY DEF PersistInv, PersistTypeOK, OpenIsABook, ResumesOwnPlace
  <2>2. Nowhere.book \notin Books
    BY PersistenceAssumption DEF Nowhere
  <2> QED
    BY <2>1, <2>2
<1>4. /\ DOMAIN savedAs = 1 .. MaxSaves
      /\ savedAs' = [v \in 1 .. MaxSaves |->
                       IF v = version' THEN place
                       ELSE IF v \in {path, temporary', backup} THEN savedAs[v] ELSE Nowhere]
  BY DEF PersistInv, PersistTypeOK, Persist
<1>5. savedAs' \in [1 .. MaxSaves -> Places \cup {Nowhere}] /\ savedAs'[version'] = place
  BY <1>2, <1>3, <1>4 DEF PersistInv, PersistTypeOK
<1>6. Loads => path # version' /\ path \in 1 .. MaxSaves
  BY <1>2 DEF PersistInv, Inv, TypeOK, PathCurrent, Current, Loads, Absent, Contents
<1>7. Loads' = Loads /\ (Loads => savedAs'[path'] = savedAs[path])
  BY <1>2, <1>4, <1>6 DEF Loads
<1>8. PersistTypeOK'
  BY <1>1, <1>2, <1>5 DEF PersistInv, PersistTypeOK, Inv
<1>9. SavedWhileOpen'
  BY <1>2, <1>5 DEF SavedWhileOpen
<1>10. (CleanIsSaved /\ OpenIsABook /\ ResumesOwnPlace)'
  BY <1>2 DEF PersistInv, CleanIsSaved, OpenIsABook, ResumesOwnPlace
<1>11. FilesHoldPlaces'
  BY <1>2, <1>7 DEF PersistInv, FilesHoldPlaces
<1> QED
  BY <1>1, <1>8, <1>9, <1>10, <1>11 DEF PersistInv

(* Who calls it *)
LEMMA AskingInv ==
  ASSUME PersistInv, BackToLibrary \/ EnterSleepMode \/ ForcedSave \/ PolicySave
  PROVE  PersistInv'
<1> USE PersistBegins DEF Askers
<1>1. policy \in PersistStates /\ MarkDirty(policy, TRUE) \in PersistStates
      /\ MarkDirty(policy, TRUE).dirty = TRUE
  BY PolicySteps DEF PersistInv, PersistTypeOK
<1>2. CASE BackToLibrary
  BY <1>1, <1>2 DEF BackToLibrary, TapMenu
<1>3. CASE EnterSleepMode
  BY <1>1, <1>3 DEF EnterSleepMode
<1>4. CASE ForcedSave
  <2>1. policy.dirty = TRUE
    BY <1>1, <1>4 DEF ForcedSave, PersistStates
  <2> QED
    BY <1>1, <1>4, <2>1 DEF ForcedSave
<1>5. CASE PolicySave
  <2>1. policy.dirty = TRUE
    BY <1>1, <1>5 DEF PolicySave, ShouldSave, PersistStates
  <2> QED
    BY <1>1, <1>5, <2>1 DEF PolicySave
<1> QED
  BY <1>2, <1>3, <1>4, <1>5
-----------------------------------------------------------------------------
(* A save in progress, and where the file system's calls leave the files *)
LEMMA SavingFiles ==
  ASSUME PersistInv, SaveStep
  PROVE  /\ step \in Saving /\ step' \in Saving \cup {"idle"} /\ Inv'
         /\ UNCHANGED <<version, savedAs, quiet>>
         /\ place \in Places /\ book \in Books /\ savedAs[version] = place
         /\ FilesHoldPlaces'
         /\ step = "clean" => Loads' /\ savedAs'[path'] = place
<1> USE DEF Go, Fail
<1>1. /\ step \in Saving /\ step' \in Saving \cup {"idle"}
      /\ UNCHANGED <<version, savedAs, quiet>>
  BY DEF SaveStep, CreateTemporary, WriteTemporary, DropBackup, PreservePrevious, Promote,
     Clean, Saving
<1>2. Inv'
  BY NextInv DEF PersistInv, SaveStep, Next
<1>3. place \in Places /\ book \in Books /\ savedAs[version] = place
  <2>1. book \in Books /\ place.book = book /\ savedAs[version] = place
        /\ place \in Places \cup {Nowhere}
    BY <1>1 DEF PersistInv, PersistTypeOK, SavedWhileOpen, OpenIsABook, ResumesOwnPlace
  <2>2. Nowhere.book \notin Books
    BY PersistenceAssumption DEF Nowhere
  <2> QED
    BY <2>1, <2>2
<1>4. version > Absent
  BY <1>1 DEF PersistInv, Inv, TypeOK, OldestReached, Absent
<1>5. CASE CreateTemporary \/ WriteTemporary \/ DropBackup \/ Clean
  <2>1. UNCHANGED path /\ step' # "promote"
    BY <1>5 DEF CreateTemporary, WriteTemporary, DropBackup, Clean
  <2>2. step = "clean" => path = version
    BY DEF PersistInv, Inv, Promoted
  <2> QED
    BY <1>1, <1>2, <1>3, <1>4, <2>1, <2>2 DEF PersistInv, FilesHoldPlaces, Loads
<1>6. CASE PreservePrevious
  <2>1. CASE path = Absent
    <3>1. previous' = FALSE /\ path' = Absent /\ step # "clean"
      BY <1>6, <2>1 DEF PreservePrevious
    <3> QED
      BY <1>1, <1>2, <1>3, <3>1 DEF FilesHoldPlaces, Loads, Absent
  <2>2. CASE path # Absent
    <3>1. Loads /\ savedAs[path] \in Places
      BY <2>2 DEF PersistInv, Inv, TypeOK, PathCurrent, Current, FilesHoldPlaces, Loads,
         Absent, Contents
    <3>2. /\ path' \in {path, Absent} /\ step # "clean"
          /\ step' = "promote" => backup' = path
      BY <1>6, <2>2 DEF PreservePrevious
    <3> QED
      BY <1>1, <1>2, <1>3, <3>1, <3>2 DEF FilesHoldPlaces, Loads, Absent
  <2> QED
    BY <2>1, <2>2
<1>7. CASE Promote
  <2>1. step = "promote" /\ step' \in {"clean", "idle"}
    BY <1>7 DEF Promote
  <2>2. CASE path' = temporary
    <3>1. path' = version
      BY <2>1, <2>2 DEF PersistInv, Inv, TemporaryWhole
    <3> QED
      BY <1>1, <1>2, <1>3, <2>1, <3>1 DEF FilesHoldPlaces
  <2>3. CASE path' # temporary
    <3>1. path' = path \/ (previous /\ path' = backup)
      BY <1>7, <2>3 DEF Promote, RollBack
    <3> QED
      BY <1>1, <1>2, <1>3, <2>1, <3>1 DEF PersistInv, FilesHoldPlaces, Loads
  <2> QED
    BY <2>2, <2>3
<1> QED
  BY <1>5, <1>6, <1>7 DEF SaveStep

(* ... with its caller, who goes on when the call returns *)
LEMMA SaveStepInv ==
  ASSUME PersistInv, SaveStep
  PROVE  PersistInv'
<1>1. /\ app \in {"Reading", "Menu"} /\ policy.dirty /\ place.book = book
      /\ policy \in PersistStates
  BY SavingFiles DEF PersistInv, PersistTypeOK, SavedWhileOpen, ResumesOwnPlace
<1>2. UNCHANGED <<book, place, hasPage>> /\ app' \in {app, "Library", "Reading"}
  BY DEF SaveStep, Returned, readerVars
<1>3. (OpenIsABook /\ ResumesOwnPlace)'
  BY <1>1, <1>2, SavingFiles DEF OpenIsABook, ResumesOwnPlace
<1>4. CASE step' # "idle"
  <2>1. UNCHANGED <<app, book, place, hasPage, waits, policy, forced, asked, savedAs, quiet>>
    BY <1>4 DEF SaveStep, readerVars
  <2>2. PersistTypeOK'
    BY <2>1, SavingFiles DEF PersistInv, PersistTypeOK, Inv
  <2>3. (SavedWhileOpen /\ CleanIsSaved)'
    BY <1>1, <1>4, <2>1, SavingFiles DEF SavedWhileOpen, CleanIsSaved, Saving
  <2> QED
    BY <1>3, <2>2, <2>3, SavingFiles DEF PersistInv
<1>5. CASE step' = "idle"
  <2>1. Returned(step = "clean")
    BY <1>5 DEF SaveStep
  <2>2. /\ policy' \in PersistStates
        /\ policy'.dirty \/ (step = "clean" /\ Loads' /\ savedAs'[path'] = place)
    BY <1>1, <2>1, SavingFiles, PolicySteps DEF Returned
  <2>3. forced' \in BOOLEAN /\ asked' \in Askers
    BY <2>1 DEF Returned, Askers
  <2>4. waits' \in Waits
    BY <2>1 DEF Returned, readerVars, PersistInv, PersistTypeOK, Waits
  <2>5. PersistTypeOK'
    <3>1. app' \in Apps
      BY <1>1, <1>2 DEF Apps
    <3> QED
      BY <1>2, <2>2, <2>3, <2>4, <3>1, SavingFiles DEF PersistInv, PersistTypeOK, Inv
  <2>6. (SavedWhileOpen /\ CleanIsSaved)'
    BY <1>2, <1>5, <2>2 DEF SavedWhileOpen, CleanIsSaved, Saving
  <2> QED
    BY <1>3, <2>5, <2>6, SavingFiles DEF PersistInv
<1> QED
  BY <1>4, <1>5

(* remove() for the book that starts again *)
LEMMA RestartInv ==
  ASSUME PersistInv, ConfirmRestart
  PROVE  PersistInv'
<1>1. Inv'
  BY NextInv DEF PersistInv, ConfirmRestart, Next
<1>2. /\ app = "Menu" /\ step' \in {"forgetBackup", "idle"} /\ asked' \in Askers
      /\ UNCHANGED <<app, book, place, hasPage, waits, policy, forced, savedAs, quiet>>
      /\ UNCHANGED path
  BY DEF ConfirmRestart, TapMenu, Remove, Go, Askers, readerVars
<1>3. PersistTypeOK'
  BY <1>1, <1>2 DEF PersistInv, PersistTypeOK, Inv
<1>4. (SavedWhileOpen /\ CleanIsSaved /\ OpenIsABook /\ ResumesOwnPlace /\ FilesHoldPlaces)'
  BY <1>2 DEF PersistInv, SavedWhileOpen, CleanIsSaved, OpenIsABook, ResumesOwnPlace,
     FilesHoldPlaces, Loads, Saving
<1> QED
  BY <1>1, <1>3, <1>4 DEF PersistInv

(* ... and its calls: the book restarts when its state is gone, not before. *)
LEMMA RemovingFiles ==
  ASSUME PersistInv, RemoveStep
  PROVE  /\ app = "Menu" /\ book \in Books /\ Inv' /\ asked' \in Askers
         /\ step' \in {"forget", "idle"} /\ UNCHANGED <<forced, savedAs, quiet>>
         /\ \/ UNCHANGED <<path, readerVars, policy>>
            \/ path' = Absent /\ step' = "idle" /\ Restarted
<1>1. /\ step \in {"forgetBackup", "forget"} /\ step' \in {"forget", "idle"}
      /\ step = "forget" => step' = "idle"
      /\ path' \in {path, Absent} /\ (step = "forgetBackup" => UNCHANGED path)
  BY DEF RemoveStep, ForgetBackup, Forget, Go, Fail
<1>2. app = "Menu" /\ book \in Books
  BY <1>1 DEF PersistInv, SavedWhileOpen, OpenIsABook
<1>3. Inv'
  BY NextInv DEF PersistInv, RemoveStep, Next
<1>4. asked' \in Askers /\ UNCHANGED <<forced, savedAs, quiet>>
  BY DEF RemoveStep, PersistInv, PersistTypeOK, Askers
<1>5. CASE step = "forget" /\ path' = Absent
  BY <1>1, <1>2, <1>3, <1>4, <1>5 DEF RemoveStep
<1>6. CASE ~(step = "forget" /\ path' = Absent)
  BY <1>1, <1>2, <1>3, <1>4, <1>6 DEF RemoveStep
<1> QED
  BY <1>5, <1>6

LEMMA RemoveStepInv ==
  ASSUME PersistInv, RemoveStep
  PROVE  PersistInv'
<1>1. CASE UNCHANGED <<path, readerVars, policy>>
  <2>1. PersistTypeOK'
    BY <1>1, RemovingFiles DEF PersistInv, PersistTypeOK, Inv, readerVars
  <2>2. (SavedWhileOpen /\ CleanIsSaved /\ OpenIsABook /\ ResumesOwnPlace /\ FilesHoldPlaces)'
    BY <1>1, RemovingFiles DEF PersistInv, SavedWhileOpen, CleanIsSaved, OpenIsABook,
       ResumesOwnPlace, FilesHoldPlaces, Loads, Saving, readerVars
  <2> QED
    BY <2>1, <2>2, RemovingFiles DEF PersistInv
<1>2. CASE path' = Absent /\ step' = "idle" /\ Restarted
  <2>1. policy' \in PersistStates /\ place' \in Places /\ place'.book = book
        /\ app' \in {"Laying", "Error"} /\ hasPage' = FALSE /\ UNCHANGED <<book, waits>>
    BY <1>2, RemovingFiles, PolicySteps, PlacesOfBooks
       DEF Restarted, PersistInv, PersistTypeOK
  <2>2. PersistTypeOK'
    BY <2>1, RemovingFiles DEF PersistInv, PersistTypeOK, Inv, Apps
  <2>3. (SavedWhileOpen /\ CleanIsSaved /\ OpenIsABook /\ ResumesOwnPlace /\ FilesHoldPlaces)'
    BY <1>2, <2>1, RemovingFiles DEF SavedWhileOpen, CleanIsSaved, OpenIsABook,
       ResumesOwnPlace, FilesHoldPlaces, Loads, Saving, Absent
  <2> QED
    BY <2>2, <2>3, RemovingFiles DEF PersistInv
<1> QED
  BY <1>1, <1>2, RemovingFiles

(* The power goes at any moment, and comes back. *)
LEMMA PowerInv ==
  ASSUME PersistInv, PowerFails \/ PowerReturns
  PROVE  PersistInv'
<1>1. /\ Inv' /\ UNCHANGED <<path, book, place, savedAs, quiet>> /\ step' \in {"off", "idle"}
      /\ app' \in {"Off", "Library"} /\ asked' \in Askers
  BY NextInv DEF PersistInv, PersistTypeOK, PowerFails, PowerReturns, PowerLoss, Boot, Go,
     Next, Askers
<1>2. policy' \in PersistStates /\ waits' \in Waits /\ hasPage' \in BOOLEAN /\ forced' \in BOOLEAN
  BY PolicySteps DEF PersistInv, PersistTypeOK, PowerFails, PowerReturns, Waits
<1>3. PersistTypeOK'
  BY <1>1, <1>2 DEF PersistInv, PersistTypeOK, Inv, Apps
<1>4. (SavedWhileOpen /\ CleanIsSaved /\ OpenIsABook /\ ResumesOwnPlace /\ FilesHoldPlaces)'
  BY <1>1 DEF PersistInv, SavedWhileOpen, CleanIsSaved, OpenIsABook,
     ResumesOwnPlace, FilesHoldPlaces, Loads, Saving
<1> QED
  BY <1>1, <1>3, <1>4 DEF PersistInv

(* Nothing is read and nothing saved when the device is new. *)
LEMMA InitPersistInv == PersistInit => PersistInv
<1> SUFFICES ASSUME PersistInit PROVE PersistInv
  OBVIOUS
<1>1. Inv /\ step = "idle" /\ ~Loads
  BY InitInv DEF PersistInit, Init, Loads, Absent
<1>2. CleanState \in PersistStates
  <2>1. /\ IdleDelay \in Nat /\ MaxInterval \in Nat /\ PagesMax \in Nat
        /\ 0 \in 0 .. IdleDelay /\ 0 \in 0 .. PagesMax
        /\ NeverSaved \in NeverSaved .. MaxInterval
    BY PolicyAssumption DEF NeverSaved
  <2> QED
    BY <2>1 DEF CleanState, PersistStates
<1>3. PersistTypeOK
  <2>1. savedAs \in [1 .. MaxSaves -> Places \cup {Nowhere}]
    BY DEF PersistInit
  <2>2. hasPage \in BOOLEAN /\ forced \in BOOLEAN /\ quiet \in BOOLEAN
    BY DEF PersistInit
  <2> QED
    BY <1>1, <1>2, <2>1, <2>2 DEF PersistInit, PersistTypeOK, Inv, Apps, Waits, Askers
<1>4. SavedWhileOpen /\ CleanIsSaved /\ OpenIsABook /\ ResumesOwnPlace /\ FilesHoldPlaces
  BY <1>1 DEF PersistInit, SavedWhileOpen, CleanIsSaved, OpenIsABook, ResumesOwnPlace,
     FilesHoldPlaces, Saving
<1> QED
  BY <1>1, <1>3, <1>4 DEF PersistInv

LEMMA NextPersistInv == PersistInv /\ [PersistNext]_allVars => PersistInv'
<1> SUFFICES ASSUME PersistInv, [PersistNext]_allVars PROVE PersistInv'
  OBVIOUS
<1>1. CASE SaveStep \/ RemoveStep \/ ConfirmRestart \/ PowerFails \/ PowerReturns
  BY <1>1, SaveStepInv, RemoveStepInv, RestartInv, PowerInv
<1>2. CASE OpenBook \/ BookParsed \/ OpeningFails \/ PageLaidOut \/ TurnPage \/ GeneratePage
  BY <1>2, OpeningInv, TurningInv
<1>3. CASE OpenMenu \/ CloseMenu \/ SelectTocEntry \/ CycleFontFamily \/ DismissError
  BY <1>3, MenuInv
<1>4. CASE BackToLibrary \/ EnterSleepMode \/ ForcedSave \/ PolicySave
  BY <1>4, AskingInv
<1>5. CASE Settle \/ Elapse \/ GoQuiet
  BY <1>5, WaitingInv
<1>6. CASE UNCHANGED allVars
  <2>1. /\ UNCHANGED <<app, book, place, hasPage, waits, policy, forced, asked, savedAs, quiet>>
        /\ UNCHANGED <<path, step, version, previous, backup>>
    BY <1>6 DEF allVars, vars, persistVars, readerVars
  <2>2. Inv'
    BY <1>6, NextInv DEF PersistInv, allVars
  <2>3. PersistTypeOK'
    BY <2>1, <2>2 DEF PersistInv, PersistTypeOK, Inv
  <2>4. (SavedWhileOpen /\ CleanIsSaved /\ OpenIsABook /\ ResumesOwnPlace /\ FilesHoldPlaces)'
    BY <2>1 DEF PersistInv, SavedWhileOpen, CleanIsSaved, OpenIsABook, ResumesOwnPlace,
       FilesHoldPlaces, Loads
  <2> QED
    BY <2>2, <2>3, <2>4 DEF PersistInv
<1> QED
  BY <1>1, <1>2, <1>3, <1>4, <1>5, <1>6 DEF PersistNext
-----------------------------------------------------------------------------
(* The application's part of the specification, without its fairness *)
LEMMA PersistSafety == PersistSpec => PersistInit /\ [][PersistNext]_allVars
BY PTL DEF PersistSpec

(* The store's record, the application's state and the places on the card  *)
(* keep to their values, and to each other.                                *)
THEOREM PersistInvariant == PersistSpec => []PersistInv
BY InitPersistInv, NextPersistInv, PersistSafety, PTL

(* The application calls the store as ReadingStateStore.tla has it called: *)
(* what is proved of the store's files holds wherever a save comes from.   *)
THEOREM PersistUsesStore == PersistSpec => Spec
<1>1. PersistInit => Init
  BY DEF PersistInit
<1> QED
  BY <1>1, StoreSteps, PersistSafety, PTL DEF Spec

(* In every tick of Reading the policy knows of a place the card does not  *)
(* hold, and so persistReadingState() will be called for it.               *)
THEOREM PersistForgetsNoChange == PersistSpec => []UnsavedIsDirty
<1>1. PersistInv => UnsavedIsDirty
  BY DEF PersistInv, PersistTypeOK, CleanIsSaved, UnsavedIsDirty, OnCard
<1> QED
  BY PersistInvariant, <1>1, PTL

(* startReaderWithSavedState() never takes a place of another book. *)
THEOREM PersistResumesOwnPlace == PersistSpec => []ResumesOwnPlace
<1>1. PersistInv => ResumesOwnPlace
  BY DEF PersistInv
<1> QED
  BY PersistInvariant, <1>1, PTL
-----------------------------------------------------------------------------
(***************************************************************************)
(* The refinement: under OnCard and the backup of a save that is promoting *)
(* its file, every step of the application is one of SavedPosition.tla, or *)
(* none of them.                                                           *)
(***************************************************************************)
Aside == IF step = "promote" /\ previous THEN savedAs[backup] ELSE Nowhere
CardVars == <<place, OnCard, Aside>>

(* What the steps of a save are to the register *)
LEMMA SavingRefines ==
  ASSUME PersistInv, SaveStep
  PROVE  [Register!Next]_CardVars
<1> USE DEF Go, Fail
<1>1. /\ place \in Places /\ place # Nowhere /\ UNCHANGED <<place, savedAs, version>>
      /\ savedAs[version] = place /\ version > 0
  <2>1. UNCHANGED <<place, savedAs>>
    BY DEF SaveStep, Returned, readerVars
  <2> QED
    BY <2>1, SavingFiles, NowhereIsNoPlace DEF PersistInv, Inv, TypeOK, OldestReached
<1>2. CASE CreateTemporary \/ WriteTemporary \/ DropBackup \/ Clean
  <2>1. UNCHANGED path /\ step # "promote" /\ step' # "promote"
    BY <1>2 DEF CreateTemporary, WriteTemporary, DropBackup, Clean
  <2> QED
    BY <1>1, <2>1 DEF CardVars, OnCard, Loads, Aside
<1>3. CASE PreservePrevious
  <2>1. step # "promote" /\ Aside = Nowhere
    BY <1>3 DEF PreservePrevious, Aside
  <2>2. CASE step' # "promote"
    <3>1. UNCHANGED path /\ Aside' = Nowhere
      BY <1>3, <2>2 DEF PreservePrevious, Aside
    <3> QED
      BY <1>1, <2>1, <3>1 DEF CardVars, OnCard, Loads
  <2>3. CASE step' = "promote" /\ path = Absent
    <3>1. UNCHANGED path /\ previous' = FALSE
      BY <1>3, <2>3 DEF PreservePrevious
    <3>2. Aside' = Nowhere
      BY <3>1 DEF Aside
    <3> QED
      BY <1>1, <2>1, <3>1, <3>2 DEF CardVars, OnCard, Loads
  <2>4. CASE step' = "promote" /\ path # Absent
    <3>1. path' = Absent /\ backup' = path /\ previous' = TRUE
      BY <1>3, <2>4 DEF PreservePrevious
    <3>2. Loads /\ savedAs[path] \in Places
      BY <2>4 DEF PersistInv, Inv, TypeOK, PathCurrent, Current, FilesHoldPlaces, Loads,
         Absent, Contents
    <3>3. OnCard # Nowhere /\ OnCard' = Nowhere /\ Aside' = OnCard
      BY <1>1, <2>4, <3>1, <3>2, NowhereIsNoPlace DEF OnCard, Loads, Aside, Absent
    <3> QED
      BY <1>1, <3>3 DEF Register!Next, Register!SetAside, Aside
  <2> QED
    BY <2>2, <2>3, <2>4
<1>4. CASE Promote
  <2>1. step = "promote" /\ step' \in {"clean", "idle"} /\ Aside' = Nowhere
    BY <1>4 DEF Promote, Aside
  <2>2. CASE path' = temporary
    <3>1. path' = version
      BY <2>1, <2>2 DEF PersistInv, Inv, TemporaryWhole
    <3>2. OnCard' = place
      BY <1>1, <3>1 DEF OnCard, Loads, Absent
    <3> QED
      BY <1>1, <2>1, <3>2 DEF Register!Next, Register!Save, Aside
  <2>3. CASE path' = path
    <3>1. OnCard' = OnCard
      BY <1>1, <2>3 DEF OnCard, Loads
    <3> QED
      BY <1>1, <2>1, <3>1 DEF Register!Next, Register!Abandon, Aside
  <2>4. CASE previous /\ path' = backup
    <3>1. backup > Absent /\ savedAs[backup] \in Places /\ Aside = savedAs[backup]
      BY <2>1, <2>4 DEF PersistInv, FilesHoldPlaces, Aside
    <3>2. OnCard' = Aside /\ Aside # Nowhere
      BY <1>1, <2>4, <3>1, NowhereIsNoPlace DEF OnCard, Loads
    <3> QED
      BY <1>1, <2>1, <3>2 DEF Register!Next, Register!PutBack, Aside
  <2> QED
    BY <1>4, <2>2, <2>3, <2>4 DEF Promote, RollBack
<1> QED
  BY <1>2, <1>3, <1>4 DEF SaveStep

(* A save that begins leaves the old place readable. *)
LEMMA PersistRefines ==
  ASSUME PersistInv, NEW asker, NEW p, Persist(asker, p), UNCHANGED place
  PROVE  [Register!Next]_CardVars
<1>1. step = "idle" /\ step' = "create" /\ UNCHANGED path /\ version' = version + 1
  BY DEF Persist, Save, Go
<1>2. Loads => path # version' /\ path \in 1 .. MaxSaves
  BY <1>1, StoreAssumption DEF PersistInv, Inv, TypeOK, PathCurrent, Current, Loads, Absent,
     Contents
<1>3. Loads => savedAs'[path] = savedAs[path]
  <2>1. /\ DOMAIN savedAs = 1 .. MaxSaves
        /\ savedAs' = [v \in 1 .. MaxSaves |->
                         IF v = version' THEN place
                         ELSE IF v \in {path, temporary', backup} THEN savedAs[v] ELSE Nowhere]
    BY DEF PersistInv, PersistTypeOK, Persist
  <2> QED
    BY <1>2, <2>1
<1>4. OnCard' = OnCard
  BY <1>1, <1>3 DEF OnCard, Loads
<1> QED
  BY <1>1, <1>4 DEF CardVars, Aside

(* remove() is the register's Forget, and a loss of power gives up what    *)
(* was set aside.                                                          *)
LEMMA ForgettingRefines ==
  ASSUME PersistInv, RemoveStep \/ ConfirmRestart \/ PowerFails \/ PowerReturns
  PROVE  [Register!Next]_CardVars
<1>1. CASE RemoveStep
  <2>1. step # "promote" /\ step' # "promote" /\ UNCHANGED savedAs
    BY <1>1 DEF RemoveStep, ForgetBackup, Forget, Go, Fail
  <2>2. CASE UNCHANGED <<path, readerVars, policy>>
    BY <2>1, <2>2 DEF CardVars, OnCard, Loads, Aside, readerVars
  <2>3. CASE path' = Absent /\ Restarted
    <3>1. OnCard' = Nowhere /\ Aside' = Nowhere
      BY <2>1, <2>3 DEF OnCard, Loads, Aside, Absent
    <3>2. place' \in Places
      BY <1>1, <2>3, RemovingFiles, PlacesOfBooks DEF Restarted
    <3> QED
      BY <3>1, <3>2 DEF Register!Next, Register!Forget, Aside
  <2> QED
    BY <1>1, <2>2, <2>3, RemovingFiles
<1>2. CASE ConfirmRestart \/ PowerReturns
  <2>1. step # "promote" /\ step' # "promote" /\ UNCHANGED <<place, path, savedAs>>
    BY <1>2 DEF ConfirmRestart, Remove, PowerReturns, Boot, Go, readerVars
  <2> QED
    BY <2>1 DEF CardVars, OnCard, Loads, Aside
<1>3. CASE PowerFails
  <2>1. step' = "off" /\ UNCHANGED <<place, path, savedAs>>
    BY <1>3 DEF PowerFails, PowerLoss
  <2>2. OnCard' = OnCard /\ Aside' = Nowhere
    BY <2>1 DEF OnCard, Loads, Aside
  <2> QED
    BY <2>1, <2>2 DEF Register!Next, Register!Abandon, Aside
<1> QED
  BY <1>1, <1>2, <1>3

(* Reading, while the store rests, moves the reader at most. *)
LEMMA ReadingRefines ==
  ASSUME PersistInv, Free, UNCHANGED savedAs, place' \in Places \cup {place}
  PROVE  [Register!Next]_CardVars
<1>1. UNCHANGED <<step, path, previous, backup>> /\ step = "idle"
  BY DEF Free, vars
<1>2. OnCard' = OnCard /\ Aside = Nowhere /\ Aside' = Nowhere
  BY <1>1 DEF OnCard, Loads, Aside
<1>3. CASE place' = place
  BY <1>2, <1>3 DEF CardVars
<1>4. CASE place' \in Places
  BY <1>2, <1>4 DEF Register!Next, Register!Move, Aside
<1> QED
  BY <1>3, <1>4

LEMMA NextRefines == PersistInv /\ [PersistNext]_allVars => [Register!Next]_CardVars
<1> SUFFICES ASSUME PersistInv, [PersistNext]_allVars PROVE [Register!Next]_CardVars
  OBVIOUS
<1>1. CASE SaveStep
  BY <1>1, SavingRefines
<1>2. CASE RemoveStep \/ ConfirmRestart \/ PowerFails \/ PowerReturns
  BY <1>2, ForgettingRefines
<1>3. CASE BackToLibrary \/ EnterSleepMode \/ ForcedSave \/ PolicySave
  BY <1>3, PersistRefines DEF BackToLibrary, EnterSleepMode, ForcedSave, PolicySave, readerVars
<1>4. CASE OpenBook \/ OpeningFails \/ PageLaidOut \/ OpenMenu \/ CloseMenu \/ CycleFontFamily
           \/ DismissError \/ Settle \/ Elapse \/ GoQuiet
  <2>1. Free /\ UNCHANGED <<savedAs, place>>
    BY <1>4 DEF OpenBook, OpeningFails, PageLaidOut, OpenMenu, CloseMenu, CycleFontFamily,
       DismissError, Settle, Elapse, GoQuiet, StaysSaved, readerVars
  <2> QED
    BY <2>1, ReadingRefines
<1>5. CASE BookParsed \/ TurnPage \/ GeneratePage \/ SelectTocEntry
  <2>1. PersistInv'
    BY NextPersistInv
  <2>2. app' \in {"Laying", "Reading", "Menu"} /\ Free /\ UNCHANGED savedAs
    BY <1>5 DEF BookParsed, TurnPage, GeneratePage, SelectTocEntry, StaysSaved, TapMenu
  <2>3. place' \in Places \cup {Nowhere} /\ place'.book = book' /\ book' \in Books
    BY <2>1, <2>2 DEF PersistInv, PersistTypeOK, OpenIsABook, ResumesOwnPlace
  <2>4. Nowhere.book \notin Books
    BY PersistenceAssumption DEF Nowhere
  <2> QED
    BY <2>2, <2>3, <2>4, ReadingRefines
<1>6. CASE UNCHANGED allVars
  <2>1. UNCHANGED <<place, path, savedAs, step, previous, backup>>
    BY <1>6 DEF allVars, vars, persistVars, readerVars
  <2> QED
    BY <2>1 DEF CardVars, OnCard, Loads, Aside
<1> QED
  BY <1>1, <1>2, <1>3, <1>4, <1>5, <1>6 DEF PersistNext

(* The files are a register of the saved place, however the file system    *)
(* and the power fail: what ReadingStateStore::load() gives is the place   *)
(* that was read when the last save succeeded, or nothing, and a save that *)
(* fails brings back nothing but what it had set aside.                    *)
THEOREM PersistImplementsRegister == PersistSpec => CardIsRegister
<1>1. PersistInit => Register!Init
  BY DEF PersistInit, Init, Register!Init, OnCard, Loads, Absent
<1>2. PersistInv /\ [PersistNext]_allVars => [Register!Next]_CardVars
  BY NextRefines
<1> QED
  BY <1>1, <1>2, PersistInvariant, PersistSafety, PTL
     DEF CardIsRegister, Register!Spec, CardVars, Aside
=============================================================================
