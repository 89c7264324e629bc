---------------------------- MODULE Persistence ----------------------------
(***************************************************************************)
(* When the application saves the reading position, and what it resumes    *)
(* from (app/AppController): it marks the position dirty as pages are      *)
(* shown, asks PersistPolicy in every idle tick, saves at once on a change *)
(* of font, before the library and before sleep, and removes the state     *)
(* when the book is restarted.  One file serves all the books.             *)
(*                                                                         *)
(* The store's calls take many steps, and the loop waits for them.  What   *)
(* is left of reading is where the reader is; a place stands for a text    *)
(* position and the font.  The card is mounted.                            *)
(***************************************************************************)
EXTENDS ReadingStateStore, PersistPolicy

CONSTANTS
  Books,  \* the books on the card
  PagesOf \* the places of each

ASSUME PersistenceAssumption ==
  "none" \notin Books /\ \A b \in Books : PagesOf[b] \subseteq Nat /\ 1 \in PagesOf[b]

VARIABLES
  app,     \* AppState, of the states a book goes through, "Off" without power
  book,    \* the book that was opened last
  place,   \* reader_.currentAnchor(), of reader_.book()
  hasPage, \* the reader has a page, which the menu goes back to
  waits,   \* what a save in Reading waits for
  policy,  \* persistPolicy_
  forced,  \* forcedPersistPending_
  asked,   \* who called the store
  savedAs, \* the places saved under the versions on the card
  quiet    \* the user does nothing any more

readerVars == <<app, book, place, hasPage, waits>>
persistVars == <<readerVars, policy, forced, asked, savedAs, quiet>>
allVars == <<vars, persistVars>>

PlacesIn(b) == [book : {b}, page : PagesOf[b]]
Places == UNION {PlacesIn(b) : b \in Books}
Nowhere == [book |-> "none", page |-> 0]
StartOf(b) == [book |-> b, page |-> 1]

Apps == {"Library", "Parsing", "Laying", "Reading", "Menu", "Error", "Off"}

(* The panel, then one tick at least, then the prefetch of the next page. *)
Waits == {"panel", "before", "prefetch", "nothing"}
Askers == {"nobody", "forced", "policy", "library", "sleep", "restart"}

PersistInit ==
  /\ Init
  /\ app = "Library" /\ book = "none" /\ place = Nowhere /\ hasPage = FALSE /\ waits = "nothing"
  /\ policy = CleanState /\ forced = FALSE /\ asked = "nobody"
  /\ savedAs = [v \in 1 .. MaxSaves |-> Nowhere] /\ quiet = FALSE
-----------------------------------------------------------------------------
(***************************************************************************)
(* Saving.                                                                 *)
(***************************************************************************)
(* Mutated: the place being prefetched is saved. *)
PersistWorkingAnchor(asker, p) ==
  /\ Save
  /\ policy' = p /\ asked' = asker
  /\ \E next \in PlacesIn(book) \ {place} :
       savedAs' = [v \in DOMAIN savedAs |->
                     IF v = version' THEN next
                     ELSE IF v \in {path, temporary', backup} THEN savedAs[v] ELSE Nowhere]

(* persistReadingState() begins: places no file holds are forgotten. *)
Persist(asker, p) ==
  /\ Save
  /\ policy' = p /\ asked' = asker
  /\ savedAs' = [v \in DOMAIN savedAs |->
                   IF v = version' THEN place
                   ELSE IF v \in {path, temporary', backup} THEN savedAs[v] ELSE Nowhere]

(* What the caller goes on with; leaving and sleeping ignore the result. *)
Returned(ok) ==
  /\ policy' = IF ok THEN RecordSaved(policy) ELSE policy
  /\ forced' = (forced /\ ~(asked = "forced" /\ ok))
  /\ asked' = "nobody"
  /\ CASE asked = "library" -> app' = "Library" /\ UNCHANGED <<book, place, hasPage, waits>>
       [] asked = "sleep" -> /\ app' = IF hasPage THEN "Reading" ELSE "Library"
                             /\ waits' = "panel" /\ UNCHANGED <<book, place, hasPage>>
       [] OTHER -> UNCHANGED readerVars

SaveStep ==
  /\ CreateTemporary \/ WriteTemporary \/ DropBackup \/ PreservePrevious \/ Promote \/ Clean
  /\ IF step' = "idle" THEN Returned(step = "clean")
     ELSE UNCHANGED <<readerVars, policy, forced, asked>>
  /\ UNCHANGED <<savedAs, quiet>>

(* The book is laid out from its start, once its state is gone. *)
Restarted ==
  /\ policy' = RecordSaved(policy)
  /\ place' = StartOf(book) /\ hasPage' = FALSE
  /\ app' \in {"Laying"} \cup IF MediaFaults THEN {"Error"} ELSE {}
  /\ UNCHANGED <<book, waits>>

RemoveStep ==
  /\ ForgetBackup \/ Forget
  /\ asked' = IF step' = "idle" THEN "nobody" ELSE asked
  /\ IF step = "forget" /\ path' = Absent THEN Restarted ELSE UNCHANGED <<readerVars, policy>>
  /\ UNCHANGED <<forced, savedAs, quiet>>
-----------------------------------------------------------------------------
(***************************************************************************)
(* Opening a book and reading it.                                          *)
(***************************************************************************)
Free == step = "idle" /\ UNCHANGED vars
Resting == waits \in {"before", "nothing"}

StaysSaved == UNCHANGED <<policy, forced, asked, savedAs, quiet>>

OpenBook ==
  /\ Free /\ app = "Library" /\ ~quiet
  /\ app' = "Parsing" /\ book' \in Books /\ hasPage' = FALSE
  /\ UNCHANGED <<place, waits>> /\ StaysSaved

(* Mutated: whichever book the state is of. *)
RestoredOfAnyBook ==
  {StartOf(book)} \cup IF Loads THEN {savedAs[path]} ELSE {}

(* startReaderWithSavedState(); a place that cannot be opened is ignored. *)
Restored ==
  IF ~Loads \/ savedAs[path].book # book THEN {StartOf(book)}
  ELSE {savedAs[path]} \cup IF MediaFaults THEN {StartOf(book)} ELSE {}

BookParsed ==
  /\ Free /\ app = "Parsing"
  /\ app' = "Laying" /\ place' \in Restored
  /\ UNCHANGED <<book, hasPage, waits>> /\ StaysSaved

OpeningFails ==
  /\ MediaFaults /\ Free /\ app \in {"Parsing", "Laying"}
  /\ app' = "Error" /\ hasPage' = FALSE
  /\ UNCHANGED <<book, place, waits>> /\ StaysSaved

(* Mutated: only a turned page is dirty, not one that was laid out. *)
PageLaidOutClean ==
  /\ Free /\ app = "Laying"
  /\ app' = "Reading" /\ hasPage' = TRUE /\ waits' = "panel"
  /\ UNCHANGED <<book, place>> /\ StaysSaved

PageLaidOut ==
  /\ Free /\ app = "Laying"
  /\ app' = "Reading" /\ hasPage' = TRUE /\ waits' = "panel"
  /\ policy' = MarkDirty(policy, TRUE)
  /\ UNCHANGED <<book, place, forced, asked, savedAs, quiet>>

(* A cached page is shown at once. *)
TurnPage ==
  /\ Free /\ app = "Reading" /\ Resting /\ hasPage /\ ~quiet
  /\ place' \in PlacesIn(book) \ {place}
  /\ waits' = "panel" /\ policy' = MarkDirty(policy, TRUE)
  /\ UNCHANGED <<app, book, hasPage, forced, asked, savedAs, quiet>>

(* One that is generated, or the same in another size, is laid out first. *)
GeneratePage ==
  /\ Free /\ app = "Reading" /\ Resting /\ hasPage /\ ~quiet
  /\ app' = "Laying" /\ place' \in PlacesIn(book)
  /\ UNCHANGED <<book, hasPage, waits>> /\ StaysSaved

OpenMenu ==
  /\ Free /\ app = "Reading" /\ Resting /\ ~quiet
  /\ app' = "Menu" /\ waits' = "panel"
  /\ UNCHANGED <<book, place, hasPage>> /\ StaysSaved

(* The menu answers while the panel is idle. *)
TapMenu == app = "Menu" /\ Resting /\ ~quiet

CloseMenu ==
  /\ Free /\ TapMenu
  /\ app' = "Reading" /\ waits' = IF hasPage THEN "panel" ELSE waits
  /\ UNCHANGED <<book, place, hasPage>> /\ StaysSaved

(* The new place counts as saved; a refused one has reset the session. *)
SelectTocEntry ==
  /\ Free /\ TapMenu
  /\ \/ /\ app' = "Laying" /\ place' \in PlacesIn(book)
        /\ policy' = RecordSaved(policy) /\ UNCHANGED hasPage
     \/ /\ place' = StartOf(book) /\ hasPage' = FALSE
        /\ UNCHANGED <<app, policy>>
  /\ UNCHANGED <<book, waits, forced, asked, savedAs, quiet>>

CycleFontFamily ==
  /\ Free /\ TapMenu
  /\ policy' = MarkDirty(policy, FALSE) /\ forced' = TRUE
  /\ app' \in {"Menu", "Laying"}
  /\ UNCHANGED <<book, place, hasPage, waits, asked, savedAs, quiet>>

BackToLibrary ==
  /\ TapMenu
  /\ Persist("library", MarkDirty(policy, TRUE))
  /\ UNCHANGED <<readerVars, forced, quiet>>

(* From the menu or after ten minutes; the library saves nothing. *)
EnterSleepMode ==
  /\ app \in {"Reading", "Menu"} /\ Resting
  /\ Persist("sleep", MarkDirty(policy, TRUE))
  /\ UNCHANGED <<readerVars, forced, quiet>>

(* The state that cannot be removed leaves the menu open. *)
ConfirmRestart ==
  /\ TapMenu
  /\ Remove
  /\ asked' = IF step' = "idle" THEN "nobody" ELSE "restart"
  /\ UNCHANGED <<readerVars, policy, forced, savedAs, quiet>>

DismissError ==
  /\ Free /\ app = "Error" /\ ~quiet
  /\ app' = "Library"
  /\ UNCHANGED <<book, place, hasPage, waits>> /\ StaysSaved
-----------------------------------------------------------------------------
(***************************************************************************)
(* The ticks of Reading with an idle panel: a forced save is tried in      *)
(* every one of them, and the policy is not asked meanwhile.               *)
(***************************************************************************)
ForcedSave ==
  /\ app = "Reading" /\ waits # "panel" /\ forced /\ policy.dirty
  /\ Persist("forced", policy)
  /\ UNCHANGED <<readerVars, forced, quiet>>

PolicySave ==
  /\ app = "Reading" /\ waits # "panel" /\ ~forced /\ ShouldSave(policy, waits = "prefetch")
  /\ Persist("policy", policy)
  /\ UNCHANGED <<readerVars, forced, quiet>>

(* The panel becomes idle; the prefetch begins in a tick that had a chance *)
(* to save, and ends.                                                      *)
Settle ==
  /\ Free /\ waits # "nothing"
  /\ app = "Reading" /\ waits = "before" =>
       ~(forced /\ policy.dirty) /\ ~ShouldSave(policy, FALSE)
  /\ waits' = CASE waits = "panel" -> "before"
                [] waits = "before" -> IF app = "Reading" THEN "prefetch" ELSE "nothing"
                [] OTHER -> "nothing"
  /\ UNCHANGED <<app, book, place, hasPage>> /\ StaysSaved

Elapse ==
  /\ Free /\ app # "Off"
  /\ policy' = PolicyAged(policy)
  /\ UNCHANGED <<readerVars, forced, asked, savedAs, quiet>>

PowerFails ==
  /\ PowerLoss
  /\ app' = "Off" /\ asked' = "nobody"
  /\ hasPage' = FALSE /\ waits' = "nothing" /\ policy' = CleanState /\ forced' = FALSE
  /\ UNCHANGED <<book, place, savedAs, quiet>>

PowerReturns ==
  /\ Boot
  /\ app' = "Library"
  /\ UNCHANGED <<book, place, hasPage, waits, policy, forced, asked, savedAs, quiet>>

GoQuiet ==
  /\ Free /\ ~quiet /\ quiet' = TRUE
  /\ UNCHANGED <<readerVars, policy, forced, asked, savedAs>>

PersistNext ==
  \/ SaveStep \/ RemoveStep \/ OpenBook \/ BookParsed \/ OpeningFails \/ PageLaidOut
  \/ TurnPage \/ GeneratePage \/ OpenMenu \/ CloseMenu \/ SelectTocEntry \/ CycleFontFamily
  \/ BackToLibrary \/ EnterSleepMode \/ ConfirmRestart \/ DismissError \/ ForcedSave
  \/ PolicySave \/ Settle \/ Elapse \/ PowerFails \/ PowerReturns \/ GoQuiet

(* The loop goes on, and time with it. *)
PersistSpec ==
  /\ PersistInit /\ [][PersistNext]_allVars
  /\ WF_allVars(SaveStep) /\ WF_allVars(ForcedSave) /\ WF_allVars(PolicySave)
  /\ WF_allVars(Settle) /\ WF_allVars(Elapse)
-----------------------------------------------------------------------------
PersistTypeOK ==
  /\ TypeOK
  /\ app \in Apps /\ book \in Books \cup {"none"} /\ place \in Places \cup {Nowhere}
  /\ hasPage \in BOOLEAN /\ waits \in Waits /\ policy \in PersistStates
  /\ forced \in BOOLEAN /\ asked \in Askers /\ quiet \in BOOLEAN
  /\ savedAs \in [1 .. MaxSaves -> Places \cup {Nowhere}]

OnCard == IF Loads THEN savedAs[path] ELSE Nowhere

(***************************************************************************)
(* No change of position is forgotten: while a page is read that the card  *)
(* does not hold, the policy knows it, whatever jumps, restarts, failed    *)
(* saves and other books came before, so a later tick saves it.            *)
(***************************************************************************)
UnsavedIsDirty ==
  app = "Reading" /\ hasPage /\ step = "idle" /\ OnCard # place => policy.dirty

(***************************************************************************)
(* A book never resumes at a place of another, although one file holds the *)
(* position of whichever was saved last.                                   *)
(***************************************************************************)
ResumesOwnPlace == app \in {"Laying", "Reading", "Menu"} => place.book = book

(***************************************************************************)
(* When the user stops turning pages the position reaches the card: each   *)
(* attempt may fail, and the next is made, until the bound on saves.       *)
(***************************************************************************)
SavedWhenLeftAlone ==
  (quiet /\ app = "Reading" /\ hasPage)
    ~> (OnCard = place \/ version = MaxSaves \/ app # "Reading")

(***************************************************************************)
(* The files on the card are, through every failing call and loss of       *)
(* power, a register of the place that was read when it was saved.         *)
(***************************************************************************)
Register == INSTANCE SavedPosition WITH
  saved <- OnCard,
  aside <- IF step = "promote" /\ previous THEN savedAs[backup] ELSE Nowhere

CardIsRegister == Register!Spec
=============================================================================
