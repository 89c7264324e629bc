---------------------------- MODULE ReadingLoop ----------------------------
(***************************************************************************)
(* The reading part of the application (app/AppController): one            *)
(* cooperative loop whose tick() handles input, serves the queued action,  *)
(* works on the CPU while the e-paper panel is busy, lays out the page     *)
(* being opened and prefetches the next one.  The phases of a tick are     *)
(* actions taken in tick()'s order; only the panel, which becomes idle     *)
(* on its own, interleaves with them.                                      *)
(*                                                                         *)
(* Wi-Fi, the library's own work and persistence are other modules'.       *)
(***************************************************************************)
EXTENDS ReaderController, PendingReaderActions

CONSTANTS
  Cover,        \* the book has a cover: menu and sleep use the image canvas
  MediaFaults,  \* whether the archive may refuse an entry or fail a read
  Gestures,     \* the user's gestures a run considers
  SavedStates   \* the reading states the card may hold for this book

AllGestures == {"Lever", "Center", "Menu", "Pages", "Library", "Toc", "Family", "Restart", "Sleep"}

ASSUME LoopAssumption ==
  /\ {Cover, MediaFaults} \subseteq BOOLEAN
  /\ Gestures \subseteq AllGestures
  /\ SavedStates \subseteq [anchor : Anchors, size : Sizes, family : Families,
                           history : Seq(Anchors)]

VARIABLES
  rd,        \* the ReaderController
  app,       \* AppState, of the states reading goes through
  layingOut, \* readingLayout_: OpeningBook lays a page out, it parses otherwise
  pending,   \* pendingReaderActions_
  manual,    \* manualRefreshPending_
  busy,      \* M5.Display.displayBusy()
  shown,     \* what the panel shows: a page's text, OtherScreen, Covers or Garbled
  submitted, \* lastSubmittedSource_: the canvas that was submitted last
  phase      \* the phase of tick() that comes next

vars == <<rd, app, layingOut, pending, manual, busy, shown, submitted, phase>>

AppStates == {"Library", "OpeningBook", "Reading", "ReaderMenu", "ErrorDialog"}
Phases == {"lever", "touch", "queue", "panel", "work"}

(* DisplayManager's canvas(), the reader's prefetchCanvas_, imageCanvas() *)
Canvases == {"display", "prefetch", "image"}

(* Part of a page among what was on the panel before. *)
Garbled == [spine |-> 0, from |-> 2, to |-> 0]

(* The library with the covers of its books. *)
Covers == [spine |-> 0, from |-> 3, to |-> 0]

Answers == IF MediaFaults THEN BOOLEAN ELSE {TRUE}

Init ==
  /\ rd = OnCanvas(NewReader, "front", OtherScreen)
  /\ app = "Library" /\ layingOut = FALSE
  /\ pending = EmptyQueue /\ manual = FALSE
  /\ busy = FALSE /\ shown = OtherScreen /\ submitted = "display"
  /\ phase = "lever"
-----------------------------------------------------------------------------
(***************************************************************************)
(* What a handler does to the screen.                                      *)
(***************************************************************************)
At(here, next) == phase = here /\ phase' = next

(* Each tick polls the lever first, which may have nothing to say. *)
AtTouch == phase \in {"lever", "touch"} /\ phase' = "queue"

(* Another view is drawn on the display's own canvas, one of the reader's. *)
DrawnOver(r) == OnCanvas(r, r.displayCanvas, OtherScreen)
DrawnOverUnlessCover(r) == IF Cover THEN r ELSE DrawnOver(r)

Submit(canvas, content) == busy' = TRUE /\ shown' = content /\ submitted' = canvas
SubmitScreen == Submit("display", OtherScreen)
SubmitCover == Submit(IF Cover THEN "image" ELSE "display", OtherScreen)
NoSubmit == UNCHANGED <<busy, shown, submitted>>

FrontCanvas(r) == IF r.displayCanvas = "front" THEN "display" ELSE "prefetch"

(* Mutated: canvases of different depths are compared. *)
SubmitPageOfAnyDepth(r) ==
  LET misled == submitted # FrontCanvas(r) /\ (submitted = "image" \/ r.back # shown)
  IN  \E content \in {r.front} \cup IF misled THEN {Garbled} ELSE {} :
        Submit(FrontCanvas(r), content)

(***************************************************************************)
(* A page submitted from another canvas than the last one, of the same     *)
(* depth, may be refreshed in part: where the two canvases differ.  The    *)
(* rest keeps what the panel shows, which the other canvas is taken for.   *)
(***************************************************************************)
SubmitPage(r) ==
  LET misled == submitted \notin {"image", FrontCanvas(r)} /\ r.back # shown
  IN  \E content \in {r.front} \cup IF misled THEN {Garbled} ELSE {} :
        Submit(FrontCanvas(r), content)

(* renderCurrentReaderPage() *)
Present(r) == rd' = Idle(r) /\ app' = "Reading" /\ SubmitPage(r)

ShowError(r) == rd' = DrawnOver(Idle(r)) /\ app' = "ErrorDialog" /\ SubmitScreen

LayOutPage(r) == rd' = Idle(r) /\ app' = "OpeningBook" /\ layingOut' = TRUE /\ NoSubmit

Stay(r) == rd' = Idle(r) /\ UNCHANGED <<app, layingOut>> /\ NoSubmit
-----------------------------------------------------------------------------
(***************************************************************************)
(* Reader actions: executed at once, or queued while the panel or the      *)
(* prefetch is busy; what is queued cancels the prefetch, except a page    *)
(* advance, which waits for it.                                            *)
(***************************************************************************)
AfterPageTurn(r) ==
  CASE r.result = "Completed" -> Present(r) /\ UNCHANGED layingOut
    [] r.result = "MoreWork"  -> LayOutPage(r)
    [] OTHER                  -> Stay(r)

(* An action of the lever within 600 ms of the last is ignored. *)
ExecuteFont(a, ok) ==
  LET r == IF a = "IncreaseFont" THEN IncreaseFontSize(rd, ok) ELSE DecreaseFontSize(rd, ok)
  IN  \/ Stay(rd)
      \/ r.result = "MoreWork" /\ LayOutPage(r)
      \/ r.result = "Idle" /\ Stay(r)
      \/ r.result = "Failed" /\ ShowError(r) /\ UNCHANGED layingOut

ExecuteMenu ==
  /\ rd' = DrawnOverUnlessCover(InvalidateReadyPrefetch(rd))
  /\ app' = "ReaderMenu" /\ SubmitCover /\ UNCHANGED layingOut

Execute(a, ok) ==
  CASE a = "OpenMenu"     -> ExecuteMenu
    [] a = "PreviousPage" -> AfterPageTurn(RequestPreviousPage(rd, ok))
    [] a = "NextPage"     -> AfterPageTurn(RequestNextPage(rd, ok))
    [] OTHER              -> ExecuteFont(a, ok)

QueueAction(a) ==
  /\ pending' = Enqueue(pending, a)
  /\ rd' = IF Accepts(pending, a) /\ a # "NextPage" /\ HasWork(rd.prefetch)
           THEN CancelPrefetch(rd) ELSE rd
  /\ UNCHANGED <<app, layingOut>> /\ NoSubmit

(* Mutated: actions are queued for the panel's sake only. *)
HandleReaderActionInPrefetch(a, ok) ==
  IF busy THEN QueueAction(a)
  ELSE Execute(a, ok) /\ UNCHANGED pending

HandleReaderAction(a, ok) ==
  IF busy \/ rd.prefetching THEN QueueAction(a)
  ELSE Execute(a, ok) /\ UNCHANGED pending

Lever ==
  /\ At("lever", "touch")
  /\ "Lever" \in Gestures /\ app = "Reading"
  /\ \E a \in FontActions, ok \in Answers : HandleReaderAction(a, ok)
  /\ UNCHANGED manual

PressCenter ==
  /\ "Center" \in Gestures /\ At("lever", "touch")
  /\ manual' = TRUE
  /\ UNCHANGED <<rd, app, layingOut, pending>> /\ NoSubmit

TouchPage ==
  /\ AtTouch
  /\ app = "Reading"
  /\ \E a \in ReaderActions \ FontActions, ok \in Answers :
       (a = "OpenMenu" => "Menu" \in Gestures) /\ HandleReaderAction(a, ok)
  /\ UNCHANGED manual

PopAction ==
  /\ At("queue", "panel")
  /\ app = "Reading" /\ ~busy /\ ~rd.prefetching /\ ~IsEmpty(pending)
  /\ pending' = Popped(pending)
  /\ \E ok \in Answers : Execute(PopResult(pending), ok)
  /\ UNCHANGED manual
-----------------------------------------------------------------------------
(***************************************************************************)
(* The reader's menu.  Its items answer only while the panel is idle.      *)
(***************************************************************************)
TapMenu(gesture) ==
  /\ gesture \in Gestures
  /\ AtTouch /\ app = "ReaderMenu" /\ ~busy /\ UNCHANGED <<pending, manual>>

CloseMenu ==
  /\ TapMenu("Menu")
  /\ IF CanRedraw(rd) THEN Present(RedrawCurrentPage(rd))
     ELSE rd' = rd /\ app' = "Reading" /\ NoSubmit
  /\ UNCHANGED layingOut

(* The table of contents and the restart question use the display's canvas. *)
TurnMenuPage ==
  /\ TapMenu("Pages")
  /\ rd' = DrawnOver(rd) /\ SubmitScreen
  /\ UNCHANGED <<app, layingOut>>

BackToLibrary ==
  /\ TapMenu("Library")
  /\ app' = "Library" /\ rd' = DrawnOver(rd) /\ SubmitScreen
  /\ UNCHANGED layingOut

(* A refused entry leaves the menu open, with the session already reset. *)
SelectTocEntry ==
  /\ TapMenu("Toc")
  /\ \E c \in Chapters, ok \in Answers :
       LET r == StartAtSpine(rd, c, ok)
       IN  IF r.result = "Failed" THEN Stay(r) ELSE LayOutPage(r)

TapFontFamily ==
  /\ TapMenu("Family")
  /\ \E ok \in Answers :
       LET r == CycleFontFamily(rd, ok)
       IN  IF r.result = "MoreWork" THEN LayOutPage(r) ELSE Stay(r)

ConfirmRestart ==
  /\ TapMenu("Restart")
  /\ \E ok \in Answers :
       LET r == Start(rd, ok)
       IN  IF r.result = "Failed" THEN ShowError(r) /\ UNCHANGED layingOut ELSE LayOutPage(r)

(* enterSleepMode() blocks the loop; on waking up the page is drawn again,  *)
(* or the library when there was none to resume.                           *)
SleepAndWake ==
  /\ ~busy
  /\ LET asleep == IF app = "Library" THEN DrawnOver(rd) ELSE DrawnOverUnlessCover(rd)
              awake  == RedrawCurrentPage(asleep)
     IN  IF app # "Library" /\ CanRedraw(asleep)
         THEN rd' = Idle(awake) /\ app' = "Reading" /\ Submit(FrontCanvas(awake), awake.front)
         ELSE rd' = DrawnOver(asleep) /\ app' = "Library" /\ SubmitScreen
  /\ UNCHANGED layingOut

TapSleep == TapMenu("Sleep") /\ SleepAndWake
-----------------------------------------------------------------------------
(* A book of the library is opened: its archive replaces the one in use. *)
OpenBook ==
  /\ AtTouch /\ app = "Library" /\ ~busy
  /\ rd' = [DrawnOver(rd) EXCEPT !.entryOpen = FALSE]
  /\ app' = "OpeningBook" /\ layingOut' = FALSE /\ SubmitScreen
  /\ UNCHANGED <<pending, manual>>

DismissError ==
  /\ AtTouch /\ app = "ErrorDialog"
  /\ app' = "Library" /\ SubmitScreen
  /\ UNCHANGED <<rd, layingOut, pending, manual>>

NoInput ==
  /\ AtTouch
  /\ UNCHANGED <<rd, app, layingOut, pending, manual>> /\ NoSubmit

NothingToPop ==
  /\ At("queue", "panel")
  /\ app # "Reading" \/ busy \/ rd.prefetching \/ IsEmpty(pending)
  /\ UNCHANGED <<rd, app, layingOut, pending, manual>> /\ NoSubmit
-----------------------------------------------------------------------------
(***************************************************************************)
(* While the panel is busy, one or two CPU-only steps fit into a tick; a   *)
(* manual refresh waits for it.  Reading submits the reader's page, every  *)
(* other state the display's canvas.                                       *)
(***************************************************************************)
CpuWork ==
  /\ At("panel", "work") /\ busy /\ HasCpuOnlyWork(rd)
  /\ LET once == ProcessCpuOnlyWork(rd)
     IN  rd' \in {once} \cup IF HasCpuOnlyWork(once) THEN {ProcessCpuOnlyWork(once)} ELSE {}
  /\ UNCHANGED <<app, layingOut, pending, manual>> /\ NoSubmit

CanRefresh == manual /\ ~busy /\ app # "OpeningBook"

(* Mutated: the reader's page is refreshed, whatever is shown. *)
ServicePageRefresh ==
  /\ At("panel", "work") /\ CanRefresh
  /\ manual' = FALSE
  /\ Submit(FrontCanvas(rd), rd.front)
  /\ UNCHANGED <<rd, app, layingOut, pending>>

ServiceManualRefresh ==
  /\ At("panel", "work") /\ CanRefresh
  /\ manual' = FALSE
  /\ IF app = "Reading" THEN Submit(FrontCanvas(rd), rd.front)
     ELSE Submit("display", IF rd.displayCanvas = "back" THEN rd.back ELSE rd.front)
  /\ UNCHANGED <<rd, app, layingOut, pending>>

PanelNeedsNothing ==
  /\ At("panel", "work") /\ ~(busy /\ HasCpuOnlyWork(rd)) /\ ~CanRefresh
  /\ UNCHANGED <<rd, app, layingOut, pending, manual>> /\ NoSubmit

(***************************************************************************)
(* The EPUB parser's own steps are not modelled: it goes on, ends or fails *)
(* by itself.  A saved position that cannot be opened is ignored.          *)
(***************************************************************************)
Parsing == At("work", "lever") /\ app = "OpeningBook" /\ ~busy /\ ~layingOut

ParseBook == Parsing /\ Stay(rd) /\ UNCHANGED <<pending, manual>>

StartReaderWithSavedState(r, saved, okSaved, ok) ==
  LET restored == StartAt(r, saved.anchor, saved.size, saved.family, saved.history, okSaved)
  IN  IF restored.result = "Failed" THEN Start(restored, ok) ELSE restored

BookParsed ==
  /\ Parsing
  /\ \E ok \in Answers :
       \E r \in {Start(rd, ok)}
              \cup {StartReaderWithSavedState(rd, s, okSaved, ok) :
                     s \in SavedStates, okSaved \in Answers} :
         IF r.result = "Failed" THEN ShowError(r) /\ UNCHANGED layingOut ELSE LayOutPage(r)
  /\ UNCHANGED <<pending, manual>>

ParseFailed ==
  /\ MediaFaults /\ Parsing
  /\ ShowError(rd) /\ UNCHANGED <<layingOut, pending, manual>>

(* Mutated: a failed layout leaves the book opening. *)
LayOutStepIgnoringFailure ==
  /\ At("work", "lever") /\ app = "OpeningBook" /\ ~busy /\ layingOut
  /\ \E ok \in Answers :
       LET r == ProcessNextChunk(rd, ok)
       IN  IF r.result = "Completed" THEN Present(r) /\ UNCHANGED layingOut ELSE Stay(r)
  /\ UNCHANGED <<pending, manual>>

LayOutStep ==
  /\ At("work", "lever") /\ app = "OpeningBook" /\ ~busy /\ layingOut
  /\ \E ok \in Answers :
       LET r == ProcessNextChunk(rd, ok)
       IN  CASE r.result = "Completed" -> Present(r) /\ UNCHANGED layingOut
             [] r.result = "Failed"    -> ShowError(r) /\ UNCHANGED layingOut
             [] OTHER                  -> Stay(r)
  /\ UNCHANGED <<pending, manual>>

(* The next page is requested and, in the same tick, its first step taken. *)
PrefetchStep ==
  /\ At("work", "lever") /\ app = "Reading" /\ ~busy
  /\ \E asked, ok \in Answers :
       LET r == IF rd.prefetching THEN rd ELSE RequestPrefetch(rd, asked)
       IN  rd' = Idle(IF r.prefetching THEN ProcessNextChunk(r, ok) ELSE r)
  /\ UNCHANGED <<app, layingOut, pending, manual>> /\ NoSubmit

(* The library is drawn again as its entries arrive, and on the image canvas *)
(* as soon as there are covers to draw.                                      *)
DrawLibrary ==
  /\ At("work", "lever") /\ app = "Library" /\ ~busy
  /\ \/ rd' = DrawnOver(rd) /\ SubmitScreen
     \/ rd' = rd /\ Submit("image", Covers)
  /\ UNCHANGED <<app, layingOut, pending, manual>>

NothingToWorkOn ==
  /\ At("work", "lever") /\ (app \notin {"OpeningBook", "Reading"} \/ busy)
  /\ UNCHANGED <<rd, app, layingOut, pending, manual>> /\ NoSubmit

(* canEnterAutomaticSleep(), at the end of a tick long after the last touch *)
AutomaticSleep ==
  /\ "Sleep" \in Gestures
  /\ At("lever", "lever") /\ app \in {"Library", "Reading", "ReaderMenu"} /\ ~rd.prefetching
  /\ SleepAndWake
  /\ UNCHANGED <<pending, manual>>

DisplayIdle ==
  /\ busy /\ busy' = FALSE
  /\ UNCHANGED <<rd, app, layingOut, pending, manual, shown, submitted, phase>>
-----------------------------------------------------------------------------
Input ==
  \/ Lever \/ PressCenter \/ TouchPage \/ CloseMenu \/ TurnMenuPage \/ BackToLibrary
  \/ SelectTocEntry \/ TapFontFamily \/ ConfirmRestart \/ TapSleep \/ OpenBook
  \/ DismissError \/ NoInput

Work ==
  \/ PopAction \/ NothingToPop \/ CpuWork \/ ServiceManualRefresh \/ PanelNeedsNothing
  \/ ParseBook \/ BookParsed \/ ParseFailed \/ LayOutStep \/ PrefetchStep \/ DrawLibrary
  \/ NothingToWorkOn

Next == Input \/ Work \/ AutomaticSleep \/ DisplayIdle

Spec == Init /\ [][Next]_vars

(***************************************************************************)
(* Fairness: the loop keeps running (loop() calls tick() again and again), *)
(* the panel finishes every refresh, and a parser that is given ticks      *)
(* comes to the end of the book's file.                                    *)
(***************************************************************************)
FairSpec ==
  /\ Spec
  /\ WF_vars(Input \/ Work) /\ WF_vars(DisplayIdle)
  /\ SF_vars(BookParsed \/ ParseFailed)
-----------------------------------------------------------------------------
InBook == app \in {"Reading", "OpeningBook"}

(* Every field of the reader and of the loop keeps to its values. *)
TypeOK ==
  /\ rd \in Readers /\ rd.result = "Idle"
  /\ app \in AppStates /\ phase \in Phases
  /\ layingOut \in BOOLEAN /\ manual \in BOOLEAN /\ busy \in BOOLEAN
  /\ pending \in Queue /\ shown \in Texts /\ submitted \in Canvases

(***************************************************************************)
(* The queued actions stay coherent through every press, tap and pop, so   *)
(* pop() always returns a real action.                                     *)
(***************************************************************************)
QueueCoherent == QueueConsistent(pending)

(***************************************************************************)
(* Pages and anchors are two vectors indexed alike by every method of the  *)
(* reader: they have one length, and currentPage_ is inside it.            *)
(***************************************************************************)
CacheValid == ValidCache(rd)

(* The text that comes after t starts at anchor a: there, or in the next *)
(* chapter that has any.                                                 *)
ContinuesAt(t, a) ==
  \/ a = [spine |-> t.spine, parserCheckpoint |-> t.to]
  \/ /\ t.to = TextLength[t.spine]
     /\ a.spine \in Linear /\ a.spine > t.spine /\ a = StartOf(a.spine)
     /\ \A c \in Linear : t.spine < c /\ c < a.spine => TextLength[c] = 0

(***************************************************************************)
(* No text is lost or repeated between pages: whatever cancelled           *)
(* prefetches, reflows, rebuilt pages and evictions came before, a cached  *)
(* page starts at its anchor and ends where the next page's anchor is.     *)
(***************************************************************************)
PagesContiguous ==
  \A i \in DOMAIN rd.texts : ~IsBlank(rd.texts[i]) =>
    /\ rd.texts[i].spine = rd.anchors[i].spine
    /\ rd.texts[i].from = rd.anchors[i].parserCheckpoint
    /\ i < Len(rd.texts) => ContinuesAt(rd.texts[i], rd.anchors[i + 1])

(***************************************************************************)
(* A page being laid out has its chapter's entry open in the archive, and  *)
(* the text it took so far runs from its anchor to the place the chapter   *)
(* is read at, or to the one it still has to seek.                         *)
(***************************************************************************)
WorkFollowsAnchor ==
  rd.active =>
    /\ rd.entryOpen /\ ~rd.chapterEnded
    /\ rd.workAnchor.spine = rd.chapter
    /\ rd.workAnchor.parserCheckpoint + Size(rd.work) = rd.pend + rd.seek
    /\ ~IsBlank(rd.work) =>
         /\ rd.work.spine = rd.chapter
         /\ rd.work.from = rd.workAnchor.parserCheckpoint

(***************************************************************************)
(* A prefetched page that is Ready is, pixel by pixel, the page after the  *)
(* current one: what requestNextPage() needs to swap the canvases.         *)
(***************************************************************************)
ReadyBufferIsNextPage ==
  rd.prefetch = "Ready" /\ rd.current + 1 < Len(rd.texts) =>
    rd.back = rd.texts[rd.current + 2]

(* t shows page text, or as much of its beginning as fits the screen. *)
Shows(t, text) == t.spine = text.spine /\ t.from = text.from /\ t.to \in t.from + 1 .. text.to

(***************************************************************************)
(* While the user reads, the panel shows what the page's canvas holds and  *)
(* a page that is not empty is the current one: never the menu, never the  *)
(* page prefetched behind it, and never a mixture of two pages after a     *)
(* refresh in part.                                                        *)
(***************************************************************************)
PanelShowsCurrentPage ==
  app = "Reading" =>
    /\ shown = rd.front
    /\ IsBlank(shown) \/ Shows(shown, rd.texts[rd.current + 1])

(***************************************************************************)
(* Old page texts are evicted until the cache is within its budget, but    *)
(* never the text of the page on the screen, which closing the menu and    *)
(* waking up draw again.                                                   *)
(***************************************************************************)
EvictionSparesCurrentPage ==
  /\ CachedUnits(rd.texts) <= MaxCached
  /\ app = "Reading" /\ rd.texts # <<>> => ~IsBlank(rd.texts[rd.current + 1])

(***************************************************************************)
(* However a page's layout ends - shown, cancelled or failed - nothing is  *)
(* left running: pages are laid out only while a book is open, prefetched  *)
(* only while it is read.                                                  *)
(***************************************************************************)
ReaderRestsOutsideBook ==
  /\ rd.active => InBook
  /\ rd.prefetching => rd.active /\ app = "Reading"

(***************************************************************************)
(* The prefetch works behind the user's back: as long as it runs, the page *)
(* on the front canvas and the current page do not change.                 *)
(***************************************************************************)
PrefetchIsInvisible ==
  [][rd.prefetching => UNCHANGED <<rd.front, rd.current>>]_vars

(***************************************************************************)
(* serviceManualRefresh() asks for a canvas by the state of the program,   *)
(* not for the one submitted last.  As long as that was not the image      *)
(* canvas (a menu over the cover, a library with covers), it is the right  *)
(* one after every page turn, swap, prefetch and menu: the panel shows     *)
(* again what it showed.                                                   *)
(***************************************************************************)
ManualRefreshKeepsContent ==
  [][manual /\ ~manual' /\ submitted # "image" => shown' = shown]_vars

CurrentAnchor(r) ==
  IF r.current < Len(r.anchors) THEN r.anchors[r.current + 1] ELSE r.workAnchor

(***************************************************************************)
(* A change of font lays out the page the reader is at, and as long as     *)
(* that page is being laid out again, the reader stays there.              *)
(***************************************************************************)
ReflowKeepsPlace ==
  [][/\ app = "Reading" /\ InBook' /\ rd'.size # rd.size => rd'.workAnchor = CurrentAnchor(rd)
     /\ InBook /\ InBook' /\ rd.rebuilding = rd.current =>
          CurrentAnchor(rd') = CurrentAnchor(rd)]_vars

(***************************************************************************)
(* Opening a book or a page ends: the chapter is read, laid out and shown, *)
(* or an error is.                                                         *)
(***************************************************************************)
OpeningEnds == app = "OpeningBook" ~> app # "OpeningBook"

(***************************************************************************)
(* A prefetch ends, by itself or by being cancelled, so what is queued     *)
(* behind it is served; only manual refreshes, which keep the panel busy,  *)
(* can hold it up for ever.                                                *)
(***************************************************************************)
PrefetchEnds == rd.prefetching ~> ~rd.prefetching \/ manual
-----------------------------------------------------------------------------
(* What the hardware test plan asks of the pages, and the code does not give *)

(***************************************************************************)
(* "A primeira página com a nova fonte não pode reutilizar pixels ou       *)
(* paginação do tamanho anterior" (docs/hardware-test-plan.md:138), and no *)
(* text may be omitted (:123): a page on the screen is there to its end.   *)
(***************************************************************************)
WholePageShown ==
  app = "Reading" /\ ~IsBlank(shown) => shown = rd.texts[rd.current + 1]

(***************************************************************************)
(* "Repita na biblioteca e no menu; o conteúdo atual deve permanecer o     *)
(* mesmo" (docs/hardware-test-plan.md:147): a manual refresh of the        *)
(* library shows the library again.                                        *)
(***************************************************************************)
RefreshKeepsLibrary == [][app = "Library" /\ manual /\ ~manual' => shown' = shown]_vars
=============================================================================
