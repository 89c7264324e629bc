-------------------------- MODULE DisplayManager --------------------------
(***************************************************************************)
(* Submissions to the panel (hal/DisplayManager) over a session of the     *)
(* reader: the reason of each refresh and the waveform the policy decides  *)
(* on, the part of the panel a page is sent to, and the measurement of     *)
(* page turns, on which the reason depends.                                *)
(*                                                                         *)
(* Here a canvas is drawn as it is submitted; what prefetching draws       *)
(* meanwhile is ReadingLoop's.  Nobody else holds the bus.                 *)
(***************************************************************************)
EXTENDS RefreshPolicy, DisplayRegion

CONSTANTS
  Pages,          \* the pictures of the reader's pages
  Screens,        \* and of everything else
  RapidWindow,    \* kRapidPageTurnWindowMs
  Expansion,      \* kDirtyRegionExpansionPixels
  Alignment,      \* kDisplayRegionAlignmentPixels
  PartialPercent  \* kPartialRefreshMaximumRegionRatio

ASSUME DisplayAssumption ==
  /\ Pages \cup Screens \subseteq Pictures
  /\ {RapidWindow, Alignment} \subseteq Nat \ {0}
  /\ Expansion \in Nat /\ PartialPercent \in 0 .. 100

VARIABLES
  display, \* the DisplayManager
  panel,   \* what the panel shows
  busy,    \* M5.Display.displayBusy()
  view,    \* what the application shows: the library, a page, its menu, or it sleeps
  front,   \* the canvas of the reader's page
  laying,  \* the book, or the kind of page turn, that is being laid out
  ghosts,  \* refreshes since the last Quality one
  age,     \* and the time since
  sent     \* the refresh the panel is busy with, if the policy decided on it

vars == <<display, panel, busy, view, front, laying, ghosts, age, sent>>

NoRefresh == [ordinary |-> FALSE, profile |-> "Quality", forced |-> FALSE]

(* canvas() and the reader's prefetchCanvas_, one bit deep; imageCanvas() is not. *)
MonoCanvases == {"display", "prefetch"}
Canvases == MonoCanvases \cup {"image"}

(* What the image canvas shows: all of it. *)
Cover == 0 .. Columns - 1

Views == {"Library", "Page", "Menu", "Asleep"}
QualityIntents == {"ImageQuality", "SleepCoverQuality", "WakeFromSleep"}
Intents ==
  QualityIntents \cup {"FullQuality", "ManualCleanup", "ReadingPage", "InteractiveFeedback"}

(* PageTurnKind, of the kinds that change anything *)
Kinds == {"Other", "CachedPrevious", "FontReflow", "TocNavigation"}
MaxGhosts == CounterMax + 2

Init ==
  /\ display = [budget |-> NewBudget, rapid |-> 0, turned |-> Never,
                kind |-> "Other", timing |-> FALSE, waiting |-> FALSE,
                canvas |-> [c \in Canvases |-> {}], last |-> "none"]
  /\ panel = {} /\ busy = FALSE
  /\ view = "Library" /\ front = "display" /\ laying = "none"
  /\ ghosts = 0 /\ age = Never /\ sent = NoRefresh
-----------------------------------------------------------------------------
(* beginPageTurnMetric(): the wait for an earlier turn's panel stays. *)
Begin(d, kind) == [d EXCEPT !.kind = kind, !.timing = TRUE]

(* consecutiveRapidTurns_ *)
RapidCount(d) ==
  IF d.turned # Never /\ d.turned <= RapidWindow THEN Increment(d.rapid) ELSE 1

PageReason(d) ==
  CASE d.timing /\ d.kind = "CachedPrevious" -> "PreviousPage"
    [] d.timing /\ d.kind \in {"FontReflow", "TocNavigation"} -> d.kind
    [] OTHER -> IF RapidCount(d) >= RapidTurns THEN "RapidPageTurn" ELSE "NormalPageTurn"

Reason(d, intent) ==
  CASE intent \in {"ImageQuality", "SleepCoverQuality"} -> "OpenBook"
    [] intent = "FullQuality" -> "Boot"
    [] intent = "InteractiveFeedback" -> "MenuOpen"
    [] intent = "ReadingPage" -> PageReason(d)
    [] OTHER -> intent

(* Where a page differs from what the other canvas, submitted last, holds. *)
Selected(d, source, picture, intent) ==
  LET comparable == intent = "ReadingPage" /\ {d.last, source} = MonoCanvases
      bounds     == Bounds(d.canvas[d.last], picture)
      region     == Aligned(Expanded(bounds, Expansion), Alignment)
  IN  IF comparable /\ ~Empty(bounds) /\ region.width * 100 <= PartialPercent * Columns
      THEN region ELSE NoRegion

(* Mutated: a menu is not remembered as submitted. *)
SubmitForgettingMenus(d, source, picture, intent) ==
  LET ofPage   == intent = "ReadingPage"
      reason   == Reason(d, intent)
      turns    == IF ofPage THEN RapidCount(d) ELSE 0
      decision == Decide(d.budget, reason, turns)
      profile  == IF intent \in QualityIntents THEN "Quality" ELSE decision.profile
      region   == IF profile = "Quality" THEN NoRegion ELSE Selected(d, source, picture, intent)
  IN  /\ display' = [d EXCEPT
           !.budget = RecordSubmitted(d.budget, profile),
           !.rapid = IF ofPage THEN turns ELSE @, !.turned = IF ofPage THEN 0 ELSE @,
           !.waiting = @ \/ d.timing,
           !.canvas[source] = picture, !.last = IF reason = "MenuOpen" THEN @ ELSE source]
      /\ sent' = [ordinary |-> ofPage /\ reason \notin TextReasons,
                  profile |-> profile, forced |-> decision.forced]
      /\ panel' = IF Empty(region) THEN picture ELSE Pushed(panel, picture, region)
      /\ busy' = TRUE
      /\ ghosts' = IF profile = "Quality" THEN 0 ELSE Min({ghosts + 1, MaxGhosts})
      /\ age' = IF profile = "Quality" THEN 0 ELSE age

(* submitCanvas(), of a picture drawn on the canvas *)
Submit(d, source, picture, intent) ==
  LET ofPage   == intent = "ReadingPage"
      reason   == Reason(d, intent)
      turns    == IF ofPage THEN RapidCount(d) ELSE 0
      decision == Decide(d.budget, reason, turns)
      profile  == IF intent \in QualityIntents THEN "Quality" ELSE decision.profile
      region   == IF profile = "Quality" THEN NoRegion ELSE Selected(d, source, picture, intent)
  IN  /\ display' = [d EXCEPT
           !.budget = RecordSubmitted(d.budget, profile),
           !.rapid = IF ofPage THEN turns ELSE @, !.turned = IF ofPage THEN 0 ELSE @,
           !.waiting = @ \/ d.timing,
           !.canvas[source] = picture, !.last = source]
      /\ sent' = [ordinary |-> ofPage /\ reason \notin TextReasons,
                  profile |-> profile, forced |-> decision.forced]
      /\ panel' = IF Empty(region) THEN picture ELSE Pushed(panel, picture, region)
      /\ busy' = TRUE
      /\ ghosts' = IF profile = "Quality" THEN 0 ELSE Min({ghosts + 1, MaxGhosts})
      /\ age' = IF profile = "Quality" THEN 0 ELSE age

NoSubmit == UNCHANGED <<panel, busy, ghosts, age, sent>>
-----------------------------------------------------------------------------
(***************************************************************************)
(* Who submits what.                                                       *)
(***************************************************************************)
(* A handler may run: the panel is idle and no page is being laid out. *)
At(views) == view \in views /\ ~busy /\ laying = "none"

ShowScreen(intents) ==
  \E picture \in Screens, intent \in intents : Submit(display, "display", picture, intent)

(* A page with an image is sent with Quality. *)
ShowPage(d) ==
  /\ \E canvas \in MonoCanvases, picture \in Pages, intent \in {"ReadingPage", "ImageQuality"} :
       Submit(d, canvas, picture, intent) /\ front' = canvas
  /\ view' = "Page"

(* The library, its menu, errors and the progress of card prefetch *)
ShowLibrary ==
  /\ At({"Library", "Menu"})
  /\ ShowScreen({"FullQuality", "ImageQuality", "InteractiveFeedback"})
  /\ view' = "Library" /\ UNCHANGED <<front, laying>>

(* showSelection(): drawn on the panel, and on no canvas. *)
HighlightRegion ==
  /\ At({"Library"})
  /\ panel' = panel \cup {0} /\ busy' = TRUE
  /\ UNCHANGED <<display, view, front, laying, ghosts, age, sent>>

(* The portal's part of the library's menu is refreshed alone. *)
SubmitRegion ==
  /\ At({"Library"})
  /\ \E picture \in Screens, region \in {Aligned(Between(1, Columns - 1), Alignment)} :
       /\ display' = [display EXCEPT !.canvas["display"] = picture]
       /\ panel' = Pushed(panel, picture, region)
  /\ busy' = TRUE
  /\ UNCHANGED <<view, front, laying, ghosts, age, sent>>

(* The panel may still be busy with the highlighted card. *)
OpenBook ==
  /\ view = "Library" /\ laying = "none"
  /\ ShowScreen({"FullQuality"})
  /\ laying' = "Opening" /\ UNCHANGED <<view, front>>

TurnsFrom(screen) ==
  IF screen = "Page" THEN {"Other", "CachedPrevious", "FontReflow"}
  ELSE {"Other", "TocNavigation", "FontReflow"}

(* A turn whose page is there, or MenuReturn *)
TurnAtOnce ==
  /\ At({"Page", "Menu"})
  /\ \E kind \in TurnsFrom(view) \ {"TocNavigation"} : ShowPage(Begin(display, kind))
  /\ UNCHANGED laying

TurnByLayout ==
  /\ At({"Page", "Menu"})
  /\ \E kind \in TurnsFrom(view) : display' = Begin(display, kind) /\ laying' = kind
  /\ NoSubmit /\ UNCHANGED <<view, front>>

(* The end or the start of the book: what was begun is measured no further. *)
TurnNowhere ==
  /\ At({"Page"})
  /\ \E kind \in {"Other", "CachedPrevious"} : display' = Begin(display, kind)
  /\ NoSubmit /\ UNCHANGED <<view, front, laying>>

PageLaidOut ==
  /\ laying # "none" /\ ~busy
  /\ ShowPage(display) /\ laying' = "none"

LayoutFails ==
  /\ laying # "none" /\ ~busy
  /\ ShowScreen({"FullQuality"})
  /\ view' = "Library" /\ laying' = "none" /\ UNCHANGED front

OpenMenu ==
  /\ At({"Page"})
  /\ \/ ShowScreen({"InteractiveFeedback"})
     \/ Submit(display, "image", Cover, "ImageQuality")
  /\ view' = "Menu" /\ UNCHANGED <<front, laying>>

(* The table of contents and the question before a restart *)
TurnMenuPage ==
  /\ At({"Menu"})
  /\ ShowScreen({"InteractiveFeedback"})
  /\ UNCHANGED <<view, front, laying>>

ServiceManualRefresh ==
  /\ At({"Library", "Page", "Menu"})
  /\ LET source == IF view = "Page" THEN front ELSE "display"
     IN  Submit(display, source, display.canvas[source], "ManualCleanup")
  /\ UNCHANGED <<view, front, laying>>

EnterSleepMode ==
  /\ At({"Library", "Page", "Menu"})
  /\ \/ ShowScreen({"FullQuality"})
     \/ view # "Library" /\ Submit(display, "image", Cover, "SleepCoverQuality")
  /\ view' = "Asleep" /\ UNCHANGED <<front, laying>>

Wake ==
  /\ At({"Asleep"})
  /\ \/ /\ \E picture \in Pages : Submit(display, front, picture, "WakeFromSleep")
        /\ view' = "Page"
     \/ view' = "Library" /\ NoSubmit /\ UNCHANGED display
  /\ UNCHANGED <<front, laying>>

PanelIdles ==
  /\ busy /\ busy' = FALSE /\ sent' = NoRefresh
  /\ UNCHANGED <<display, panel, view, front, laying, ghosts, age>>

(* pollPanelTiming() takes the turn that is measured for the one submitted. *)
PollPanelTiming ==
  /\ display.waiting /\ ~busy /\ view # "Asleep"
  /\ display' = [display EXCEPT !.waiting = FALSE, !.timing = FALSE]
  /\ UNCHANGED <<panel, busy, view, front, laying, ghosts, age, sent>>

Older(a, limit) == IF a = Never THEN Never ELSE Min({a + 1, limit})

Elapse ==
  /\ display' = [display EXCEPT !.budget.quality = Older(@, QualityTime),
                                !.turned = Older(@, RapidWindow + 1)]
  /\ age' = Older(age, QualityTime)
  /\ UNCHANGED <<panel, busy, view, front, laying, ghosts, sent>>

Next ==
  \/ ShowLibrary \/ HighlightRegion \/ SubmitRegion \/ OpenBook \/ TurnAtOnce \/ TurnByLayout
  \/ TurnNowhere \/ PageLaidOut \/ LayoutFails \/ OpenMenu \/ TurnMenuPage
  \/ ServiceManualRefresh \/ EnterSleepMode \/ Wake \/ PanelIdles \/ PollPanelTiming \/ Elapse

Spec == Init /\ [][Next]_vars
-----------------------------------------------------------------------------
DisplayTypeOK ==
  /\ display \in [budget : Budgets, rapid : 0 .. CounterMax, turned : Never .. RapidWindow + 1,
                  kind : Kinds, timing : BOOLEAN, waiting : BOOLEAN,
                  canvas : [Canvases -> Pictures], last : Canvases \cup {"none"}]
  /\ sent \in [ordinary : BOOLEAN, profile : Profiles, forced : BOOLEAN]
  /\ panel \in Pictures /\ busy \in BOOLEAN /\ view \in Views
  /\ front \in MonoCanvases /\ laying \in Kinds \cup {"Opening", "none"}
  /\ ghosts \in 0 .. MaxGhosts /\ age \in Ages

(* A submission that shows a page: it waits for nothing. *)
ShowsPage == ~busy /\ busy' /\ view' = "Page"

(***************************************************************************)
(* "Uma limpeza Quality é forçada ao atingir 2 Fastest, 5 Fast, 6          *)
(* refreshes de leitura ou 5 minutos" (docs/refresh-policy.md), where it   *)
(* is true: whatever menus, reflows and rapid turns came before, and       *)
(* although the counters saturate, a turned page is not shown without a    *)
(* cleanup once the refreshes since the last one, of any kind, are those   *)
(* or it is five minutes old.                                              *)
(***************************************************************************)
CleanedInTime ==
  [][ShowsPage /\ sent'.ordinary /\ sent'.profile # "Quality"
       => ghosts < MaxReading - 1 /\ age < QualityTime]_vars

(***************************************************************************)
(* The panel does not flash without need: a cleanup the policy forces has  *)
(* ghosts to clean, left since the last Quality refresh, or is due.        *)
(***************************************************************************)
NoNeedlessCleanup ==
  [][ShowsPage /\ sent'.forced => ghosts >= MaxFastest - 1 \/ age >= QualityTime]_vars

(***************************************************************************)
(* While a book is open the whole panel shows the canvas submitted last,   *)
(* however little of it was sent: the region sent covers what changed, and *)
(* what it is compared with is what the panel shows.                       *)
(***************************************************************************)
PanelIsSource == view \in {"Page", "Menu"} => panel = display.canvas[display.last]
=============================================================================
