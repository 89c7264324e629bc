------------------------------ MODULE Library ------------------------------
(***************************************************************************)
(* The library of the application (app/AppController): browsing folders,   *)
(* collecting the covers of the books on the page and of the next one, and *)
(* the preparation of the whole card's covers, while the upload portal     *)
(* changes the card and holds its bus.                                     *)
(*                                                                         *)
(* A tick does at most one of: follow a touch, take a batch of the scan,   *)
(* go on with a cover; at its end it draws the library if it is to be      *)
(* drawn and the panel is idle.  The panel goes idle at any time, so that  *)
(* a tick may begin with a drawing still due.                              *)
(*                                                                         *)
(* An EPUB is opened in one step and read to its cover in another, and     *)
(* either may fail.  Opening a book for reading, and reading it, is one    *)
(* state, "Book"; the confirmation is part of the menu.  What is set anew  *)
(* before it is looked at again is reset where it goes out of use.         *)
(***************************************************************************)
EXTENDS FileBrowserView

CONSTANTS
  Home,        \* the folder begin() opens
  Uploadable,  \* the books a client brings
  MaxVersion,  \* bound on the versions of a book
  MaxHistory,  \* bound on browserHistory_
  PrepareFrom, \* bounds on the folders shown and on the thumbnails in memory when the
  PreparePreviews, \* preparation of the card, which looks at neither, begins
  CoverBatch,  \* kCardPrefetchScanBatchSize
  LongPaths    \* the books whose paths exceed kMaximumQueuedPathBytes

ASSUME LibraryAssumption ==
  /\ Home \in Folders /\ PrepareFrom \subseteq Folders
  /\ Uploadable \subseteq Books /\ LongPaths \subseteq Books
  /\ {MaxVersion, CoverBatch} \subseteq Nat \ {0} /\ {MaxHistory, PreparePreviews} \subseteq Nat

VARIABLES
  card,     \* the version of each book; 0 is none yet, -1 none any more, or Lost
  cache,    \* the thumbnails on the card
  portal,   \* the upload portal: it has the bus while it is "Receiving"
  changed,  \* portalLibraryChanged_
  app,      \* AppState
  scanner,  \* the DirectoryScanner
  view,     \* the FileBrowserView, whose path is currentPath_
  history,  \* browserHistory_
  restore,  \* browserRestorePath_ and Page_, while pending
  queue,    \* libraryPreviewQueue_, Index_, Active_ and libraryVisibleQueueCount_
  parser,   \* libraryParser_, which previews and preparation share
  prepare,  \* the preparation of the card's covers (cardPrefetch...)
  dirty,    \* browserDirty_
  busy,     \* M5.Display.displayBusy()
  left,     \* the page on which a folder was last left for one in it
  missing   \* what a preparation of the card has not looked at yet

cardVars == <<card, portal, changed>>
browserVars == <<scanner, history, restore, left>>
prepareVars == <<prepare, missing>>
vars == <<cardVars, cache, app, browserVars, view, queue, parser, prepareVars, dirty, busy>>

BusFree == portal # "Receiving"

(* The version of a book that a failed upload took from the card. *)
Lost == -2

NoRestore == [path |-> -1, page |-> 0]
NoBook == -1
NoEntry == [path |-> NoBook, stamp |-> 0]
NoQueue == [books |-> <<>>, index |-> 0, active |-> FALSE, visible |-> 0]

(* A parser whose archive was closed fails, unless it is started anew. *)
NoParser == [book |-> NoBook, phase |-> "Idle", version |-> 0]

NewPrepare ==
  [phase |-> "Idle", folders |-> {}, folder |-> NoBook, unread |-> {}, records |-> <<>>,
   torn |-> FALSE, remaining |-> 0, active |-> FALSE, book |-> NoEntry,
   truncated |-> FALSE]

Init ==
  /\ card \in [Books -> 0 .. 1] /\ \A book \in Books \ Uploadable : card[book] = 1
  /\ cache = [slot \in Slots |-> NoThumbnail]
  /\ portal = "Off" /\ changed = FALSE /\ app = "FileBrowser"
  /\ scanner \in StartScan(NewScanner, card, Home, TRUE)
  /\ view = NewView(Home) /\ history = <<>> /\ restore = NoRestore
  /\ queue = NoQueue /\ parser = NoParser /\ prepare = NewPrepare
  /\ dirty = TRUE /\ busy = FALSE
  /\ left = [folder \in Folders |-> 0] /\ missing = {}
-----------------------------------------------------------------------------
(* The queue of scheduleLibraryPreviews(): the page's books come first. *)
Scheduled(v, entries) ==
  LET Lacking(books) == Pick(books, {i \in DOMAIN books : ~HasPreview(v, books[i].path)})
      wanted == Lacking(VisibleBooks(v, entries))
  IN [books |-> wanted \o Lacking(BooksOn(v, entries, v.page + 1)),
      index |-> 0, active |-> FALSE, visible |-> Len(wanted)]

(* The end of a tick, whatever screen is shown. *)
Drawn(v, entries, due) ==
  /\ view' = IF due /\ ~busy THEN Rendered(v, entries) ELSE v
  /\ dirty' = (due /\ busy)
  /\ busy' = (busy \/ due)

(* scheduleLibraryPreviews(), of a view that is to be drawn *)
SchedulePreviews(v, entries) ==
  /\ queue' = Scheduled(v, entries)
  /\ Drawn([v EXCEPT !.loading = queue'.visible # 0], entries, TRUE)
  /\ parser' = NoParser

(* startDirectory(): refused, the earlier list stays under the new path. *)
StartDirectory(v, folder, busFree) ==
  /\ scanner' \in StartScan(scanner, card, folder, busFree)
  /\ view' = SetModel(v, folder, scanner'.entries)
  /\ queue' = [queue EXCEPT !.books = <<>>, !.active = FALSE]
  /\ parser' = NoParser /\ dirty' = TRUE
-----------------------------------------------------------------------------
(***************************************************************************)
(* The portal, at the start of a tick (PortalSession has the whole of it). *)
(***************************************************************************)

(* startHttpPortal(), wherever the user is; Wi-Fi may have kept it so long. *)
StartPortal ==
  /\ portal = "Off" /\ portal' = "On"
  /\ app' = "LibraryMenu" /\ busy' = TRUE
  /\ queue' = NoQueue /\ parser' = NoParser /\ prepare' = NewPrepare /\ missing' = {}
  /\ UNCHANGED <<card, changed, cache, browserVars, view, dirty>>

(* A client's upload takes the bus, *)
BeginUpload ==
  /\ portal = "On" /\ portal' = "Receiving"
  /\ UNCHANGED <<card, changed, cache, app, browserVars, view, queue, parser, prepareVars,
                 dirty, busy>>

(* ... and brings a book or does not; one that cannot be renamed at last    *)
(* has removed the book it was to replace, which nobody is told.           *)
EndUpload ==
  /\ portal = "Receiving" /\ portal' = "On"
  /\ \/ /\ changed' = TRUE
        /\ \E book \in Uploadable :
             card[book] \in 0 .. MaxVersion - 1 /\ card' = [card EXCEPT ![book] = @ + 1]
     \/ UNCHANGED <<card, changed>>
     \/ /\ UNCHANGED changed
        /\ \E book \in Uploadable :
             Exists(card[book]) /\ card' = [card EXCEPT ![book] = Lost]
  /\ UNCHANGED <<cache, app, browserVars, view, queue, parser, prepareVars, dirty, busy>>

(* ... or it removes a book, which it brings no more. *)
DeleteBook ==
  /\ portal = "On" /\ changed' = TRUE
  /\ \E book \in Uploadable :
       Exists(card[book]) /\ card' = [card EXCEPT ![book] = -1]
  /\ UNCHANGED <<portal, cache, app, browserVars, view, queue, parser, prepareVars, dirty,
                 busy>>

(* stopUploadServer() *)
StopPortal ==
  /\ portal # "Off" /\ portal' = "Off" /\ changed' = FALSE
  /\ IF changed
       THEN /\ app' = "FileBrowser"
            /\ StartDirectory([view EXCEPT !.previews = <<>>], view.path, TRUE)
            /\ prepare' = NewPrepare /\ missing' = {}
       ELSE UNCHANGED <<app, scanner, view, queue, parser, prepareVars, dirty>>
  /\ busy' = (busy \/ app = "LibraryMenu")
  /\ UNCHANGED <<card, cache, history, restore, left>>
-----------------------------------------------------------------------------
(***************************************************************************)
(* The user: handleBrowserEvent() and handleLibraryMenuEvent().            *)
(***************************************************************************)
Touched == UNCHANGED <<cardVars, cache>>

Browsing == Touched /\ app = "FileBrowser" /\ ~scanner.running /\ ~busy

(* A page there is not clears browserDirty_ as well. *)
TurnPage ==
  /\ Browsing
  /\ \E page \in {view.page - 1, view.page, view.page + 1} \cap
                 0 .. PageCount(view, scanner.entries) - 1 :
       IF page # view.page
         THEN SchedulePreviews([view EXCEPT !.page = page], scanner.entries)
         ELSE dirty' = FALSE /\ UNCHANGED <<view, queue, parser, busy>>
  /\ UNCHANGED <<app, browserVars, prepareVars>>

(* Mutated: the page is read when startDirectory() has reset it. *)
OpenFolderForgettingPage ==
  /\ Browsing
  /\ \E entry \in ToSet(EntriesOn(view, scanner.entries, view.page)) :
       /\ entry.path \in Folders /\ Len(history) < MaxHistory
       /\ StartDirectory(view, entry.path, BusFree)
       /\ history' = Append(history, [path |-> view.path, page |-> view'.page])
       /\ left' = [left EXCEPT ![view.path] = view.page]
  /\ restore' = NoRestore /\ busy' = TRUE
  /\ UNCHANGED <<app, prepareVars>>

OpenFolder ==
  /\ Browsing
  /\ \E entry \in ToSet(EntriesOn(view, scanner.entries, view.page)) :
       /\ entry.path \in Folders /\ Len(history) < MaxHistory
       /\ history' = Append(history, [path |-> view.path, page |-> view.page])
       /\ left' = [left EXCEPT ![view.path] = view.page]
       /\ StartDirectory(view, entry.path, BusFree)
  /\ restore' = NoRestore /\ busy' = TRUE
  /\ UNCHANGED <<app, prepareVars>>

OpenParent ==
  /\ Browsing
  /\ view.path # Root /\ view.page = 0
  /\ IF history # <<>> /\ Last(history).path = Parent[view.path]
       THEN restore' = Last(history) /\ history' = Front(history)
       ELSE restore' = NoRestore /\ UNCHANGED history
  /\ StartDirectory(view, Parent[view.path], BusFree)
  /\ busy' = TRUE
  /\ UNCHANGED <<app, left, prepareVars>>

OpenBook ==
  /\ Browsing
  /\ VisibleBooks(view, scanner.entries) # <<>>
  /\ app' = "Book" /\ busy' = TRUE
  /\ view' = [view EXCEPT !.previews = <<>>]
  /\ queue' = [queue EXCEPT !.active = FALSE] /\ parser' = NoParser
  /\ UNCHANGED <<browserVars, prepareVars, dirty>>

(* Back from the reader, whose menu waits for the panel, *)
CloseBook ==
  /\ Touched /\ app = "Book" /\ ~busy
  /\ app' = "FileBrowser"
  /\ SchedulePreviews(SetModel(view, view.path, scanner.entries), scanner.entries)
  /\ UNCHANGED <<browserVars, prepareVars>>

(* ... or from the message that it did not open, which schedules nothing. *)
DismissError ==
  /\ Touched /\ app = "Book"
  /\ app' = "FileBrowser"
  /\ Drawn(SetModel(view, view.path, scanner.entries), scanner.entries, TRUE)
  /\ UNCHANGED <<browserVars, queue, parser, prepareVars>>

OpenMenu ==
  /\ Browsing
  /\ app' = "LibraryMenu" /\ busy' = TRUE
  /\ queue' = NoQueue /\ parser' = NoParser
  /\ UNCHANGED <<browserVars, view, prepareVars, dirty>>

CloseMenu ==
  /\ Touched /\ app = "LibraryMenu" /\ ~busy
  /\ app' = "FileBrowser"
  /\ SchedulePreviews(view, scanner.entries)
  /\ UNCHANGED <<browserVars, prepareVars>>

(* beginCardPrefetch(): without the bus it gives up, and the queue's file  *)
(* may not open.                                                           *)
BeginCardPrefetch ==
  /\ Touched /\ app = "LibraryMenu" /\ ~busy /\ view.path \in PrepareFrom
  /\ Len(view.previews) <= PreparePreviews
  /\ BusFree /\ app' = "LibraryPrefetch" /\ busy' = TRUE
  /\ prepare' \in {[NewPrepare EXCEPT !.phase = "Scanning", !.folders = {Root}],
                    [NewPrepare EXCEPT !.phase = "Done", !.truncated = TRUE]}
  /\ missing' = {Entry(card, book) : book \in {b \in Books : Exists(card[b])}}
  /\ UNCHANGED <<browserVars, view, queue, parser, dirty>>

(* finishCardPrefetch(), to cancel or to close *)
FinishCardPrefetch ==
  /\ Touched /\ app = "LibraryPrefetch" /\ ~busy
  /\ app' = "FileBrowser"
  /\ prepare' = NewPrepare /\ missing' = {}
  /\ SchedulePreviews(SetModel(view, view.path, scanner.entries), scanner.entries)
  /\ UNCHANGED browserVars
-----------------------------------------------------------------------------
(***************************************************************************)
(* The rest of a tick.  The scanner's batch; the last shows the list.      *)
(***************************************************************************)
Scan ==
  /\ scanner.running /\ ~busy
  /\ scanner' \in NextBatch(scanner, card, BusFree)
  /\ IF scanner'.running
       THEN Drawn(view, scanner'.entries, dirty) /\ UNCHANGED <<restore, left, queue, parser>>
       ELSE LET shown == SetModel(view, view.path, scanner'.entries)
                here == restore.path = view.path
            IN /\ SchedulePreviews(IF here THEN SetPage(shown, scanner'.entries, restore.page)
                                   ELSE shown, scanner'.entries)
               /\ restore' = IF here THEN NoRestore ELSE restore
               /\ left' = IF here THEN [left EXCEPT ![view.path] = 0] ELSE left
  /\ UNCHANGED <<cardVars, cache, app, history, prepareVars>>

(* start() *)
Started(book) == [NoParser EXCEPT !.book = book, !.phase = "OpenArchive"]

FailedParser == [NoParser EXCEPT !.phase = "Failed"]

(* processNextChunk(), until metadataReady(): the archive opens, the package is read. *)
Parsed(p) ==
  {FailedParser} \cup
  (IF ~BusFree THEN {}
   ELSE IF p.phase = "ReadPackage" THEN {[p EXCEPT !.phase = "Ready"]}
   ELSE IF p.phase = "OpenArchive" /\ Exists(card[p.book])
     THEN {[p EXCEPT !.phase = "ReadPackage", !.version = card[p.book]]}
   ELSE {})

(* One more book is done with; the page is drawn after the last of its own. *)
Counted(v, p) ==
  /\ queue' = [queue EXCEPT !.index = @ + 1, !.active = FALSE]
  /\ LET complete == queue.index + 1 = queue.visible
     IN Drawn([v EXCEPT !.loading = @ /\ ~complete], scanner.entries, complete)
  /\ parser' = p

Collecting ==
  app = "FileBrowser" /\ ~scanner.running /\ ~busy /\ ~dirty /\ queue.index < Len(queue.books)

(* serviceLibraryPreviews() *)
ServiceLibraryPreviews ==
  /\ Collecting
  /\ LET entry == queue.books[queue.index + 1]
     IN \/ /\ ~queue.active /\ Hit(cache, entry, BusFree)
           /\ Counted(SetPreview(view, entry.path, cache[Slot[entry.path]].version), parser)
           /\ UNCHANGED cache
        \/ /\ queue.active \/ ~Hit(cache, entry, BusFree)
           /\ \E p \in Parsed(IF queue.active THEN parser ELSE Started(entry.path)) :
                \/ /\ p.phase = "ReadPackage" /\ parser' = p
                   /\ queue' = [queue EXCEPT !.active = TRUE]
                   /\ UNCHANGED <<cache, view, dirty, busy>>
                \/ /\ p.phase = "Ready"
                   /\ cache' \in Saves(cache, entry, p.version, BusFree)
                   /\ Counted(SetPreview(view, p.book, p.version), NoParser)
                \/ p.phase = "Failed" /\ Counted(view, NoParser) /\ UNCHANGED cache
  /\ UNCHANGED <<cardVars, app, browserVars, prepareVars>>
-----------------------------------------------------------------------------
(***************************************************************************)
(* serviceCardPrefetch(): the folders of the stack are read in batches and *)
(* their books written to the queue's file, whose records are then read.   *)
(* After a record that is cut short the others cannot be told apart.  A    *)
(* book whose path is too long for a record is passed over without a word. *)
(***************************************************************************)
Preparing(phase) == app = "LibraryPrefetch" /\ prepare.phase = phase /\ ~busy

(* Mutated: a folder that does not open is passed over without a word. *)
FolderSkipped(folder) ==
  [prepare EXCEPT !.folders = @ \ {folder},
                  !.phase = IF prepare.folders = {folder} THEN "Indexing" ELSE @]

FolderFailed(folder) ==
  [prepare EXCEPT !.folders = @ \ {folder}, !.truncated = TRUE,
                  !.phase = IF prepare.folders = {folder} THEN "Indexing" ELSE @]

FolderOpened(folder) ==
  [prepare EXCEPT !.folders = @ \ {folder}, !.folder = folder, !.unread = Holds(card, folder)]

(* The records of these books are written, or one is not and the file is   *)
(* torn: those written before it can be read.                              *)
Written(p, books) ==
  LET add(kept, n) == [p EXCEPT !.records = IF p.torn THEN @ ELSE @ \o Sorted(kept),
                                !.remaining = @ + n]
  IN {add(books, Cardinality(books))} \cup
     {[add(kept, Cardinality(books) - 1) EXCEPT !.truncated = TRUE, !.torn = TRUE] :
        kept \in (SUBSET books) \ {books}}

(* A batch of the open folder, whose end may be that of the search. *)
BatchRead(p) ==
  UNION {LET found == {b \in batch \cap Books : Exists(card[b])}
             books == {Entry(card, book) : book \in found \ LongPaths}
             ended == Cardinality(p.unread) < CoverBatch
             folders == p.folders \cup (batch \cap Folders)
         IN {[w EXCEPT !.unread = @ \ batch, !.folders = folders,
                       !.folder = IF ended THEN NoBook ELSE @,
                       !.phase = IF ended /\ folders = {} THEN "Indexing" ELSE @] :
               w \in Written(p, books)} :
         batch \in Batches(p.unread, CoverBatch)}

(* renderCardPrefetchProgress(), every four seconds *)
Progress == busy' \in {busy, TRUE}

ScanCard ==
  /\ Preparing("Scanning")
  /\ IF ~BusFree THEN UNCHANGED <<prepare, busy>>
     ELSE /\ \/ /\ prepare.folder # NoBook
                /\ prepare' \in BatchRead(prepare)
             \/ /\ prepare.folder = NoBook
                /\ \E folder \in prepare.folders :
                     prepare' \in {FolderFailed(folder)} \cup BatchRead(FolderOpened(folder))
          /\ Progress
  /\ UNCHANGED <<cardVars, cache, app, browserVars, view, queue, parser, missing, dirty>>

BookDone(p) == [p EXCEPT !.active = FALSE, !.book = NoEntry, !.remaining = @ - 1]

(* Mutated: a book that fails is not counted. *)
BookFailedUncounted(p) == [BookDone(p) EXCEPT !.truncated = TRUE, !.remaining = p.remaining]

BookFailed(p) == [BookDone(p) EXCEPT !.truncated = TRUE]

(* What cannot be read ends the preparation. *)
RestUnreadable(p) == [p EXCEPT !.truncated = TRUE, !.remaining = 0]

LookedAt(book) == {entry \in missing : entry.path # book}

(* The next record is read, or cannot be, or is not one. *)
ReadRecord ==
  \/ /\ prepare' = RestUnreadable(prepare)
     /\ UNCHANGED <<cache, parser, missing, busy>>
  \/ /\ BusFree /\ prepare.records = <<>> /\ prepare.torn
     /\ prepare' = BookFailed(prepare)
     /\ UNCHANGED <<cache, parser, missing>> /\ Progress
  \/ /\ BusFree /\ prepare.records # <<>>
     /\ LET entry == Head(prepare.records)
            p == [prepare EXCEPT !.records = Tail(@), !.book = entry, !.active = TRUE]
        IN \/ /\ Hit(cache, entry, BusFree)
              /\ prepare' = BookDone(p) /\ missing' = LookedAt(entry.path)
              /\ UNCHANGED parser /\ Progress
           \/ /\ ~Hit(cache, entry, BusFree) /\ UNCHANGED missing
              /\ \E q \in Parsed(Started(entry.path)) :
                   \/ q = FailedParser /\ prepare' = BookFailed(p) /\ parser' = NoParser /\ Progress
                   \/ q # FailedParser /\ prepare' = p /\ parser' = q /\ UNCHANGED busy
     /\ UNCHANGED cache

IndexBook ==
  /\ \E q \in Parsed(parser) :
       \/ /\ q.phase = "Ready"
          /\ cache' \in Saves(cache, prepare.book, q.version, BusFree)
          /\ prepare' = BookDone(prepare) /\ missing' = LookedAt(q.book)
       \/ q = FailedParser /\ prepare' = BookFailed(prepare) /\ UNCHANGED <<cache, missing>>
  /\ parser' = NoParser /\ Progress

IndexCard ==
  /\ Preparing("Indexing")
  /\ \/ prepare.active /\ IndexBook
     \/ ~prepare.active /\ prepare.remaining > 0 /\ ReadRecord
     \/ /\ ~prepare.active /\ prepare.remaining = 0
        /\ prepare' = [prepare EXCEPT !.phase = "Done"] /\ busy' = TRUE
        /\ UNCHANGED <<cache, parser, missing>>
  /\ UNCHANGED <<cardVars, app, browserVars, view, queue, dirty>>

(* Nothing else is done in the tick, or not in this one. *)
Render ==
  /\ dirty /\ ~busy
  /\ Drawn(view, scanner.entries, TRUE)
  /\ UNCHANGED <<cardVars, cache, app, browserVars, queue, parser, prepareVars>>
-----------------------------------------------------------------------------
PanelIdles ==
  /\ busy /\ busy' = FALSE
  /\ UNCHANGED <<cardVars, cache, app, browserVars, view, queue, parser, prepareVars,
                 dirty>>

Portal == StartPortal \/ BeginUpload \/ EndUpload \/ DeleteBook \/ StopPortal

User ==
  \/ TurnPage \/ OpenFolder \/ OpenParent \/ OpenBook \/ CloseBook \/ DismissError
  \/ OpenMenu \/ CloseMenu \/ BeginCardPrefetch \/ FinishCardPrefetch

ServiceCardPrefetch == ScanCard \/ IndexCard

Tick == Scan \/ ServiceLibraryPreviews \/ ServiceCardPrefetch \/ Render

Next == Portal \/ User \/ Tick \/ PanelIdles

(* The loop goes on, and the panel comes to rest. *)
Spec == Init /\ [][Next]_vars /\ WF_vars(ServiceCardPrefetch) /\ WF_vars(PanelIdles)
-----------------------------------------------------------------------------
Entries == [path : Items, stamp : 0 .. MaxVersion]

LibraryTypeOK ==
  /\ card \in [Books -> Lost .. MaxVersion]
  /\ \A slot \in Slots : cache[slot] = NoThumbnail \/
       cache[slot] \in [path : Books, stamp : 1 .. MaxVersion, version : 1 .. MaxVersion]
  /\ portal \in {"Off", "On", "Receiving"} /\ changed \in BOOLEAN
  /\ app \in {"FileBrowser", "LibraryMenu", "LibraryPrefetch", "Book"}
  /\ Listed(scanner) \subseteq Entries /\ Len(scanner.entries) <= MaxEntries
  /\ view.path \in Folders /\ view.page \in 0 .. PageCount(view, scanner.entries) - 1
  /\ Len(view.previews) <= MaxPreviews
  /\ queue.index \in 0 .. 2 * PageSize /\ ToSet(queue.books) \subseteq Entries
  /\ queue.active => parser.phase = "ReadPackage"
  /\ missing \subseteq Entries
  /\ {dirty, busy} \subseteq BOOLEAN

(***************************************************************************)
(* "Entries are validated by path, file size and modification time"        *)
(* (README.md:60): a cover that is shown is the book's that has its path   *)
(* now, unless the portal's changes are still to be taken in; through a    *)
(* file shared by two books, a book replaced while it was being read, and  *)
(* the parser that the preparation of the card takes over.  The cover of a *)
(* book that was lost in an upload stays, since nobody was told.           *)
(***************************************************************************)
PreviewIsOwn ==
  ~changed => \A i \in DOMAIN view.previews :
                card[view.previews[i].path] \in {view.previews[i].version, Lost}

(***************************************************************************)
(* A list that does not say it was truncated has everything in its folder, *)
(* unless the bus was refused and it is still an earlier folder's, and has *)
(* nothing else but a book that was lost in an upload.                     *)
(***************************************************************************)
Gone(item) == item \in Books /\ card[item] = Lost
ListIsComplete ==
  (~changed /\ ~scanner.running /\ ~scanner.failed /\ ~scanner.truncated) =>
    {entry \in Listed(scanner) : ~Gone(entry.path)} =
      {Entry(card, item) : item \in Holds(card, scanner.path) \ Others}

(***************************************************************************)
(* Covers of the next page never push one of the page shown out of the     *)
(* thumbnails in memory: the page is drawn, which marks them as used,      *)
(* before any is loaded.                                                   *)
(***************************************************************************)
Previewed(v, entries) ==
  {entry.path : entry \in {e \in ToSet(VisibleBooks(v, entries)) : HasPreview(v, e.path)}}
SamePage ==
  view'.path = view.path /\ view'.page = view.page /\ scanner'.entries = scanner.entries
KeepsVisible ==
  [][SamePage /\ view'.previews # <<>> =>
       Previewed(view, scanner.entries) \subseteq Previewed(view', scanner'.entries)]_vars

(***************************************************************************)
(* "returning from a subfolder restores the previous folder page"          *)
(* (README.md:57): when the list of the folder one goes back to is ready,  *)
(* the page is that on which it was last left, or the last there is.       *)
(***************************************************************************)
RestoresPage ==
  [][scanner.running /\ ~scanner'.running /\ restore.path = view.path =>
       view'.page = Smaller(left[view.path], PageCount(view', scanner'.entries) - 1)]_vars

(***************************************************************************)
(* A preparation that ends without a warning looked at every book that was *)
(* on the card and is still there unchanged: no folder that does not open, *)
(* record that is not written or book that is not read goes unnoticed;     *)
(* only one with a path too long for a record does.                        *)
(***************************************************************************)
DoneMeansTried ==
  (app = "LibraryPrefetch" /\ prepare.phase = "Done" /\ ~prepare.truncated) =>
    \A entry \in missing : entry.path \in LongPaths \/ card[entry.path] # entry.stamp

(* The preparation of the card ends, whatever cannot be read of it, unless *)
(* it is left or finds the bus taken by an upload.                         *)
Underway == app = "LibraryPrefetch" /\ prepare.phase # "Done" /\ BusFree
PreparationEnds == Underway ~> ~Underway
=============================================================================
