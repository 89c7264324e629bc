# A TLA+ verification project for the M5Paper EPUB reader

The firmware under `src/` turns an M5Paper (ESP32, e-paper panel, SD card) into
an EPUB reader with an upload portal.  It runs one cooperative loop:
`loop()` calls `AppController::tick()`, and each call does a little of
everything.  The difficult code is therefore not locked or threaded but
*sliced*: a page is laid out a few hundred bytes at a time, cancelled between
any two slices, restored, and shown on a panel that stays busy for a second and
more while the loop goes on; and what is on the card may be cut off by a power
switch at any write.

These modules model that logic.  TLC checks them on small books and a small
card, and TLAPS proves what matters most for every value of the constants.

| file | kind |
|---|---|
| `PrefetchStateMachine.tla`, `PendingReaderActions.tla`, `ReaderController.tla` | operators: the page laid out ahead, the input queue, pagination with its cache and canvases |
| `ReadingLoop.tla`, `MCReadingLoop.tla` | specification: the application's loop around them, with the panel |
| `ReadingStateStore.tla` | specification: the file of the saved position, call by call |
| `SavedPosition.tla` | abstract specification: the register that file stands for |
| `PersistPolicy.tla`, `Persistence.tla`, `MCPersistence.tla` | operators, specification: when the loop saves, over the store and two books |
| `RefreshPolicy.tla`, `DisplayRegion.tla`, `DisplayManager.tla`, `MCDisplayManager.tla` | operators, specification: what is submitted to the panel, how, and what it then shows |
| `UploadPortal.tla`, `MCUploadPortal.tla` | specification: the portal's requests and uploads, with the bus and the card |
| `WifiService.tla`, `PortalSession.tla`, `MCPortalSession.tla` | actions of the radio; specification: the portal as the application runs it |
| `DirectoryScanner.tla`, `FileBrowserView.tla`, `LibraryThumbnailCache.tla` | operators: the listing of a folder, the library's pages and previews, thumbnails on the card |
| `Library.tla`, `MCLibrary.tla` | specification: browsing, covers, preparation of the card, against the portal |
| `ReadingLoopProofs.tla`, `PaginationProofs.tla`, `PageCacheProofs.tla`, `ShownPageProofs.tla` | theorems about the reader, its loop, the pages it makes, those it keeps, and the one on the panel |
| `PersistenceProofs.tla` | theorems about the file of the saved position, and about saving and resuming |
| `DisplayManagerProofs.tla` | theorems about the panel |
| `PortalSessionProofs.tla` | theorems about the portal, its uploads and its session |
| `LibraryProofs.tla` | theorems about the library: lists, previews, pages, the preparation of the card |

## 1. Inventory

Paths are relative to `src/src/`.

| component | state it keeps | operations | talks to | what is hard | what makes it correct |
|---|---|---|---|---|---|
| Application loop, `app/AppController` | `AppState`, pending actions, pending refresh, pending save, portal phase | `tick()`: lever, touch, queue, panel, parsing, layout, prefetch, sleep | everything | order of phases against the panel; a command refused half way | the panel shows what the state says; nothing waits for ever |
| Reader, `reader/ReaderController` | texts and anchors of the visited pages, current page, page in progress, tokenizer, canvases, font | next / previous page, prefetch, cancel, reflow, rebuild, jump | archive, layout engine, canvases | cancelled slices, eviction, two fonts in one cache | no text lost or repeated; the ready buffer is the next page |
| Prefetch state machine, `reader/PrefetchStateMachine` | one state | transitions, cancel | reader | cancel in any state | a prefetch ends, and is invisible |
| Pending actions, `input/PendingReaderActions` | a slot per action, a counter | enqueue, pop | loop | actions that outrank others | pop returns a real action |
| Reading state file, `storage/ReadingStateStore` | file, temporary file, backup | save, load, remove | SD card | power loss and failure between any two calls | never torn, never older, one copy survives |
| Reading state codec, `storage/ReadingStateCodec` | none | encode, decode | store | truncated or foreign records | decode inverts encode, refuses the rest |
| Persist policy, `storage/PersistPolicy` | unsaved pages, timestamps | record, decide | loop, store | clock wrap, first save | a position is saved within its bounds |
| Refresh policy, `refresh/RefreshPolicy` | ghosting budget, page-turn times | decide, record, reset | display | refreshes exempt from the limits | a Quality refresh is never overdue |
| Display manager, `hal/DisplayManager` | last submitted canvas | submit | panel, policy | compares with pixels drawn over since | the panel equals the submitted canvas |
| SPI guard, `hal/SpiBusGuard` | owner | acquire, release | card, portal | one request holds the bus across ticks | one owner at a time |
| EPUB archive, `epub/EpubArchive` | ZIP index, one open entry | open, begin / read / end entry | card | failures part way | a read entry is complete |
| EPUB parser, `epub/EpubParser` | phase, manifest, spine | `tick()` | archive | long files | it completes or fails |
| Layout engine, `layout/` | styles, line | processText | canvas | full page against full line | a page takes what it says it took |
| Directory scanner, `storage/DirectoryScanner` | open directory, entries | begin, tick | card | more than 256 entries | a complete, sorted list |
| Library previews, card prefetch, `storage/LibraryThumbnailCache`, `AppController` | queue of covers, a queue file | enqueue, tick | card, archive | a queue kept on the card itself | each book once |
| Wi-Fi, `net/WifiService` | connection state, timers | scan, connect, tick | radio | timeout against a late answer | it leaves every transient state |
| Upload portal, `net/WebPortalService` | upload in progress | routes, stop | bus guard, card | client gone, stop during upload | the bus is given back, no partial file |
| Portal session, `AppController::servicePortal()` | start requested, failure shown, library changed | start, stop, screens | Wi-Fi, portal, library | the user leaves at any moment | the radio goes off, the library is read again |
| Views, touch, power, paths, diagnostics | boxes, gestures | drawing, hit tests | display | - | - |

Calls go downwards only: the loop calls the reader, the reader the archive and
the layout engine.  Results come back as `WorkResult`, never as callbacks.
Shared state is of three kinds: the two *canvases* (the reader's, and whichever
of them the display regards as its own), the archive's *single open entry*, and
the *bus*.  The panel is the only thing that moves on its own: it becomes idle.

`PROJECT.json` lists the hazards at the line where each bites, and the properties
that would catch it.

## 2. How the modules correspond to the code

### The reader

A `ReaderController` is a record, and each method an operator from a record to a
record.  Its field `result` is the `WorkResult` the method returns, and the loop
sets it back to `Idle` once it has looked at it.

| field | in the code |
|---|---|
| `texts`, `anchors`, `current` | `visitedPages_` (each with the chapter it came from), `pageAnchors_`, `currentPage_` |
| `rebuilding` | `rebuildingPage_`, `NoPage` when there is none |
| `work`, `workAnchor` | `workingText_`, `workingAnchor_` |
| `entryOpen`, `offset` | the archive's entry and how much of it was read |
| `fed`, `pend`, `seek` | the end of the tokenizer's output, the start of `pendingText_`, `seekTextBytes_` |
| `inputReady`, `inputEnded`, `layoutPending`, `chapterEnded`, `endOfBook`, `active`, `error` | the flags of those names |
| `prefetching`, `prefetch`, `checkpoint` | the prefetch flag, its state machine, its checkpoint |
| `front`, `back`, `displayCanvas` | what the two canvases hold, and which one is `DisplayManager::canvas()` |

In `ReadingLoop`, `shown` is what the panel shows and `submitted` the canvas
`DisplayManager` submitted last (`lastSubmittedSource_`).  A page from another
canvas is refreshed only where the two canvases differ, so it comes out right as
long as the panel still shows what the *other* canvas holds now.  When something
was drawn on that canvas since, `SubmitPage` may leave `Garbled` on the panel;
that it never does is part of `PanelShowsCurrentPage`.

*Text.*  A chapter is a row of numbered units, one for each laid out line, and a
text is an interval of one chapter.  Two pages can so be compared for lost or
repeated text without spelling any.  A page takes `Lines[size][family]` units.
It is full when a unit is left over, **or** when its last unit both fills it and
ends a paragraph: `processText()` breaks at the newline and finds no line for it.
The archive returns `ChunkUnits` units at a time.

The library is one screen on the display's own canvas, or, once there are covers
to draw, one on the image canvas (`Covers`).  `DrawLibrary` draws it anew at any
time, on either: `FileBrowserView::render()` asks whether there are previews.

*Left out:* inline images and their quality canvas, styles, the fields that are
written and never read (canvas states, presentation sources), and logging.

### The loop

`tick()` is cut into its phases.  Variable `phase` says which comes next, and
every action belongs to one:

| phase | actions | `AppController` |
|---|---|---|
| lever | `Lever`, `PressCenter`, `AutomaticSleep` (the end of the tick before) | `handleReaderLever()`, `requestManualRefresh()`, `canEnterAutomaticSleep()` |
| touch | `TouchPage`, `CloseMenu`, `TurnMenuPage`, `BackToLibrary`, `SelectTocEntry`, `TapFontFamily`, `ConfirmRestart`, `TapSleep`, `OpenBook`, `DismissError`, `NoInput` | `handleReaderEvent()`, `handleReaderMenuEvent()`, `handleBrowserEvent()` |
| queue | `PopAction`, `NothingToPop` | draining `pendingReaderActions_` |
| panel | `CpuWork`, `ServiceManualRefresh`, `PanelNeedsNothing` | CPU-only slices, `serviceManualRefresh()` |
| work | `ParseBook`, `BookParsed`, `ParseFailed`, `LayOutStep`, `PrefetchStep`, `DrawLibrary`, `NothingToWorkOn` | the parts of `tick()` for `OpeningBook`, `Reading` and `FileBrowser` |

`DisplayIdle` is the panel; it may happen between any two phases.  Within a
phase the code asks `displayBusy()` once, so a phase is atomic.  `CpuWork` runs
one slice, or two when the time budget allows.

### The saved position

`ReadingStateStore` has one action for each call to the file system.  Each may
fail, and `PowerLoss` may follow any.  A file holds the number of the state
written in it, `Absent`, or `Torn`.  `oldest` is a history variable: the oldest
state that `load()` is still allowed to return.  It advances when `save()`
returns true and when `remove()` has removed the state; `saved` records that a
save was confirmed.

### When the position is saved

`Persistence` EXTENDS the store and the policy: its variables are what the loop
reads and writes around a save, and the store's steps (`SaveStep`, `RemoveStep`)
run while the loop waits for `save()` or `remove()` to return.

| variable | in the code |
|---|---|
| `app`, `book`, `place`, `hasPage` | `state_`, the book opened last, `reader_.currentAnchor()` with the font, and whether the reader has a page |
| `waits` | what stands between a tick and its save: the busy panel, the tick in which it became idle, a prefetch |
| `policy`, `forced` | `persistPolicy_`, `forcedPersistPending_` |
| `asked` | which of the callers of the store waits: the forced save, the policy, the library, sleep, restart |
| `savedAs` | the place saved under each of the store's versions |

A place is a text position with its font.  There is one state file on the card,
whichever book is read; `Restored` is what `startReaderWithSavedState()` makes of
it, a state of another book included.  Times are ages that stop at their limit:
the code subtracts unsigned instants, so a wrapping clock makes no difference,
with the exception named in section 5.

`SavedPosition` is a register with three variables: where the reader is, what
the card gives back, and what a save in progress has set aside and may put back.
`CardIsRegister` is the refinement (`INSTANCE SavedPosition WITH ...`): what
`load()` finds stands for `saved`, the backup of a save between its two renames
for `aside`.  Each of the store's steps is one of the register's or stutters,
with failing calls and power loss.

### What the panel shows

`RefreshPolicy` has `decide()` and `GhostingBudget::record()`; counters keep the
width of the code's saturating increment as `CounterMax`.  `DisplayRegion` has the
rectangles, of which one dimension is kept: `Columns` columns, alignment and
expansion as in the code.  A picture is the set of its black columns, so that two
canvases can be compared and a partial refresh be applied to what is on the panel.

`DisplayManager` is `submitCanvas()` with all its callers: pages (`ShowPage`), the
library, the menu (`OpenMenu`, on the image canvas when there is a cover), manual
refresh, sleep and wake, `submitRegion()` and `highlightRegion()`.  `display` is
the manager with its budget, its measured turn and its two canvases' contents;
`panel` what is on the glass.  `ghosts` and `age` are history variables: the
refreshes since the last Quality one, of any kind, and its age.
`PollPanelTiming` is an action of its own because the panel may become idle
between the poll and the handler that follows it in the same tick.

### The portal

`UploadPortal`: one action for each callback of an upload - `StartUpload`,
`WriteUpload`, `EndUpload` and its rename, `LoseClient`, `CompleteUpload` - and one
for each of the other routes.  The HTTP server is synchronous and serves one
client (`docs/architecture.md:17,33`), but `handleClient()` may return between
two callbacks of one upload, so the loop runs between any two.  The card may
refuse to open, write or rename; `LosePower` may follow any step.  Target paths
go through `portal_path::resolve()`.  A removal is taken to succeed.  `EndUpload`
removes the book of the upload's name, and `RenameUpload`, a step of its own so that
the power may go in between, puts the `.part` in its place or fails.

`PostWithoutFile` is `routeUploadComplete()` without the callbacks of an upload: a
POST that brings no file.  It reads the two flags that the last upload left, which
`begin()` and `end()` do not reset, or those of the boot; by these the first such
POST is answered 201 with nothing on the card.  `Answers201` is that answer.

`WifiService` has `poll()` by state (`Launch`, `AwaitScan`, `AwaitConnection`,
`WatchLink`) and the calls that the application makes.  A network is saved with its
password; `active`, `pending` and `remember` are `activeSsid_`, `pendingPassword_` and
`rememberPending_`.  Of the radio `tried` is kept beside them: what `WiFi.begin()` was
told last, until it is answered.  It is assumed that `WiFi.begin()` drops the
association before it, so that a link that is reported is that of the last call.

`PortalSession` composes the two with `servicePortal()` and the portal's screens.
`phase` is the part of the tick that comes next: radio, server, what follows from the
radio's state, the failure's timer, touch.  `Elapse` is time, told at the start of a
tick.  `stale` is a history variable: the books that came, went or were replaced since
the library's list was made.  The scan that `stopUploadServer()` starts is taken to
succeed (`Library` has the scans that do not).

### The library

`Library` EXTENDS the scanner, the view and the cache.

| variable | in the code |
|---|---|
| `scanner`, `view` | `scanner_` with its entries and flags; `browserView_` with `currentPath_`, page and previews in memory |
| `history`, `restore` | `browserHistory_`; the page to come back to while a parent folder is scanned |
| `queue`, `parser` | the covers still to be collected; `libraryParser_`, which the previews and the preparation share |
| `prepare` | the preparation of the whole card: folders, the open folder, its queue file's records, the book in work |
| `cache` | the thumbnail files; `Slot` says which books share one (a 32-bit hash of the path) |
| `portal`, `card`, `changed` | the portal as the library sees it: it holds the bus while it is `Receiving`, and brings, removes and loses books |

A tick does at most one of: follow a touch, take a batch of the scan, go on with
a cover; then it draws, if something is to be drawn and the panel is idle.  A
book is its number and a version; the code's stamp (size and modification time)
is assumed to tell two versions of a path apart.  A record of the queue file that
is not written whole makes the file `torn`: those before it can be read, and what
comes after cannot be told apart.

An upload may end with the older book removed and the new one not renamed: the book
is then `Lost`, and `changed` is not set, as `portalLibraryChanged_` is not
(`WebPortalService.cpp:272`).  A lost book does not come back.  `LongPaths` are the
books whose paths exceed `kMaximumQueuedPathBytes`; the preparation of the card
passes over them.

Sorting and selecting are set definitions: `Ranked(S, R)` puts each element of `S`
behind as many as `R` has below it, `Sorted` is that for the order of `std::sort()`,
and `Pick(s, I)` is `s` at the positions in `I`.  So they can be reasoned about by
counting, without induction.  Of the card it is assumed that it has finitely many items
and that a folder sorts after the one it is in (`Parent[folder] < folder`), as a path
does after each path that it begins with.

## 3. What the runs check

| run | instance | question |
|---|---|---|
| `ReadingPages` | two chapters around an item that is not linear, 3 and 2 units, an empty page after the last, pages of 2 and 1, cache of 4 units | page turns, font changes, the menu, at any moment of prefetch and refresh |
| `ReadingWithoutCover` | that book without the empty page and without a cover, the menu with its pages, restart and font family, manual refreshes | what is drawn on the reader's own canvases is never shown as a page, and a refresh shows it as it was |
| `ReadingFaults` | one chapter of two pages, menu, jumps, sleep, library, manual refreshes, a saved state, archive failures, under fairness | the reader stays consistent, nothing is left running, opening and prefetching end |
| `Persistence` | two books of two places and one, two saves, failing calls, power loss, under fairness | the file is a register of the place read; a place left alone is saved |
| `Refresh` | six columns, two canvases and the image canvas, counters up to 4 | the panel shows what was submitted, cleaned in time and not without need |
| `UploadPortal` | paths with `..`, empty segments and names that collide, uploads of up to two chunks, failing calls, power loss | no truncated book, no partial file, the bus given back |
| `Portal` | two networks, one of them open, two passwords, one book, failing calls of the card, every timer one unit, under fairness | the server has its link, the library is read again, a network is remembered with the password that joined it, the radio goes off |
| `Library` | a root with two folders and two books, a folder with a book and a hidden file, an empty folder; one book can be brought, replaced and lost, one has too long a path | lists, covers and pages are the right ones; a preparation that ends without a warning looked at every book |

### Reading

* `PagesContiguous` - a cached page starts at its anchor and ends where the next
  one begins.  This is the property all of pagination is for.  Dropping the seek
  of a prefetch that is restored breaks it.
* `WorkFollowsAnchor` - what the page in progress took, its anchor, the place in
  the chapter and the seek that is still owed always add up.  It fails if a
  rebuilt page forgets to seek.
* `ReadyBufferIsNextPage` - a prefetch that is `Ready` is the next page, so
  `requestNextPage()` may just swap.
* `PanelShowsCurrentPage` - while the user reads, the panel shows the current
  page: not the menu, not the prefetched one, not parts of two.
* `ManualRefreshKeepsContent` - a manual refresh shows again what is on the
  panel, unless that was submitted from the image canvas: a menu over a cover, a
  library with covers.  What the test plan promises of these two the code breaks:
  `RefreshKeepsLibrary` is the promise for the library (section 4).
* `EvictionSparesCurrentPage`, `CacheValid`, `QueueCoherent`,
  `ReaderRestsOutsideBook`, `TypeOK` - eviction within budget that spares the page
  on the screen; two vectors of one length; `pop()` returns real actions; nothing
  runs outside a book.
* `PrefetchIsInvisible`, `ReflowKeepsPlace` - as action properties: a running
  prefetch moves neither the page nor its canvas, a font change does not move
  the reader.
* `OpeningEnds`, `PrefetchEnds` - liveness.

### The saved position

* `NeverTorn`, `NeverGoesBack`, `ConfirmedKeepsACopy` - the file is whole, never
  older than the last confirmed save, and no step takes the confirmed state from
  where `load()` looks without leaving it in the backup.
* `CardIsRegister` - the refinement of `SavedPosition`.
* `UnsavedIsDirty` - while a page is read that the card does not hold, the policy
  knows: jumps, restarts, failed saves and other books in between.
* `ResumesOwnPlace` - a book never resumes at a place of another.
* `SavedWhenLeftAlone` - a place at which the user stops is saved, whichever of
  the policy's timers is off, and however many attempts fail.

### The panel

* `PanelIsSource` - while a book is open, the panel shows the canvas submitted
  last, however little of it was sent.
* `CleanedInTime` - `docs/refresh-policy.md`'s limits where they are true: an
  ordinary page turn is not shown without a cleanup when the refreshes since the
  last one, *of any kind*, reached the limit or it is too old.  Counters that
  wrap instead of saturating break it.
* `NoNeedlessCleanup` - a forced cleanup has ghosts to clean, or is due.

### The portal

* `NoTruncatedBook`, `NoPartLeft`, `BusFollowsUpload`, as action by action the
  client, the card or the power interrupts an upload.
* `CreatedMeansWhole` - an upload that is answered 201 has its book on the card,
  whole.  It speaks of uploads: a POST without a file is answered 201 without one.
* `OnlyWholeReplaces` - an older book goes only when all of the new one is in the
  `.part` file.  That the new one then follows is `UploadKeepsBooks`, which the
  documents promise and the code does not (`LostInRename`).
* `ServerHasLink` - no server without a link, no Wi-Fi with the radio off, no
  network screen beside a running server.
* `LibraryIsFresh` - with the radio off, the list was made after the last book came
  or was deleted.  A book that was removed for a replacement whose rename failed is
  the exception the property names: `portalLibraryChanged_` is not set then.
* `OnlyJoinedIsSaved` - a network is added to the saved ones only as the radio joins
  it, with the password that the radio was last given: not with one that was mistyped,
  nor with one of an attempt that another replaced.
* `LeftAloneRadioGoesOff` - left alone the radio goes off, except on the two
  screens that wait for the user (section 5).

### The library

* `PreviewIsOwn` - a cover shown is of the book that has its path now, although
  books share cache files and one parser, and are replaced while they are read.
* `ListIsComplete` - a list that does not say it was truncated is complete.  Of a
  book lost in an upload nobody is told: it may stay in the list, and its cover on
  the screen (`PreviewIsOwn`).
* `KeepsVisible` - covers of the next page never evict one of the page shown.
* `RestoresPage` - going back to a folder shows the page it was left on.
* `DoneMeansTried`, `PreparationEnds` - preparing the card ends; without a warning
  it has looked at every book that was there and is unchanged, except those with
  paths too long for a record.

The type invariants of `Persistence`, `DisplayManager`, `UploadPortal`,
`PortalSession` and `Library` document their variables; they are properties of no
run.

### Bounds, and why they are enough

*Reading.*  The smallest book in which every case happens has two chapters, so that
a page turn crosses from one to the other, with an item between them that is not
linear and must be skipped.  One chapter does not divide evenly into pages of the
first font, so a font change moves page boundaries.  Three units of text cut by two
give full, last and cut pages; a cache of four units against five of text makes
eviction and rebuilding happen.  `MaxHistory` is ten, and the books have at most
five pages, so the limit of 4096 entries (after which a page fails) is not reached.

*Persistence.*  `MaxSaves = 2`: the second save meets what the first left, in file,
backup and temporary file, in whatever state failures and power loss left them;
removals are not bounded.  `PageThreshold = 2` and timers of one unit make each of
the three reasons for a save the first to come.  `SavedWhenLeftAlone` ends in
`version = MaxSaves` because the model makes no more saves, the code does.

*Refresh.*  Limits of 2, 3 and 4 keep the order of the code's 2, 5 and 6, and a
counter that saturates at 4 reaches each.  Six columns with alignment 2 hold a
changed region inside, at either edge, and wide enough to be sent whole.

*Portal.*  Every timer is one unit: each may run out before, with or after any
other, as time passes between any two ticks.  Two networks and two passwords, so that an
attempt can be replaced by one to the other network or with the other password;
`MaxSaved = 1`, so that `remember()` also pushes one out.  `Portal` has one book, for
`LibraryIsFresh` speaks of each book by itself, and an upload of it is of one chunk or of
none.  In `UploadPortal` two chunks tell an upload that
is short from one that is whole, and two of its three names are one file.

*Library.*  One item more in the root than `MaxEntries`, so that a list is
truncated; one entry a page and two previews, so that the second page's cover
arrives at the limit; a batch that ends exactly with the
folder and one that ends with it in hand; all books in one thumbnail file.  `PrepareFrom` and `PreparePreviews` bound what the
library showed when a preparation began, which it does not look at.  One book may
be brought and replaced (`MaxVersion = 2`), each may be removed once.  One book has
too long a path (`LongPaths`), and the one that is uploaded may be lost.
`MaxHistory = 1`: the folders are one deep; `browserHistory_` itself has no limit.

Each mutant in `PROJECT.json` shows that its run does reach the situation its
property is about.

### Fairness

`ReadingLoop!FairSpec` assumes that

* some action of the loop happens again and again (weak fairness of
  `Input \/ Work`): `loop()` calls `tick()` unconditionally;
* the panel finishes each refresh (weak fairness of `DisplayIdle`);
* a parser that gets tick after tick reaches the end of its file (strong
  fairness of `BookParsed \/ ParseFailed`): `EpubParser::tick()` advances in the
  file with each call, but the loop parses only while the panel is idle.

Nothing is assumed of the user, who may cancel every prefetch and refresh for
ever.  That is why `PrefetchEnds` ends in `\/ manual`: a user who
keeps pressing the centre of the lever keeps the panel busy, and a prefetch
waits for it.

`PersistSpec`: the loop goes on (weak fairness of its saves, of a call in
progress and of `Settle`) and time passes.  `PortalSession!FairSpec`: the tick goes
on, and time passes again and again at its start (strong fairness, since only one
phase of the tick lets it).  `quiet` is where the user and the clients stop; no
fairness makes them.  `Library!Spec`: the loop serves a preparation, and the panel
becomes idle.

## 4. Where the code and its documents disagree

Each is a run with the expectation `violation`; its trace is the behaviour of
the code.  All but the last quote are of `src/docs/hardware-test-plan.md`.

| run | document | code |
|---|---|---|
| `LargerFont` | lines 138, 123: no page reuses the former size's pagination, no text omitted | an earlier page is drawn with the larger font from the text cached for the smaller one; its end is cut off, and the page after it starts past what was cut |
| `PowerLossInSave` | line 40: switching off during a page change resumes the place | between its two renames the position is in the backup only, and `load()` never reads that |
| `RefreshInLibrary` | line 147: "Repita na biblioteca e no menu; o conteúdo atual deve permanecer o mesmo" | `serviceManualRefresh()` submits the display's canvas; the library with covers was drawn on the image canvas (`FileBrowserView.cpp:143,257`) |
| `LostInRename` | `docs/roadmap.md:20`: "prevent path traversal, accidental overwrite and incomplete files through atomic writes" | the older book is removed, unasked, before the new one is renamed; a rename that fails, or a power loss between the two, leaves neither |

`ReadingPages` and its properties are checked with fonts that shrink as well as
grow: `PagesContiguous` speaks of the *cached* texts and holds;
`PanelShowsCurrentPage` allows a page to be drawn in part, and `WholePageShown`
states that it is not, which `LargerFont` refutes.

## 5. What was noticed besides

Behaviour met while modelling, read in the code and mostly in the models, without
a run of its own.  The properties above are stated so that they allow it.

*Reading.*
* A chapter whose last line fills a page and ends a paragraph is followed by an empty
  page (`ReaderController.cpp:305`); `docs/hardware-test-plan.md:33` has "não pode haver
  perda, repetição ou página vazia".  The last chapter of `ReadingPages` is such a one.
* `ReaderController.cpp:412` - the prefetch of a chapter's first page has its
  checkpoint at the end of the chapter before.  Cancelled, it opens that chapter
  again and seeks all of it, and the next page turn shows an empty page, also
  where no chapter ends in this way.
* A contents entry of an item that is not linear, or that cannot be opened, resets the
  session before it is refused (`AppController.cpp:371`).  The menu, when it is closed,
  stays on the panel, against `docs/hardware-test-plan.md:134`, "A página restaurada deve
  ser a atual, nunca o menu".  To see it: `"Toc"` among the gestures of `ReadingPages`.
* Without a cover the sleep screen is drawn on the display's own canvas, which may be
  the one of a `Ready` prefetched page, and the turn after waking presents it
  (`AppController.cpp:470`; the plan's line 136 has "O back buffer obsoleto deve ser
  invalidado").  To see it: `"Sleep"` among the gestures of `ReadingWithoutCover`, with
  `"Lever"`.
* The menu of a book with a cover is drawn on the image canvas, too, so that a manual
  refresh puts a page in its place, as in `RefreshInLibrary`.

*Panel.*
* The panel may become idle between `pollPanelTiming()` and the handler of the same
  tick.  The next poll then closes the measurement of the *new* turn, and a reflow
  or contents page is decided as an ordinary turn, `Fast` instead of `Text`.
* Reflows, contents pages and menus are exempt from the limits: repeated, they go
  past six refreshes without a cleanup.  The next ordinary turn makes up for it.
* `highlightRegion()` and `submitRegion()` bypass the budget.  A clock that
  wraps to exactly 0 turns off the timer of the last Quality refresh.
* What is submitted while an upload holds the bus is refused and lost.

*Saved position.*
* After a refused contents entry the session is reset, so going to the library or
  to sleep saves the start of the book.
* A contents jump calls `recordSaved()` without saving; the page that follows marks
  the position dirty again.  A dirty position is lost when the book is left
  through the error dialog, or when the library's own save fails.
* A forced save that is asked for while nothing is dirty stays pending.

*Portal.*
* On the networks and the password screen neither the eight minutes of a server nor
  the four seconds of a failure are counted (`AppController.cpp:833,880`): left alone
  there, the radio stays on.  `README.md:78` has "The radio turns off after eight
  minutes without a request".
* The first POST to `/api/upload` without a file is answered 201, and the next ones
  not at all, until an upload resets the flags (`WebPortalService.cpp:285`).
* A book lost in a rename is not reported, so the library goes on listing it.
* A failure's four seconds, once begun, run on through a new attempt and may stop it.
* The portal's start and stop change `state_` whatever it is, reading included.

*Library.*
* `DismissError` clears the previews and does not schedule them again.
* A folder that cannot be opened, or for which the bus is refused, leaves the
  earlier list under the new path.
* A page turn that stays on the page clears `browserDirty_`, a drawing still due
  with it.
* A scan that ends while the menu or the preparation is open draws the library
  over the menu, or closes the parser the preparation is using; that book is then
  counted as failed, with a warning.
* A cover whose read fails once is cached as no cover.  Paths that are too long
  for a record are passed over, without a warning.

## 6. What is proved

The proofs hold for every book, font table, page budget, set of gestures, and
for any number of saves.  They use only the named assumptions on the constants,
which TLC evaluates in the runs.

* `QueueStaysCoherent` (`Spec => []QueueCoherent`).  The invariant is inductive
  together with the queue's type.  `EnqueueConsistent` and `PoppedConsistent`
  are the lemmas on `enqueue()` and `pop()`, and each action either leaves
  the queue alone or goes through one of them (`QueueStep`).
* `LoopTypeOK`, `PagesAndAnchorsAgree`, `ReaderRests`
  (`Spec => []TypeOK`, `[]CacheValid`, `[]ReaderRestsOutsideBook`).  The type of
  the reader is not inductive by itself: an anchor's checkpoint is a natural
  number only because what is laid out was read before, and a page index is in
  range only because the vectors agree.  The invariant, `LoopInv`, has these parts:
  - `CacheInv`: texts and anchors have one length; the current page and the page
    being rebuilt are inside it (so truncating the cache at the rebuilt page,
    which `CommitPage` does, is always defined);
  - `TextInOrder`: `pend <= fed <= offset <= TextLength`, in an open chapter of
    the book (so every text a page takes is an interval of its chapter);
  - `Fits`: the page in progress has not outgrown the screen of the present font
    (so the room that is left is never negative);
  - a page in progress has a chapter that has not ended, and a prefetch has a
    page in progress;
  - `RunsWhereExpected`: a page is laid out only in `OpeningBook`, or as a prefetch
    in `Reading`.  This is what makes the reader *at rest* (`AtRest`) wherever the
    loop calls a method that expects it to be: page requests, menu items, sleep;
  - `ParsesAtRest`: nothing is laid out while the book's file is parsed.

  `ReadingLoopProofs` first has one lemma for each method, in terms of four
  relations between the reader before and after: `Keeps` (neither cache nor text
  changes), `Opens` (a chapter is opened, or refused), `Extends` (text moves on to
  the page) and `Commits`; `Starts`, `Serves` and `Steps` say what a caller may
  rely on.  It then takes `Next` apart: `ScreenStep` has one step
  for each action, and `ParsingStep`, `QueueStep` and `PhaseStep` prove the rest.
* `PagesRunOn`, `PagesAreContiguous`
  (`Spec => [](~rd.error => WorkFollowsAnchor)`, `Spec => [](~rd.error => PagesContiguous)`),
  for any faults, gestures and saved states.  That a page starts where the last one
  ended is not known from the two pages: it was decided when the chapter was opened,
  several cancelled slices earlier.  `PaginationInv` says of a session (`InSession`:
  from the first page being laid out until the library) that the reader is *on course*:
  - `PagesInOrder` is `PagesContiguous`; `ContinuesFrom`: nothing lies between the last
    page that stays and the anchor of the page to come, nor, during a prefetch, the
    checkpoint a cancel goes back to.  The pages that stay are the ones before the page
    being rebuilt, when there is one (`Kept`): those behind it may follow on the pages of
    another font, and go when it is committed;
  - `PlaceKnown`: the archive's entry is open, or the chapter is over and taken to its
    end; a seek is owed only while nothing is laid out; and no linear chapter lies
    between the one being read and the next to be opened;
  - `WorkInPlace` is the text of `WorkFollowsAnchor`.

  `PaginationProofs` has one lemma for each method again (`RebuildPageGood`,
  `RestoreGood`, `ContinueLayoutGood`, `PrepareGood`, ...), `EvictKeepsOrNone` for what
  eviction may do to a page, and `PaginationStep` for the loop.  The theorems speak of a
  reader without an error.  After one - a read that fails, a refused contents entry, the
  4096th page - a chapter may have been stepped over or its entry closed, and the two
  properties may be false until `start()` or `startAt()` begins anew.
* `EvictionSpares`, `ReadyBufferIsNext`, `PrefetchStaysBehind`, `ReflowStays`
  (`Spec => []EvictionSparesCurrentPage`, `[]ReadyBufferIsNextPage`,
  `PrefetchIsInvisible`, `ReflowKeepsPlace`), in `PageCacheProofs`.  Whether the page on
  the screen keeps its text is decided far from the eviction: by the anchor it was laid
  out from, and by what a prefetch that is still running will commit behind it.
  `StockInv`, inductive together with `LoopInv`, has for that
  - `Flow`: a page in progress runs from its anchor to the place the chapter is read at,
    or the archive failed and the reader is `Stuck`; this, with `Fillable` anchors, is
    why a committed page is not blank.  Unlike `PaginationInv` it has to hold after an
    error as well, for the pages kept are still shown then;
  - `Shelf`: the cache is within its budget, a reader without a current text is about to
    lay one out, and a page being rebuilt keeps its anchor.  `UnitsOfTwo` and
    `EvictSpares` are the lemmas on eviction: two pages always fit, since
    `ReaderAssumption` has a page take at most half of the budget (a screen of text
    against the 96 KiB of `kMaxVisitedPageTextBytes`);
  - `Behind`: a prefetch has the back canvas and the page after the last one, and when it
    is `Ready` nothing is in progress and that page's text is what the canvas holds.

  The theorems have hypotheses about the instance.  `TextEverywhere`: every linear
  chapter has text, and so has every saved anchor.  The code marks an evicted page by an
  empty text, so that a page without text is taken for an evicted one.  `Undisturbed`, for `ReadyBufferIsNext` alone: there is a cover, or the
  device is not put to sleep; without a cover the sleep screen is drawn over the page
  that waits (section 5).  `ReadingPages` is an instance of both, and there TLC checks
  the four properties.
* `PanelShowsPage` (`Spec => [](Len(rd.texts) < MaxHistory => PanelShowsCurrentPage)`),
  in `ShownPageProofs`.  What the panel shows is not decided by the page turned to: a
  refresh in part changes only what differs between the two canvases, so it is right only
  if the panel still shows the other one.  `PanelInv`, inductive together with `LoopInv`
  and `StockInv`, says so:
  - `InFront`: a page in progress is the front canvas, and its target, unless it is a
    prefetch; so what is submitted when it ends is the page;
  - `PageOnPanel`: while the user reads, the panel shows the front canvas, and that has
    the current page;
  - `BehindShown`, while a page is laid out for the panel or the menu is open: the back
    canvas is what the panel shows, unless the next submission redraws it all;
  - `OwnCanvasLast`: other screens were submitted from the display's own canvas or the
    image canvas.

  The reader's methods are lemmas again, in terms of whether they turn to a page
  (`Turns`), draw one (`Draws`), or work behind it (`OutOfSight`, `PreparedOn`), and
  `PanelStep` takes the loop apart.  The theorem has the hypotheses `TextEverywhere` and
  `Undisturbed` of the page cache, and two more.  `"Toc"` is not among the gestures: a
  refused entry begins the session anew with the menu on the panel (section 5).  And the
  history of 4096 pages is not full: the commit of one page more is refused after the
  front canvas was drawn over.
* `RefreshKeepsContent` (`ManualRefreshKeepsContent` while the history has room), in the
  same module and with the same hypotheses, with a cover or without.  On a page it follows
  from `PageOnPanel`; elsewhere the display's own canvas is submitted, and `ScreenShown`
  says that it has the screen that is shown, if this was submitted from it - through
  menus, dialogs, the library, and a font family that the menu failed to set.  What was
  submitted from the image canvas, the menu over a cover and the library with covers, is
  the exception in the property: there the refresh shows something else
  (`RefreshInLibrary`).  `ReadingWithoutCover` is the instance in which TLC checks it.
* `StoreNeverTorn`, `StoreNeverGoesBack`, `StoreKeepsACopy`.  None of the three
  is inductive.  The invariant that is, `StoreInv`, says in addition what each
  step of a save can rely on: the path is absent, current or the oldest that may
  be returned (`PathCurrent`); from `dropBackup` to `promote` the temporary file
  holds the whole state being saved (`TemporaryWhole`); the backup after
  `preserve` holds what the path held (`BackupCurrent`); after `promote` the path
  holds the new state (`Promoted`); and `oldest` was reached by `version`
  (`OldestReached`).

* `PersistForgetsNoChange`, `PersistResumesOwnPlace`
  (`PersistSpec => []UnsavedIsDirty`, `[]ResumesOwnPlace`).  `StoreInv` is used as
  it is, for each step of the application is one of the store's or leaves it alone
  (`StoreSteps`, `PersistUsesStore`).  `PersistInv` adds what the application relies
  on over the many steps of a save: the version on its way to the card is the place
  that is read, and dirty until the card has it (`SavedWhileOpen`); a clean page *or
  menu* is the one the card holds (`CleanIsSaved` - the menu is left without
  another look at the policy); the file, and the backup that a failed rename puts
  back, hold places (`FilesHoldPlaces`).
* `PersistImplementsRegister` (`PersistSpec => CardIsRegister`), the refinement of
  `SavedPosition`.  `SavingRefines` and `ForgettingRefines` take the store's calls one
  by one; a failing second rename puts the old place back, a lost power abandons it.
* `PanelShowsSource`, `PanelCleanedInTime`, `PanelCleanedWhenNeeded`.  `DisplayInv`
  relates the policy's counters to what the panel went through (`BudgetCounts`): the
  count of reading refreshes is the ghosts themselves, up to where it saturates, and
  those of `Fast` and `Fastest` are never more; the policy's clock is the age of the
  last cleanup.  `OpenBookOnPanel` is `PanelIsSource` with a book that is still being
  laid out: its first page is compared with the screen shown meanwhile.  That a region
  which was aligned and widened covers every column that changed is `AlignedCovers`
  and its lemmas.  `PanelCleanedWhenNeeded` has the hypothesis
  `MaxFastest <= MaxFast /\ MaxFastest <= MaxReading`, which the code's 2, 5 and 6
  satisfy; with other limits `Fastest` is not the first to be reached, and the theorem
  is false.
* `PortalNeverTruncates`, `PortalBusFollowsUpload`, `PortalLeavesNoPart`,
  `PortalConfirmsWholeBooks`, `PortalReplacesByWhole`.  `PortalInv` joins them with what
  the callbacks of an upload leave to each other: an upload that holds the bus has the
  names of its part and of its book (`NamesItsPart`), the part holds what was written and
  nothing has failed yet (`NotFailedYet`), one without the bus has failed
  (`OverIsFailed`), what is renamed has arrived whole (`AllArrived`), and an upload that
  ended without failing has its book on the card (`ArrivedIsWhole`, which is why it may be
  answered 201).  A file is its folder and its name, so that a part never is a book's
  file for any name that `resolve()` accepts.  `PortalReplacesByWhole` holds with failing
  calls and with the power going at any of them: between the removal of the older book
  and the rename all of the new one is in the part.  That one of the two is left is not
  true, and not claimed (`LostInRename`).
* `SessionServerHasLink`, `SessionLibraryIsFresh`, `SessionSavesJoined`.  `SessionInv` is
  `PortalInv` with what is known of the radio (`Sound`: what the service would remember is
  what the radio was asked to join), the password's screen (`PasswordIsForANetwork`), and
  that a stale list means known changes, or a book that was lost in a rename
  (`ChangesAreKnown`, `Lost`), and known changes a radio, since the library is read again
  where the radio is turned off.  `OnlyPollSaves` is the lemma that `poll()` alone adds to
  the saved networks.  All hold for a card that fails at any call.

* `CoverIsTheBooks`, `ListHasEverything`, `NothingPassedOver`, `ReturnsToPage`
  (`Spec => []PreviewIsOwn`, `[]ListIsComplete`, `[]DoneMeansTried`, `RestoresPage`), in
  `LibraryProofs`, for any card, folders, batches and cache, and with the portal at work
  in between.  One invariant, `LibraryInv`, has what they need:
  - `CacheSound`, `ListsSound`, `ParserSound`, `PreviewsSound`: what is kept of a book, in
    a file, a list, a queue, the parser or memory, was once on the card (`NotNewer`),
    and where it counts it still is, or is lost, while no change is to be taken in
    (`Current`).
    A cover is right because a thumbnail carries the stamp of a list that was, so that a
    hit means an equal version, and because a parser that was taken over is at the
    book of the one who took it;
  - `ScanSound`: the list and what is still to be read make up the folder, and have no
    path in common (`Apart`).  A book that is lost while its folder is read may be on
    either side, so what is compared leaves lost books out (`InSight`, `ToRead`);
  - `PreparationSound`: some set of folders was read to its end, and what these hold,
    `LongPaths` left out, is on the stack or in the queue's file (`SearchedSo`); the file
    has as many records as are counted (`Counts`).  When the stack is empty that set is all
    of the card's folders (`AllFolders`): the least that is missing would be in one that is not, as a folder
    sorts after its parent.  This takes the place of an induction down the folders;
  - `PlacesKept`: a place in the history is the page its folder was last left at, provided
    that the way from there only leads down (`Down`).  A scan that the bus refuses
    leaves another folder's list under the path, in which one may go up or in a
    circle; such a place is no longer promised, and it is not come back to, either,
    since only the parent's is.

* `PageKeepsItsCovers` (`Spec => KeepsVisible`), in the same module, with the hypothesis
  `2 * PageSize <= MaxPreviews` (8 and 20 in the code): where two pages of books do not
  fit, the property is false.  Whether a cover may be pushed out is decided when the page is drawn,
  by the order in which `render()` stamps what it uses.  `RoomInv`, inductive together with
  `LibraryInv`, says that what is newer than a preview on the page, and what the queue
  has still to load, is less than memory holds (`Room`).  `RenderedRoom` gives it
  after a drawing, for the page's previews are then the newest, and with those queued they
  are no more than its books (`ScheduledRoom`); `SetPreviewRoom` keeps it.  Between a
  list and its drawing, after a book was closed by an error or a page was asked for
  that there is not, it is the emptied memory or the emptied queue that makes up for it.

* `LibraryIsTyped` (`Spec => []LibraryTypeOK`), in the same module: with the types come the
  limits, and these are not inductive alone.  `LimitsInv` adds to `LibraryInv` that no path
  is listed twice (`NoneTwice`), from which `RenderedHolds` has that a drawing, which
  puts the previews of the drawn books last, adds none: each book is drawn once.  A batch
  takes no more entries than there is room for, and loses none, so that the page shown
  stays one there is (`BatchHolds`, `MorePages`).

  `RankedLists`, `PickLists`, `PickOrder`, `SortedLists` and `SortedOnce` say what the
  operators on lists return.  `Browses` is what the user's and the scanner's steps have in common, `CardChanges`
  the portal's; `StepKeeps` is one lemma for each action, and `StepPlaces` does the
  history.

Not proved, only model-checked: liveness (`OpeningEnds`, `PrefetchEnds`,
`SavedWhenLeftAlone`, `LeftAloneRadioGoesOff`, `PreparationEnds`), which is out of the
prover's reach.

## 7. What is not modelled, and the plan

Not modelled because there is nothing to interleave: the HTML / XML / CSS readers,
fonts and glyphs, `PathUtils` (pure, with tests), diagnostics, mounting the card,
the Python tools, and how the views draw.  `ReadingStateCodec` is pure encoding with
a checksum; the models take it to tell a whole record from a torn one.

Left out of what is modelled: inline images and their quality canvas; the EPUB
parser's phases beyond opening, reading and being ready; failure to allocate the
library's parser; the tap that selects a book without opening it; the power going
between the calls of a thumbnail's save (a failing save is one step); a directory whose
reading fails in the middle; an upload that brings a lost book back; sleep in the
library's model; debouncing of touch.  Operations without a caller in the
application are left out, too: `forget()` of one network, `markTouch()`,
`recordQualityCompleted()` and `reset()` of the budget.

What remains is to model the power going between the calls of a thumbnail's save, and
sleep in the library.
