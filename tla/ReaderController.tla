-------------------------- MODULE ReaderController --------------------------
(***************************************************************************)
(* Pagination, page cache and prefetch of the reader (reader/              *)
(* ReaderController), on top of the EPUB archive's single open entry       *)
(* (epub/EpubArchive) and of the layout engine's page.                     *)
(*                                                                         *)
(* The controller is a record, and each of its methods an operator from a  *)
(* record to a record whose field "result" is the WorkResult returned.     *)
(*                                                                         *)
(* A chapter's text is a row of numbered units, one per laid out line; a   *)
(* Text names the interval (from, to] of a chapter, so two pages can be    *)
(* compared for lost or repeated text without spelling it.  A page holds   *)
(* Lines[size][family] units and is full when a unit is left over, or when *)
(* its last unit ends a paragraph: the newline then has no line to go to.  *)
(* Books are textual: inline images and their quality canvas are left out, *)
(* as are canvas states and presentation sources, which are never read.    *)
(***************************************************************************)
EXTENDS Integers, Sequences, FiniteSets, FiniteSetsExt, PrefetchStateMachine

CONSTANTS
  Spine,        \* number of spine items of the book
  Linear,       \* those that are linear XHTML documents
  TextLength,   \* units of text of each spine item
  Breaks,       \* units of each spine item that end a paragraph
  Lines,        \* units per page: Lines[size][family]
  ChunkUnits,   \* units one read of the archive returns (kReaderInputChunkSize)
  MaxHistory,   \* kMaxPageHistoryEntries
  MaxCached,    \* kMaxVisitedPageTextBytes, in units
  DoubleBuffer  \* whether the second canvas could be allocated

Chapters == 0 .. Spine - 1
Sizes == DOMAIN Lines
Families == 0 .. 2

ASSUME BookAssumption ==
  /\ Spine \in Nat \ {0} \* the parser refuses an empty one
  /\ Linear \subseteq Chapters
  /\ TextLength \in [Chapters -> Nat]
  /\ Breaks \in [Chapters -> SUBSET Nat]

ASSUME ReaderAssumption ==
  /\ Lines \in Seq([Families -> Nat \ {0}]) /\ Lines # <<>>
  /\ ChunkUnits \in Nat \ {0}
  /\ MaxHistory \in Nat /\ MaxCached \in Nat
  /\ DoubleBuffer \in BOOLEAN
  \* 96 KiB of text are more than any two screens
  /\ \A size \in Sizes, family \in Families : 2 * Lines[size][family] <= MaxCached

NoPage == -1
NoText == [spine |-> 0, from |-> 0, to |-> 0]
(* What a canvas holds once another view has drawn on it. *)
OtherScreen == [spine |-> 0, from |-> 1, to |-> 0]

Texts == [spine : Nat, from : Nat, to : Nat]
Anchors == [spine : Nat, parserCheckpoint : Nat]
WorkResults == {"Idle", "MoreWork", "Completed", "Failed"}

Size(t) == t.to - t.from
IsBlank(t) == t.from = t.to
StartOf(c) == [spine |-> c, parserCheckpoint |-> 0]

Readers ==
  [texts : Seq(Texts), anchors : Seq(Anchors), current : Nat,
   rebuilding : Nat \cup {NoPage},
   work : Texts, workAnchor : Anchors,
   chapter : Nat, entryOpen : BOOLEAN, offset : Nat, fed : Nat, pend : Nat,
   inputReady : BOOLEAN, inputEnded : BOOLEAN, layoutPending : BOOLEAN,
   seek : Nat, spineIndex : Nat, chapterEnded : BOOLEAN, endOfBook : BOOLEAN,
   active : BOOLEAN, error : BOOLEAN,
   prefetching : BOOLEAN, prefetch : PrefetchStates, checkpoint : Anchors,
   size : Sizes, family : Families,
   front : Texts, back : Texts, target : {"front", "back"},
   displayCanvas : {"front", "back"}, result : WorkResults]

(* The fields resetSession() clears, and their values. *)
Cleared(size, family) ==
  [texts |-> <<>>, anchors |-> <<>>, current |-> 0, rebuilding |-> NoPage,
   work |-> NoText, workAnchor |-> StartOf(0),
   chapter |-> 0, entryOpen |-> FALSE, offset |-> 0, fed |-> 0, pend |-> 0,
   inputReady |-> FALSE, inputEnded |-> FALSE, layoutPending |-> FALSE,
   seek |-> 0, spineIndex |-> 0, chapterEnded |-> TRUE, endOfBook |-> FALSE,
   active |-> FALSE, error |-> FALSE,
   prefetching |-> FALSE, prefetch |-> "Idle", checkpoint |-> StartOf(0),
   size |-> size, family |-> family,
   front |-> NoText, back |-> NoText, target |-> "front",
   displayCanvas |-> "front", result |-> "Idle"]

(* A controller no book was opened with yet: 16 px, family Compact. *)
Compact == 2
NewReader == [Cleared(1, Compact) EXCEPT !.chapterEnded = FALSE]

Return(r, work) == [r EXCEPT !.result = work]
Idle(r) == Return(r, "Idle")

ValidCache(r) ==
  /\ Len(r.texts) = Len(r.anchors)
  /\ r.texts = <<>> \/ r.current < Len(r.texts)

(* Mutated: the page whose layout failed stays active. *)
FailReaderStillActive(r) ==
  [r EXCEPT !.error = TRUE, !.prefetching = FALSE,
            !.rebuilding = NoPage, !.entryOpen = FALSE, !.result = "Failed"]

(* failReader(): endEntry() closes the archive's entry whatever it held. *)
FailReader(r) ==
  [r EXCEPT !.error = TRUE, !.active = FALSE, !.prefetching = FALSE,
            !.rebuilding = NoPage, !.entryOpen = FALSE, !.result = "Failed"]

MoveTo(r, state) ==
  IF r.prefetching THEN [r EXCEPT !.prefetch = Transition(@, state)] ELSE r

OnCanvas(r, canvas, content) ==
  IF canvas = "front" THEN [r EXCEPT !.front = content] ELSE [r EXCEPT !.back = content]

(* beginBlankPage() *)
BlankPage(r, canvas) == OnCanvas([r EXCEPT !.work = NoText, !.target = canvas], canvas, NoText)
-----------------------------------------------------------------------------
(***************************************************************************)
(* Opening a chapter.  "ok" is the archive's answer to beginEntry(), which *)
(* also refuses while another entry is open.                               *)
(***************************************************************************)
Opened(r, c) ==
  [r EXCEPT !.chapter = c, !.entryOpen = TRUE, !.offset = 0, !.fed = 0, !.pend = 0,
            !.inputReady = FALSE, !.inputEnded = FALSE, !.layoutPending = FALSE,
            !.chapterEnded = FALSE, !.spineIndex = c + 1, !.workAnchor = StartOf(c),
            !.result = "Completed"]

OpenLinearSpineAt(r, c, ok) ==
  CASE c \notin Linear        -> Return(r, "Failed")
    [] c \in Linear /\ (~ok \/ r.entryOpen) -> [r EXCEPT !.error = TRUE, !.result = "Failed"]
    [] OTHER                  -> [Opened(r, c) EXCEPT !.endOfBook = FALSE]

(* The search steps over the chosen item before the archive is asked for it. *)
OpenNextLinearSpine(r, ok) ==
  LET ahead == {c \in Linear : c >= r.spineIndex}
      c     == Min(ahead)
  IN  CASE ahead = {} ->
             [r EXCEPT !.spineIndex = Max({r.spineIndex, Spine}), !.endOfBook = TRUE,
                       !.result = "Failed"]
        [] ahead # {} /\ (~ok \/ r.entryOpen) ->
             [r EXCEPT !.spineIndex = c + 1, !.error = TRUE, !.result = "Failed"]
        [] OTHER -> Opened(r, c)

(***************************************************************************)
(* Sessions.  The front canvas is the display's own again; what the two    *)
(* canvases hold is not erased.                                            *)
(***************************************************************************)
ResetSession(r) ==
  [Cleared(r.size, r.family) EXCEPT
     !.entryOpen = r.entryOpen /\ ~r.active /\ r.chapterEnded,
     !.front = IF r.displayCanvas = "front" THEN r.front ELSE r.back,
     !.back  = IF r.displayCanvas = "front" THEN r.back ELSE r.front]

Start(r, ok) ==
  LET opened == OpenNextLinearSpine(ResetSession(r), ok)
  IN  IF opened.result = "Failed" THEN [opened EXCEPT !.error = TRUE]
      ELSE [BlankPage(opened, "front") EXCEPT !.active = TRUE]

(* Mutated: no cache slots are made for the pages of the restored history. *)
StartAtWithoutSlots(r, anchor, size, family, history, ok) ==
  LET opened == OpenLinearSpineAt([ResetSession(r) EXCEPT !.size = size, !.family = family],
                                  anchor.spine, ok)
  IN  IF opened.result = "Failed" THEN [opened EXCEPT !.error = TRUE]
      ELSE [BlankPage(opened, "front") EXCEPT
              !.workAnchor = anchor, !.seek = anchor.parserCheckpoint, !.anchors = history,
              !.active = TRUE]

(* startAt() with a restored anchor, font and page history *)
StartAt(r, anchor, size, family, history, ok) ==
  LET opened == OpenLinearSpineAt([ResetSession(r) EXCEPT !.size = size, !.family = family],
                                  anchor.spine, ok)
  IN  IF opened.result = "Failed" THEN [opened EXCEPT !.error = TRUE]
      ELSE [BlankPage(opened, "front") EXCEPT
              !.workAnchor = anchor, !.seek = anchor.parserCheckpoint, !.anchors = history,
              !.texts = [i \in DOMAIN history |-> NoText], !.active = TRUE]

(* A table-of-contents jump: startAt()'s default family comes back with it. *)
StartAtSpine(r, c, ok) == StartAt(r, StartOf(c), r.size, Compact, <<>>, ok)
-----------------------------------------------------------------------------
(***************************************************************************)
(* Laying text out.  Pending text is the interval (pend, fed] of the       *)
(* chapter: what the tokenizer produced and no page took yet.              *)
(***************************************************************************)
Room(r) == Lines[r.size][r.family] - Size(r.work)
Pending(r) == r.fed - r.pend
Taken(r) == Min({Room(r), Pending(r)})

PageFull(r) ==
  \/ Pending(r) > Room(r)
  \/ /\ 0 < Taken(r) /\ Taken(r) = Room(r)
     /\ r.pend + Taken(r) \in Breaks[r.chapter]

(* processText(), append to workingText_, erase from pendingText_ *)
LayOut(r) ==
  LET n    == Taken(r)
      page == IF IsBlank(r.work) THEN [spine |-> r.chapter, from |-> r.pend, to |-> r.pend + n]
              ELSE [r.work EXCEPT !.to = @ + n]
  IN  IF n = 0 THEN r
      ELSE OnCanvas([r EXCEPT !.work = page, !.pend = @ + n], r.target, page)

(* What the cache holds, unit by unit, and how much that is *)
UnitsAt(texts, i) == {i} \X (texts[i].from + 1 .. texts[i].to)
CachedUnits(texts) == Cardinality(UNION {UnitsAt(texts, i) : i \in DOMAIN texts})

(* Mutated: the budget is checked before the new page is counted. *)
EvictBeforeAppend(texts, current) ==
  LET without(k) == [i \in DOMAIN texts |->
                       IF i <= k /\ i # current + 1 THEN NoText ELSE texts[i]]
      enough == {k \in 0 .. Len(texts) :
                   CachedUnits(SubSeq(without(k), 1, Len(texts) - 1)) <= MaxCached}
  IN  without(Min(enough \cup {Len(texts)}))

(* Old texts go, oldest first and never the current page's, until the rest *)
(* fits; the anchors of all pages stay.                                    *)
Evict(texts, current) ==
  LET without(k) == [i \in DOMAIN texts |->
                       IF i <= k /\ i # current + 1 THEN NoText ELSE texts[i]]
      enough == {k \in 0 .. Len(texts) : CachedUnits(without(k)) <= MaxCached}
  IN  without(Min(enough \cup {Len(texts)}))

(* A rebuilt page replaces the cache from its index on. *)
CommitPage(r) ==
  LET kept    == IF r.rebuilding = NoPage THEN Len(r.texts) ELSE r.rebuilding
      current == IF r.rebuilding = NoPage /\ r.prefetching THEN r.current ELSE kept
  IN  [r EXCEPT
         !.texts   = Evict(Append(SubSeq(@, 1, kept), r.work), current),
         !.anchors = Append(SubSeq(@, 1, kept), r.workAnchor),
         !.current = current, !.rebuilding = NoPage,
         !.workAnchor.parserCheckpoint = @ + Size(r.work), !.result = "Completed"]

CommitRefused(r) ==
  \/ ~ValidCache(r)
  \/ r.rebuilding = NoPage /\ Len(r.texts) >= MaxHistory

Commit(r) == IF CommitRefused(r) THEN FailReader(r) ELSE CommitPage(r)

(* The page is over: the next one may be swapped in if it was a prefetch. *)
Finish(r) ==
  [MoveTo(r, "Ready") EXCEPT !.active = FALSE, !.prefetching = FALSE, !.result = "Completed"]

ContinueLayout(r, ok) ==
  LET laid  == [LayOut(MoveTo(r, "LayingOut")) EXCEPT !.layoutPending = FALSE]
      ended == [laid EXCEPT !.inputEnded = FALSE, !.chapterEnded = TRUE]
      last  == IF IsBlank(ended.work) /\ ended.texts # <<>> THEN Return(ended, "Completed")
               ELSE Commit(ended)
      full  == Commit([laid EXCEPT !.inputEnded = FALSE])
  IN  CASE ~(r.active /\ r.layoutPending) -> Idle(r)
        [] r.active /\ r.layoutPending /\ PageFull(r) ->
             IF full.result = "Failed" THEN full ELSE Finish(full)
        [] r.active /\ r.layoutPending /\ ~PageFull(r) /\ r.inputEnded ->
             IF last.result = "Failed" THEN last
             ELSE IF ~ok \/ r.offset # TextLength[r.chapter] THEN FailReader(last)
             ELSE Finish([last EXCEPT !.entryOpen = FALSE])
        [] OTHER -> Return(MoveTo(laid, "ReadingInput"), "MoreWork")
-----------------------------------------------------------------------------
(***************************************************************************)
(* Reading the chapter.  The input buffer holds (fed, offset].             *)
(***************************************************************************)
ReadInputChunk(r, ok) ==
  LET reading == MoveTo(r, "ReadingInput")
      count   == Min({ChunkUnits, TextLength[r.chapter] - r.offset})
  IN  CASE ~r.active \/ r.inputReady \/ r.layoutPending -> Idle(r)
        [] r.active /\ ~r.inputReady /\ ~r.layoutPending /\ (~ok \/ ~r.entryOpen) ->
             FailReader(reading)
        [] OTHER ->
             [reading EXCEPT !.offset = @ + count, !.inputEnded = count = 0,
                             !.inputReady = TRUE, !.result = "MoreWork"]

(* After a reopened chapter, text up to the checkpoint is skipped first. *)
ProcessBufferedInput(r) ==
  LET skipped == Min({r.offset - r.pend, r.seek})
      fed == [MoveTo(r, "Parsing") EXCEPT
                !.fed = r.offset, !.inputReady = FALSE, !.pend = @ + skipped,
                !.seek = @ - skipped, !.result = "MoreWork"]
  IN  CASE ~(r.active /\ r.inputReady) -> Idle(r)
        [] r.active /\ r.inputReady /\ r.seek > skipped ->
             IF r.inputEnded THEN FailReader(fed) ELSE fed
        [] OTHER -> [fed EXCEPT !.layoutPending = TRUE]

(* Mutated: the reopened chapter is read from its start. *)
RestoreWithoutSeek(r, ok) ==
  LET stopped == [r EXCEPT !.prefetch = Transition(@, "Restoring"), !.entryOpen = FALSE,
                           !.active = FALSE, !.prefetching = FALSE, !.pend = r.fed,
                           !.work = NoText, !.inputReady = FALSE, !.inputEnded = FALSE,
                           !.layoutPending = FALSE]
      opened  == OpenLinearSpineAt(stopped, r.checkpoint.spine, ok)
  IN  IF opened.result = "Failed" THEN FailReader([opened EXCEPT !.prefetch = "Failed"])
      ELSE [opened EXCEPT !.workAnchor = r.checkpoint, !.prefetch = "Idle", !.result = "Idle"]

(* A cancelled prefetch goes back to where it began. *)
RestorePrefetchCheckpoint(r, ok) ==
  LET stopped == [r EXCEPT !.prefetch = Transition(@, "Restoring"), !.entryOpen = FALSE,
                           !.active = FALSE, !.prefetching = FALSE, !.pend = r.fed,
                           !.work = NoText, !.inputReady = FALSE, !.inputEnded = FALSE,
                           !.layoutPending = FALSE]
      opened  == OpenLinearSpineAt(stopped, r.checkpoint.spine, ok)
  IN  IF opened.result = "Failed" THEN FailReader([opened EXCEPT !.prefetch = "Failed"])
      ELSE [opened EXCEPT !.workAnchor = r.checkpoint, !.seek = r.checkpoint.parserCheckpoint,
                          !.prefetch = "Idle", !.result = "Idle"]

(* Mutated: a prefetch asked to stop waits for work instead of restoring.  *)
ProcessNextChunkIgnoringCancel(r, ok) ==
  IF ~r.active \/ r.prefetch = "CancelRequested" THEN Idle(r)
  ELSE IF r.inputReady THEN ProcessBufferedInput(r)
  ELSE IF r.layoutPending THEN ContinueLayout(r, ok)
  ELSE ReadInputChunk(r, ok)

ProcessNextChunk(r, ok) ==
  IF r.prefetching /\ r.prefetch = "CancelRequested" THEN RestorePrefetchCheckpoint(r, ok)
  ELSE IF ~r.active THEN Return(r, IF r.error THEN "Failed" ELSE "Idle")
  ELSE IF r.inputReady THEN ProcessBufferedInput(r)
  ELSE IF r.layoutPending THEN ContinueLayout(r, ok)
  ELSE ReadInputChunk(r, ok)

HasCpuOnlyWork(r) == r.inputReady \/ (r.layoutPending /\ ~r.inputEnded)

(* One of the two steps processCpuOnlyWork() may take; its result is lost. *)
ProcessCpuOnlyWork(r) ==
  Idle(IF r.inputReady THEN ProcessBufferedInput(r) ELSE ContinueLayout(r, TRUE))
-----------------------------------------------------------------------------
(***************************************************************************)
(* Page requests.                                                          *)
(***************************************************************************)
PrepareUncachedPage(r, canvas, ok) ==
  LET opened == IF r.chapterEnded THEN OpenNextLinearSpine(r, ok) ELSE Return(r, "Completed")
      laid   == LayOut(BlankPage(opened, canvas))
      filled == Pending(opened) > 0 /\ PageFull(BlankPage(opened, canvas))
  IN  IF ~ValidCache(r) THEN FailReader(r)
      ELSE IF r.active THEN Return(r, "MoreWork")
      ELSE IF r.endOfBook THEN Idle(r)
      ELSE IF opened.result = "Failed" THEN Return(opened, IF opened.error THEN "Failed" ELSE "Idle")
      ELSE IF filled THEN Commit(laid)
      ELSE [laid EXCEPT !.active = TRUE, !.result = "MoreWork"]

(* Mutated: the chapter is reopened without seeking the page's anchor. *)
RebuildPageWithoutSeek(r, index, ok) ==
  LET anchor == r.anchors[index + 1]
      closed == [r EXCEPT !.entryOpen = r.entryOpen /\ r.chapterEnded]
      opened == OpenLinearSpineAt(closed, anchor.spine, ok)
  IN  IF index >= Len(r.anchors) \/ r.active THEN Idle(r)
      ELSE IF opened.result = "Failed" THEN [opened EXCEPT !.error = TRUE]
      ELSE [BlankPage(opened, "front") EXCEPT
              !.rebuilding = index, !.workAnchor = anchor,
              !.active = TRUE, !.result = "MoreWork"]

(* A page rebuilt from its anchor: the cache keeps no text of it. *)
RebuildPage(r, index, ok) ==
  LET anchor == r.anchors[index + 1]
      closed == [r EXCEPT !.entryOpen = r.entryOpen /\ r.chapterEnded]
      opened == OpenLinearSpineAt(closed, anchor.spine, ok)
  IN  IF index >= Len(r.anchors) \/ r.active THEN Idle(r)
      ELSE IF opened.result = "Failed" THEN [opened EXCEPT !.error = TRUE]
      ELSE [BlankPage(opened, "front") EXCEPT
              !.rebuilding = index, !.seek = anchor.parserCheckpoint, !.workAnchor = anchor,
              !.active = TRUE, !.result = "MoreWork"]

(* The cached text is drawn with the current font, as far as it fits. *)
Drawn(r, t) ==
  LET shown == Min({Size(t), Lines[r.size][r.family]})
  IN  IF IsBlank(t) THEN NoText ELSE [t EXCEPT !.to = t.from + shown]

RenderCachedPage(r, index) ==
  LET t == r.texts[index + 1]
  IN  [BlankPage(r, "front") EXCEPT
         !.work = t, !.front = Drawn(r, t), !.current = index, !.result = "Completed"]

CanRedraw(r) == r.current < Len(r.texts) /\ ~IsBlank(r.texts[r.current + 1])
RedrawCurrentPage(r) == IF CanRedraw(r) THEN RenderCachedPage(r, r.current) ELSE r

(* Mutated: the swap forgets to count the page. *)
SwapCanvasesOnly(r) ==
  [r EXCEPT !.front = r.back, !.back = r.front, !.prefetch = "Idle",
            !.displayCanvas = IF @ = "front" THEN "back" ELSE "front", !.result = "Completed"]

(* The canvases change roles; the texts and pixels stay where they are. *)
SwapCanvases(r) ==
  [r EXCEPT !.front = r.back, !.back = r.front, !.current = @ + 1, !.prefetch = "Idle",
            !.displayCanvas = IF @ = "front" THEN "back" ELSE "front", !.result = "Completed"]

RequestNextPage(r, ok) ==
  IF ~ValidCache(r) THEN FailReader(r)
  ELSE IF r.prefetching \/ r.active THEN Return(r, "MoreWork")
  ELSE IF r.current + 1 >= Len(r.texts) THEN PrepareUncachedPage(r, "front", ok)
  ELSE IF r.prefetch = "Ready" /\ DoubleBuffer THEN SwapCanvases(r)
  ELSE IF IsBlank(r.texts[r.current + 2]) THEN RebuildPage(r, r.current + 1, ok)
  ELSE [RenderCachedPage(r, r.current + 1) EXCEPT !.prefetch = "Idle"]

(* Mutated: a Ready prefetch survives. *)
KeepReadyPrefetch(r) == r

InvalidateReadyPrefetch(r) ==
  [r EXCEPT !.prefetch = IF @ = "Ready" THEN "Idle" ELSE @]

RequestPreviousPage(r, ok) ==
  LET fresh == InvalidateReadyPrefetch(r)
  IN  IF ~ValidCache(r) THEN FailReader(r)
      ELSE IF r.active \/ r.current = 0 \/ r.texts = <<>> THEN Idle(r)
      ELSE IF IsBlank(r.texts[r.current]) THEN RebuildPage(fresh, r.current - 1, ok)
      ELSE RenderCachedPage(fresh, r.current - 1)

PrefetchBlocked(r) ==
  \/ ~DoubleBuffer \/ r.active \/ r.prefetching \/ r.endOfBook
  \/ r.current + 1 < Len(r.texts)

RequestPrefetch(r, ok) ==
  LET noted    == [r EXCEPT !.checkpoint = r.workAnchor]
      prepared == PrepareUncachedPage([noted EXCEPT !.prefetching = TRUE,
                                                    !.prefetch = "ReadingInput"], "back", ok)
  IN  IF ~ValidCache(r) THEN FailReader(r)
      ELSE IF PrefetchBlocked(r) THEN Idle(r)
      ELSE IF ~CanStart(r.prefetch) THEN Idle(noted)
      ELSE CASE prepared.result = "MoreWork"  -> prepared
             [] prepared.result = "Completed" ->
                  [MoveTo(prepared, "Ready") EXCEPT !.prefetching = FALSE]
             [] OTHER -> [prepared EXCEPT !.prefetching = FALSE, !.prefetch = "Idle"]

CancelPrefetch(r) == [r EXCEPT !.prefetch = RequestCancel(@)]

(* Mutated: the last page of the cache is laid out again. *)
ReflowLastPage(r, size, ok) ==
  IF ~ValidCache(r) THEN FailReader(r)
  ELSE IF r.active \/ r.texts = <<>> \/ size = r.size THEN Idle(r)
  ELSE RebuildPage(InvalidateReadyPrefetch([r EXCEPT !.size = size]), Len(r.texts) - 1, ok)

(* Font changes lay the current page out again; the pages before it keep   *)
(* their texts, the ones after it go when it is committed.                 *)
ReflowCurrentPage(r, size, ok) ==
  IF ~ValidCache(r) THEN FailReader(r)
  ELSE IF r.active \/ r.texts = <<>> \/ size = r.size THEN Idle(r)
  ELSE RebuildPage(InvalidateReadyPrefetch([r EXCEPT !.size = size]), r.current, ok)

(* Sizes 16, 24, 32, 36 and 40 px, numbered from 1. *)
IncreaseFontSize(r, ok) == IF r.size + 1 \in Sizes THEN ReflowCurrentPage(r, r.size + 1, ok) ELSE Idle(r)

(* Mutated: no smallest size. *)
DecreaseFontSizeUnguarded(r, ok) == ReflowCurrentPage(r, r.size - 1, ok)

DecreaseFontSize(r, ok) == IF r.size - 1 \in Sizes THEN ReflowCurrentPage(r, r.size - 1, ok) ELSE Idle(r)

CycleFontFamily(r, ok) ==
  IF r.active \/ r.texts = <<>> THEN Idle(r)
  ELSE RebuildPage(InvalidateReadyPrefetch([r EXCEPT !.family = (@ + 1) % 3]), r.current, ok)
=============================================================================
