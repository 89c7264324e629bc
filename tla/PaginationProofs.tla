-------------------------- MODULE PaginationProofs --------------------------
(***************************************************************************)
(* Proofs about pagination, for any book, fonts, gestures, saved states    *)
(* and failures of the archive: as long as nothing has failed, the text a  *)
(* page takes runs on from its anchor, and no text is lost or repeated     *)
(* between one page and the next.                                          *)
(***************************************************************************)
EXTENDS ReadingLoopProofs

(* The pages that stay when the page in progress is committed *)
Kept(r) == IF r.rebuilding = NoPage THEN Len(r.texts) ELSE r.rebuilding

(* PagesContiguous, of any reader *)
PagesInOrder(r) ==
  \A i \in DOMAIN r.texts : ~IsBlank(r.texts[i]) =>
    /\ r.texts[i].spine = r.anchors[i].spine
    /\ r.texts[i].from = r.anchors[i].parserCheckpoint
    /\ i < Len(r.texts) => ContinuesAt(r.texts[i], r.anchors[i + 1])

(* Nothing lies between the last page that stays and anchor a. *)
ContinuesFrom(r, a) ==
  Kept(r) # 0 /\ ~IsBlank(r.texts[Kept(r)]) => ContinuesAt(r.texts[Kept(r)], a)

(***************************************************************************)
(* Where the chapter is read: what the tokenizer produced is all that was  *)
(* read, unless some of it is still buffered; a seek that is owed is done  *)
(* before anything is laid out; and no chapter was stepped over.           *)
(***************************************************************************)
PlaceKnown(r) ==
  /\ r.workAnchor.spine = r.chapter
  /\ r.seek = 0 \/ (r.pend = r.fed /\ ~r.layoutPending /\ ~r.chapterEnded)
  /\ r.inputReady \/ r.fed = r.offset
  /\ ~(r.inputReady /\ r.layoutPending)
  /\ IF r.chapterEnded THEN r.pend = TextLength[r.chapter] ELSE r.entryOpen
  /\ r.chapter < r.spineIndex
  /\ \A c \in Linear : c <= r.chapter \/ r.spineIndex <= c

(* What the page in progress took starts at its anchor and ends there. *)
WorkInPlace(r) ==
  /\ r.workAnchor.parserCheckpoint + Size(r.work) = r.pend + r.seek
  /\ ~IsBlank(r.work) =>
       r.work.spine = r.chapter /\ r.work.from = r.workAnchor.parserCheckpoint

OnCourse(r) ==
  /\ PagesInOrder(r) /\ ContinuesFrom(r, r.workAnchor) /\ PlaceKnown(r)
  /\ IF r.active THEN WorkInPlace(r)
     ELSE r.workAnchor.parserCheckpoint = r.pend + r.seek
  /\ r.active /\ r.prefetching => ContinuesFrom(r, r.checkpoint)

InSession(state, laying) == state \in {"Reading", "ReaderMenu"} \/ (state = "OpeningBook" /\ laying)

PaginationInv ==
  ~rd.error =>
    /\ PagesInOrder(rd)
    /\ InSession(app, layingOut) => OnCourse(rd)
-----------------------------------------------------------------------------
(***************************************************************************)
(* Most of what a method does is none of pagination's business.            *)
(***************************************************************************)
SamePages(r, s) == s.texts = r.texts /\ s.anchors = r.anchors /\ s.rebuilding = r.rebuilding

SameText(r, s) ==
  /\ s.chapter = r.chapter /\ s.offset = r.offset /\ s.fed = r.fed /\ s.pend = r.pend
  /\ s.seek = r.seek /\ s.inputReady = r.inputReady /\ s.layoutPending = r.layoutPending

SamePlace(r, s) ==
  /\ SameText(r, s)
  /\ s.workAnchor = r.workAnchor /\ s.spineIndex = r.spineIndex
  /\ s.chapterEnded = r.chapterEnded /\ s.entryOpen = r.entryOpen

(* ... whatever becomes of the page in progress *)
AlikeButWork(r, s) ==
  /\ SamePages(r, s) /\ SamePlace(r, s)
  /\ s.error = r.error /\ s.checkpoint = r.checkpoint /\ GoesOn(r, s)

Alike(r, s) == AlikeButWork(r, s) /\ s.work = r.work

(* A reader that has not failed has its pages and its place in order. *)
Good(r) == ~r.error => OnCourse(r)

LEMMA AlikeGood ==
  ASSUME NEW r, NEW s, Good(r), AlikeButWork(r, s), r.active => s.work = r.work
  PROVE  Good(s)
BY DEF Good, OnCourse, AlikeButWork, SamePages, SamePlace, SameText, GoesOn, PagesInOrder,
   ContinuesFrom, Kept, PlaceKnown, WorkInPlace

LEMMA AlikeTrans ==
  ASSUME NEW r, NEW s, NEW t, Alike(r, s), Alike(s, t)
  PROVE  Alike(r, t)
BY DEF Alike, AlikeButWork, SamePages, SamePlace, SameText, GoesOn

LEMMA ErrorGood ==
  ASSUME NEW r, r.error = TRUE
  PROVE  Good(r)
BY DEF Good

LEMMA FailReaderGood ==
  ASSUME NEW r \in Readers
  PROVE  Good(FailReader(r)) /\ FailReader(r).error = TRUE
BY DEF FailReader, Readers, Good

LEMMA ReturnAlike ==
  ASSUME NEW r \in Readers, NEW w
  PROVE  Alike(r, Return(r, w))
BY DEF Return, Readers, Alike, AlikeButWork, SamePages, SamePlace, SameText, GoesOn

LEMMA IdleAlike ==
  ASSUME NEW r \in Readers
  PROVE  Alike(r, Idle(r))
BY ReturnAlike DEF Idle

LEMMA PrefetchAlike ==
  ASSUME NEW r \in Readers, NEW p
  PROVE  Alike(r, [r EXCEPT !.prefetch = p])
BY DEF Readers, Alike, AlikeButWork, SamePages, SamePlace, SameText, GoesOn

LEMMA MoveToAlike ==
  ASSUME NEW r \in Readers, NEW p
  PROVE  Alike(r, MoveTo(r, p))
<1>1. Alike(r, r)
  BY DEF Alike, AlikeButWork, SamePages, SamePlace, SameText, GoesOn
<1> QED
  BY <1>1, PrefetchAlike DEF MoveTo

LEMMA OnCanvasAlike ==
  ASSUME NEW r \in Readers, NEW c, NEW t
  PROVE  Alike(r, OnCanvas(r, c, t))
BY DEF OnCanvas, Readers, Alike, AlikeButWork, SamePages, SamePlace, SameText, GoesOn

LEMMA InvalidateAlike ==
  ASSUME NEW r \in Readers
  PROVE  Alike(r, InvalidateReadyPrefetch(r)) /\ Alike(r, CancelPrefetch(r))
BY PrefetchAlike DEF InvalidateReadyPrefetch, CancelPrefetch

LEMMA BlankPageAlike ==
  ASSUME NEW r \in Readers, NEW c \in {"front", "back"}
  PROVE  AlikeButWork(r, BlankPage(r, c)) /\ BlankPage(r, c).work = NoText
<1> DEFINE s == [r EXCEPT !.work = NoText, !.target = c]
<1>1. s \in Readers
  BY BookFacts DEF Readers
<1>2. AlikeButWork(r, s) /\ s.work = NoText
  BY DEF Readers, AlikeButWork, SamePages, SamePlace, SameText, GoesOn
<1>3. BlankPage(r, c) = OnCanvas(s, c, NoText)
  BY DEF BlankPage
<1> HIDE DEF s
<1>4. Alike(s, BlankPage(r, c))
  BY <1>1, <1>3, OnCanvasAlike
<1> QED
  BY <1>2, <1>4 DEF Alike, AlikeButWork, SamePages, SamePlace, SameText, GoesOn
-----------------------------------------------------------------------------
(***************************************************************************)
(* Laying text out: a page takes what was not taken yet, and nothing while *)
(* a seek is owed.                                                         *)
(***************************************************************************)
LEMMA LayOutInPlace ==
  ASSUME NEW r, Resting(r), Fits(r), PlaceKnown(r), WorkInPlace(r), ~r.chapterEnded
  PROVE  /\ SamePages(r, LayOut(r)) /\ PlaceKnown(LayOut(r)) /\ WorkInPlace(LayOut(r))
         /\ LayOut(r).workAnchor = r.workAnchor /\ LayOut(r).checkpoint = r.checkpoint
         /\ LayOut(r).error = r.error /\ GoesOn(r, LayOut(r))
         /\ LayOut(r).pend = r.pend + Taken(r) /\ LayOut(r).chapterEnded = FALSE
         /\ LayOut(r).chapter = r.chapter /\ LayOut(r).offset = r.offset
         /\ LayOut(r).fed = r.fed /\ LayOut(r).seek = r.seek
         /\ LayOut(r).inputReady = r.inputReady
<1> DEFINE n == Taken(r)
<1> DEFINE page == IF IsBlank(r.work) THEN [spine |-> r.chapter, from |-> r.pend, to |-> r.pend + n]
                   ELSE [r.work EXCEPT !.to = @ + n]
<1> DEFINE s == [r EXCEPT !.work = page, !.pend = @ + n]
<1> DEFINE t == OnCanvas(s, r.target, page)
<1>1. n \in Nat /\ n <= Room(r) /\ n <= Pending(r)
  BY TakenBounds
<1>2. /\ r \in Readers /\ r.work \in Texts /\ r.work.from \in Nat /\ r.work.to \in Nat
      /\ r.pend \in Nat /\ r.fed \in Nat /\ r.seek \in Nat /\ r.chapterEnded \in BOOLEAN
      /\ r.workAnchor.parserCheckpoint \in Nat
  BY DEF Resting, Readers, Texts, Anchors
<1>3. LayOut(r) = IF n = 0 THEN r ELSE t
  BY DEF LayOut
<1>4. CASE n = 0
  <2>1. LayOut(r) = r /\ r.pend + n = r.pend /\ r.chapterEnded = FALSE
    BY <1>2, <1>3, <1>4
  <2> HIDE DEF n
  <2> QED
    BY <2>1 DEF SamePages, GoesOn, n
<1>5. CASE n # 0
  <2>1. r.seek = 0
    BY <1>1, <1>2, <1>5 DEF Pending, PlaceKnown
  <2>2. page \in Texts
    <3>1. r.chapter \in Nat /\ r.pend + n \in Nat /\ r.work.to + n \in Nat
      BY <1>1, <1>2 DEF Resting, Readers
    <3> HIDE DEF n
    <3> QED
      BY <1>2, <3>1 DEF Texts
  <2>3. /\ page.spine = r.chapter /\ page.from = r.workAnchor.parserCheckpoint
        /\ Size(page) = Size(r.work) + n
    <3>1. CASE IsBlank(r.work)
      BY <1>1, <1>2, <2>1, <3>1 DEF IsBlank, Size, WorkInPlace
    <3>2. CASE ~IsBlank(r.work)
      <4>1. page = [r.work EXCEPT !.to = @ + n]
        BY <3>2
      <4>2. page.spine = r.work.spine /\ page.from = r.work.from /\ page.to = r.work.to + n
        BY <1>2, <4>1 DEF Texts
      <4> HIDE DEF page, n
      <4> QED
        BY <1>1, <1>2, <3>2, <4>2 DEF Size, WorkInPlace
    <3> QED
      BY <3>1, <3>2
  <2>4. LayOut(r) = t
    BY <1>3, <1>5
  <2>5. r.pend + n \in Nat
    BY <1>1, <1>2
  <2> HIDE DEF page, n
  <2>6. s \in Readers
    BY <1>2, <2>2, <2>5 DEF Readers
  <2>7. /\ SamePages(r, s) /\ s.workAnchor = r.workAnchor /\ s.checkpoint = r.checkpoint
        /\ s.error = r.error /\ GoesOn(r, s) /\ s.pend = r.pend + n /\ s.work = page
        /\ s.chapterEnded = r.chapterEnded /\ s.chapter = r.chapter /\ s.offset = r.offset
        /\ s.fed = r.fed /\ s.seek = r.seek /\ s.inputReady = r.inputReady
        /\ s.layoutPending = r.layoutPending /\ s.entryOpen = r.entryOpen
        /\ s.spineIndex = r.spineIndex
    BY <1>2 DEF Readers, SamePages, GoesOn
  <2>8. Alike(s, t)
    BY <2>6, OnCanvasAlike
  <2> HIDE DEF s, t
  <2>9. PlaceKnown(t)
    BY <1>2, <2>1, <2>7, <2>8 DEF Alike, AlikeButWork, SamePlace, SameText, PlaceKnown
  <2>10. WorkInPlace(t)
    <3>1. /\ t.work = page /\ t.workAnchor = r.workAnchor /\ t.pend = r.pend + n
          /\ t.seek = r.seek /\ t.chapter = r.chapter
      BY <2>7, <2>8 DEF Alike, AlikeButWork, SamePlace, SameText
    <3>2. Size(r.work) \in Int
      BY <1>2 DEF Size
    <3> QED
      BY <1>1, <1>2, <2>1, <2>3, <3>1, <3>2 DEF WorkInPlace
  <2> QED
    BY <1>2, <2>4, <2>7, <2>8, <2>9, <2>10
       DEF Alike, AlikeButWork, SamePages, SamePlace, SameText, GoesOn, n
<1> QED
  BY <1>4, <1>5
-----------------------------------------------------------------------------
(***************************************************************************)
(* Committing a page: it follows the pages that stay, and what is laid out *)
(* next follows it.                                                        *)
(***************************************************************************)
LEMMA EvictKeepsOrNone ==
  ASSUME NEW texts \in Seq(Texts), NEW current, NEW i \in 1 .. Len(texts)
  PROVE  Evict(texts, current)[i] \in {texts[i], NoText}
<1>1. DOMAIN texts = 1 .. Len(texts)
  BY LenProperties
<1> QED
  BY <1>1 DEF Evict

LEMMA CommitPageInOrder ==
  ASSUME NEW r, Resting(r), Fits(r), PagesInOrder(r), ContinuesFrom(r, r.workAnchor),
         WorkInPlace(r), r.workAnchor.spine = r.chapter
  PROVE  /\ PagesInOrder(CommitPage(r))
         /\ ContinuesFrom(CommitPage(r), CommitPage(r).workAnchor)
         /\ CommitPage(r).workAnchor.spine = r.chapter
         /\ CommitPage(r).workAnchor.parserCheckpoint = r.pend + r.seek
         /\ SameText(r, CommitPage(r)) /\ CommitPage(r).spineIndex = r.spineIndex
         /\ CommitPage(r).chapterEnded = r.chapterEnded
         /\ CommitPage(r).entryOpen = r.entryOpen /\ CommitPage(r).error = r.error
         /\ GoesOn(r, CommitPage(r)) /\ CommitPage(r).texts # <<>>
<1> DEFINE kept == IF r.rebuilding = NoPage THEN Len(r.texts) ELSE r.rebuilding
<1> DEFINE current == IF r.rebuilding = NoPage /\ r.prefetching THEN r.current ELSE kept
<1> DEFINE all == Append(SubSeq(r.texts, 1, kept), r.work)
<1> DEFINE texts == Evict(all, current)
<1> DEFINE anchors == Append(SubSeq(r.anchors, 1, kept), r.workAnchor)
<1> DEFINE next == [r.workAnchor EXCEPT !.parserCheckpoint = @ + Size(r.work)]
<1> DEFINE s == [r EXCEPT !.texts = texts, !.anchors = anchors, !.current = current,
                          !.rebuilding = NoPage, !.workAnchor = next, !.result = "Completed"]
<1>1. /\ r \in Readers /\ r.texts \in Seq(Texts) /\ r.anchors \in Seq(Anchors)
      /\ r.rebuilding \in Nat \cup {NoPage} /\ r.work \in Texts /\ r.workAnchor \in Anchors
      /\ r.pend \in Nat /\ r.seek \in Nat
  BY DEF Resting, Readers
<1>2. /\ kept \in Nat /\ kept <= Len(r.texts) /\ kept <= Len(r.anchors) /\ Len(r.texts) \in Nat
      /\ Len(r.anchors) = Len(r.texts) /\ kept = Kept(r)
  BY <1>1, LenProperties DEF Resting, CacheInv, NoPage, Kept
<1>3. CommitPage(r) = s
  BY DEF CommitPage
<1> HIDE DEF kept, current
<1>4. /\ SubSeq(r.texts, 1, kept) \in Seq(Texts) /\ Len(SubSeq(r.texts, 1, kept)) = kept
      /\ SubSeq(r.anchors, 1, kept) \in Seq(Anchors) /\ Len(SubSeq(r.anchors, 1, kept)) = kept
      /\ \A i \in 1 .. kept : /\ SubSeq(r.texts, 1, kept)[i] = r.texts[i]
                              /\ SubSeq(r.anchors, 1, kept)[i] = r.anchors[i]
  BY <1>1, <1>2, SubSeqProperties, ElementOfSeq
<1>5. /\ all \in Seq(Texts) /\ Len(all) = kept + 1 /\ all[kept + 1] = r.work
      /\ \A i \in 1 .. kept : all[i] = r.texts[i]
  BY <1>1, <1>4, AppendProperties
<1>6. /\ anchors \in Seq(Anchors) /\ Len(anchors) = kept + 1 /\ anchors[kept + 1] = r.workAnchor
      /\ \A i \in 1 .. kept : anchors[i] = r.anchors[i]
  BY <1>1, <1>4, AppendProperties
<1> HIDE DEF all, anchors
<1>7. /\ texts \in Seq(Texts) /\ Len(texts) = kept + 1
      /\ \A i \in 1 .. kept + 1 : texts[i] \in {all[i], NoText}
  BY <1>5, EvictTyped, EvictKeepsOrNone
<1>8. /\ next.spine = r.chapter /\ next.parserCheckpoint = r.pend + r.seek
      /\ next = [spine |-> r.chapter, parserCheckpoint |-> r.pend + r.seek]
  <2>1. Size(r.work) \in Int
    BY <1>1 DEF Texts, Size
  <2> QED
    BY <1>1, <2>1 DEF Anchors, WorkInPlace
<1> HIDE DEF texts, next
<1>9. /\ s.texts = texts /\ s.anchors = anchors /\ s.rebuilding = NoPage /\ s.workAnchor = next
      /\ SameText(r, s) /\ s.spineIndex = r.spineIndex /\ s.chapterEnded = r.chapterEnded
      /\ s.entryOpen = r.entryOpen /\ s.error = r.error /\ GoesOn(r, s)
  BY <1>1 DEF Readers, SameText, GoesOn
<1> HIDE DEF s
<1>10. IsBlank(NoText)
  BY DEF IsBlank, NoText
<1>11. DOMAIN texts = 1 .. kept + 1 /\ DOMAIN r.texts = 1 .. Len(r.texts)
  BY <1>1, <1>7, LenProperties
<1>12. ~IsBlank(r.work) =>
         /\ r.work.spine = r.workAnchor.spine
         /\ r.work.from = r.workAnchor.parserCheckpoint
         /\ ContinuesAt(r.work, next)
  <2> SUFFICES ASSUME ~IsBlank(r.work) PROVE r.work.to = r.pend + r.seek /\ r.work.spine = r.chapter
                                              /\ r.work.from = r.workAnchor.parserCheckpoint
    BY <1>8 DEF ContinuesAt
  <2> QED
    BY <1>1 DEF WorkInPlace, Size, Texts, Anchors
<1>13. PagesInOrder(s)
  <2> SUFFICES ASSUME NEW i \in 1 .. kept + 1, ~IsBlank(texts[i])
               PROVE  /\ texts[i].spine = anchors[i].spine
                      /\ texts[i].from = anchors[i].parserCheckpoint
                      /\ i < kept + 1 => ContinuesAt(texts[i], anchors[i + 1])
    BY <1>7, <1>9, <1>11 DEF PagesInOrder
  <2>1. texts[i] = all[i]
    BY <1>7, <1>10
  <2>2. CASE i = kept + 1
    BY <1>2, <1>5, <1>6, <1>12, <2>1, <2>2
  <2>3. CASE i <= kept
    <3>1. i \in 1 .. kept /\ i \in DOMAIN r.texts
      BY <1>2, <1>11, <2>3
    <3>2. texts[i] = r.texts[i] /\ anchors[i] = r.anchors[i]
      BY <1>5, <1>6, <2>1, <3>1
    <3>3. /\ texts[i].spine = anchors[i].spine /\ texts[i].from = anchors[i].parserCheckpoint
          /\ i < Len(r.texts) => ContinuesAt(texts[i], r.anchors[i + 1])
      BY <3>1, <3>2 DEF PagesInOrder
    <3>4. CASE i < kept
      <4>1. i + 1 \in 1 .. kept
        BY <1>2, <3>1, <3>4
      <4> QED
        BY <1>2, <1>6, <3>1, <3>3, <3>4, <4>1
    <3>5. CASE i = kept
      <4>1. ContinuesAt(r.texts[i], r.workAnchor)
        BY <1>2, <3>1, <3>2, <3>5 DEF ContinuesFrom
      <4> QED
        BY <1>6, <3>2, <3>3, <3>5, <4>1
    <3> QED
      BY <1>2, <2>3, <3>1, <3>4, <3>5
  <2> QED
    BY <1>2, <2>2, <2>3
<1>14. ContinuesFrom(s, s.workAnchor)
  <2>1. Kept(s) = kept + 1
    BY <1>7, <1>9 DEF Kept
  <2>2. texts[kept + 1] \in {r.work, NoText}
    BY <1>2, <1>5, <1>7
  <2> QED
    BY <1>9, <1>10, <1>12, <2>1, <2>2 DEF ContinuesFrom
<1>15. texts # <<>>
  BY <1>2, <1>7, EmptySeq
<1> QED
  BY <1>3, <1>8, <1>9, <1>13, <1>14, <1>15
-----------------------------------------------------------------------------
(***************************************************************************)
(* Opening a chapter: nothing of it is read yet.                           *)
(***************************************************************************)
AtStart(s, c) ==
  /\ s.chapter = c /\ s.offset = 0 /\ s.fed = 0 /\ s.pend = 0
  /\ ~s.inputReady /\ ~s.layoutPending /\ ~s.chapterEnded /\ s.entryOpen
  /\ s.spineIndex = c + 1

Fresh(r, s, c) ==
  /\ SamePages(r, s) /\ GoesOn(r, s) /\ AtStart(s, c)
  /\ s.error = r.error /\ s.checkpoint = r.checkpoint /\ s.work = r.work
  /\ s.seek = r.seek /\ s.workAnchor = StartOf(c)

LEMMA OpenedFresh ==
  ASSUME NEW r \in Readers, NEW c \in Nat
  PROVE  Fresh(r, Opened(r, c), c)
BY DEF Opened, Readers, Fresh, SamePages, GoesOn, AtStart

LEMMA OpenAtFresh ==
  ASSUME NEW r, Resting(r), NEW c, NEW ok, OpenLinearSpineAt(r, c, ok).result # "Failed"
  PROVE  c \in Linear /\ Fresh(r, OpenLinearSpineAt(r, c, ok), c)
<1>1. c \in Linear
  BY DEF OpenLinearSpineAt, Return, Resting, Readers
<1>2. ok /\ ~r.entryOpen
  BY <1>1 DEF OpenLinearSpineAt, Resting, Readers
<1> DEFINE o == Opened(r, c)
<1>3. OpenLinearSpineAt(r, c, ok) = [o EXCEPT !.endOfBook = FALSE]
  BY <1>1, <1>2 DEF OpenLinearSpineAt
<1>4. c \in Chapters /\ c \in Nat
  BY <1>1, BookFacts
<1>5. o \in Readers /\ Fresh(r, o, c)
  BY <1>4, OpenedOpens, OpenedFresh DEF Opens, Resting
<1> HIDE DEF o
<1> QED
  BY <1>1, <1>3, <1>5 DEF Readers, Fresh, SamePages, GoesOn, AtStart

(* The next chapter is the nearest linear one ahead. *)
LEMMA OpenNextFresh ==
  ASSUME NEW r, Resting(r), NEW ok, OpenNextLinearSpine(r, ok).result # "Failed"
  PROVE  \E c \in Linear : /\ Fresh(r, OpenNextLinearSpine(r, ok), c)
                           /\ c >= r.spineIndex
                           /\ \A d \in Linear : d < r.spineIndex \/ c <= d
<1> DEFINE ahead == {c \in Linear : c >= r.spineIndex}
<1> DEFINE c == Min(ahead)
<1>0. r.spineIndex \in Nat /\ ahead \in SUBSET Nat /\ Linear \subseteq Nat
  BY BookFacts DEF Resting, Readers
<1>1. ahead # {}
  BY DEF OpenNextLinearSpine, Resting, Readers
<1>2. ok /\ ~r.entryOpen
  BY <1>1 DEF OpenNextLinearSpine, Resting, Readers
<1>3. OpenNextLinearSpine(r, ok) = Opened(r, c)
  BY <1>1, <1>2 DEF OpenNextLinearSpine
<1>4. c \in ahead /\ \A d \in ahead : c <= d
  BY <1>0, <1>1, MinIn
<1>5. c \in Linear /\ c \in Nat /\ c >= r.spineIndex
  BY <1>0, <1>4
<1>6. \A d \in Linear : d < r.spineIndex \/ c <= d
  BY <1>0, <1>4
<1>7. Fresh(r, Opened(r, c), c)
  BY <1>5, OpenedFresh DEF Resting
<1> HIDE DEF c
<1> QED
  BY <1>3, <1>5, <1>6, <1>7

(* When no linear chapter is left, the reader is where it was. *)
LEMMA NoNextGood ==
  ASSUME NEW r, Resting(r), Good(r), NEW ok, OpenNextLinearSpine(r, ok).result = "Failed"
  PROVE  Good(OpenNextLinearSpine(r, ok)) /\ GoesOn(r, OpenNextLinearSpine(r, ok))
<1> DEFINE ahead == {c \in Linear : c >= r.spineIndex}
<1> DEFINE n == Max({r.spineIndex, Spine})
<1> DEFINE c == Min(ahead)
<1> DEFINE s == [r EXCEPT !.spineIndex = n, !.endOfBook = TRUE, !.result = "Failed"]
<1> DEFINE t == [r EXCEPT !.spineIndex = c + 1, !.error = TRUE, !.result = "Failed"]
<1>1. CASE ahead = {}
  <2>1. OpenNextLinearSpine(r, ok) = s
    BY <1>1 DEF OpenNextLinearSpine
  <2>2. r.spineIndex \in Nat /\ r.chapter \in Nat /\ Linear \subseteq Nat
    BY BookFacts DEF Resting, Readers
  <2>3. n \in Nat /\ n >= r.spineIndex
    BY <2>2, BookAssumption, MaxPair
  <2>4. \A d \in Linear : d < r.spineIndex
    BY <1>1, <2>2
  <2> HIDE DEF n
  <2>5. /\ SamePages(r, s) /\ SameText(r, s) /\ GoesOn(r, s) /\ s.error = r.error
        /\ s.checkpoint = r.checkpoint /\ s.work = r.work /\ s.workAnchor = r.workAnchor
        /\ s.chapterEnded = r.chapterEnded /\ s.entryOpen = r.entryOpen /\ s.spineIndex = n
    BY DEF Resting, Readers, SamePages, SameText, GoesOn
  <2> HIDE DEF s
  <2>6. PlaceKnown(r) => PlaceKnown(s)
    BY <2>2, <2>3, <2>4, <2>5 DEF PlaceKnown, SameText
  <2> QED
    BY <2>1, <2>5, <2>6
       DEF Good, OnCourse, SamePages, SameText, GoesOn, PagesInOrder,
           ContinuesFrom, Kept, WorkInPlace
<1>2. CASE ahead # {} /\ (~ok \/ r.entryOpen)
  <2>1. OpenNextLinearSpine(r, ok) = t
    BY <1>2 DEF OpenNextLinearSpine
  <2>2. t.error = TRUE /\ GoesOn(r, t)
    BY DEF Resting, Readers, GoesOn
  <2> QED
    BY <2>1, <2>2, ErrorGood
<1>3. CASE ahead # {} /\ ok /\ ~r.entryOpen
  <2>1. OpenNextLinearSpine(r, ok) = Opened(r, c)
    BY <1>3 DEF OpenNextLinearSpine
  <2> QED
    BY <2>1 DEF Opened, Resting, Readers
<1> QED
  BY <1>1, <1>2, <1>3

(***************************************************************************)
(* A page about to be laid out from its anchor in a chapter just opened    *)
(***************************************************************************)
Anchored(t, a) ==
  /\ AtStart(t, a.spine) /\ t.workAnchor = a /\ t.seek = a.parserCheckpoint
  /\ t.work = NoText /\ ~t.prefetching

LEMMA AnchoredInPlace ==
  ASSUME NEW t, NEW a \in Anchors, a.spine \in Linear, Anchored(t, a)
  PROVE  /\ PlaceKnown(t) /\ WorkInPlace(t)
         /\ t.workAnchor.parserCheckpoint = t.pend + t.seek
<1>1. a.spine \in Nat /\ a.parserCheckpoint \in Nat /\ Linear \subseteq Nat
  BY BookFacts DEF Anchors
<1>2. IsBlank(NoText) /\ Size(NoText) = 0
  BY DEF IsBlank, Size, NoText
<1>3. PlaceKnown(t)
  BY <1>1 DEF Anchored, AtStart, PlaceKnown
<1>4. WorkInPlace(t)
  BY <1>1, <1>2 DEF Anchored, AtStart, WorkInPlace
<1> QED
  BY <1>1, <1>3, <1>4 DEF Anchored, AtStart

LEMMA SessionGood ==
  ASSUME NEW t, t.texts \in Seq(Texts), \A i \in DOMAIN t.texts : IsBlank(t.texts[i]),
         t.rebuilding = NoPage, NEW a \in Anchors, a.spine \in Linear, Anchored(t, a)
  PROVE  Good(t)
<1>1. PagesInOrder(t)
  BY DEF PagesInOrder
<1>2. Kept(t) # 0 => Kept(t) \in DOMAIN t.texts
  BY LenProperties DEF Kept
<1>3. ContinuesFrom(t, t.workAnchor)
  BY <1>2 DEF ContinuesFrom
<1> QED
  BY <1>1, <1>3, AnchoredInPlace DEF Good, OnCourse, Anchored

(* ... once it runs *)
AlikeButActive(r, s) ==
  /\ SamePages(r, s) /\ SamePlace(r, s) /\ s.work = r.work /\ s.prefetching = r.prefetching

(* start() *)
LEMMA StartGood ==
  ASSUME NEW r \in Readers, NEW ok
  PROVE  Good(Start(r, ok))
<1> DEFINE z == ResetSession(r)
<1> DEFINE o == OpenNextLinearSpine(z, ok)
<1> DEFINE p == BlankPage(o, "front")
<1> DEFINE f == [o EXCEPT !.error = TRUE]
<1> DEFINE s == [p EXCEPT !.active = TRUE]
<1>1. Start(r, ok) = IF o.result = "Failed" THEN f ELSE s
  BY DEF Start
<1>2. Resting(z) /\ Stopped(z) /\ z.texts = <<>> /\ z.rebuilding = NoPage /\ z.seek = 0
  <2>1. z.seek = 0
    BY DEF ResetSession, Cleared
  <2> QED
    BY <2>1, ResetSessionInv
<1> HIDE DEF z
<1>3. Opens(z, o)
  BY <1>2, OpenNextLinearSpineOpens
<1>4. CASE o.result = "Failed"
  <2>1. o \in Readers
    BY <1>3 DEF Opens, Resting
  <2> HIDE DEF o
  <2>2. f.error = TRUE
    BY <2>1 DEF Readers
  <2> QED
    BY <1>1, <1>4, <2>2, ErrorGood
<1>5. CASE o.result # "Failed"
  <2>1. PICK c \in Linear : Fresh(z, o, c)
    BY <1>2, <1>5, OpenNextFresh
  <2> HIDE DEF o
  <2>2. Resting(o) /\ AlikeButWork(o, p) /\ p.work = NoText /\ Resting(p)
    BY <1>3, BlankPageAlike, BlankPageInv DEF Opens, Resting
  <2> HIDE DEF p
  <2>3. s.texts \in Seq(Texts) /\ AlikeButActive(p, s)
    BY <2>2 DEF Resting, Readers, AlikeButActive, SamePages, SamePlace, SameText
  <2> HIDE DEF s
  <2>4. StartOf(c) \in Anchors /\ StartOf(c).spine = c /\ StartOf(c).parserCheckpoint = 0
    BY BookFacts DEF StartOf, Anchors
  <2>5. Anchored(s, StartOf(c))
    BY <1>2, <2>1, <2>2, <2>3, <2>4
       DEF Anchored, Fresh, AtStart, AlikeButActive, AlikeButWork, SamePlace,
           SameText, GoesOn, Stopped
  <2>6. s.texts = <<>> /\ s.rebuilding = NoPage
    BY <1>2, <2>1, <2>2, <2>3 DEF Fresh, AlikeButActive, AlikeButWork, SamePages
  <2>7. DOMAIN s.texts = {}
    BY <2>6, EmptySeq
  <2> QED
    BY <1>1, <1>5, <2>3, <2>4, <2>5, <2>6, <2>7, SessionGood
<1> QED
  BY <1>4, <1>5

(* startAt(): no page of the restored history has a text. *)
LEMMA StartAtGood ==
  ASSUME NEW r \in Readers, NEW anchor \in Anchors, NEW size \in Sizes, NEW family \in Families,
         NEW history \in Seq(Anchors), NEW ok
  PROVE  Good(StartAt(r, anchor, size, family, history, ok))
<1> DEFINE z == ResetSession(r)
<1> DEFINE q == [z EXCEPT !.size = size, !.family = family]
<1> DEFINE o == OpenLinearSpineAt(q, anchor.spine, ok)
<1> DEFINE p == BlankPage(o, "front")
<1> DEFINE t == [i \in DOMAIN history |-> NoText]
<1> DEFINE f == [o EXCEPT !.error = TRUE]
<1> DEFINE s == [p EXCEPT !.workAnchor = anchor, !.seek = anchor.parserCheckpoint,
                          !.anchors = history, !.texts = t, !.active = TRUE]
<1>1. StartAt(r, anchor, size, family, history, ok) = IF o.result = "Failed" THEN f ELSE s
  BY DEF StartAt
<1>2. Resting(q) /\ Stopped(q) /\ q.rebuilding = NoPage
  <2>1. Resting(z) /\ Stopped(z) /\ z.rebuilding = NoPage
    BY ResetSessionInv
  <2> HIDE DEF z
  <2>2. q \in Readers
    BY <2>1 DEF Resting, Readers
  <2>3. /\ q.texts = z.texts /\ q.anchors = z.anchors /\ q.current = z.current
        /\ q.rebuilding = z.rebuilding /\ q.pend = z.pend /\ q.fed = z.fed
        /\ q.offset = z.offset /\ q.chapter = z.chapter /\ q.chapterEnded = z.chapterEnded
        /\ q.active = z.active /\ q.prefetching = z.prefetching
    BY <2>1 DEF Resting, Readers
  <2> HIDE DEF q
  <2> QED
    BY <2>1, <2>2, <2>3 DEF Resting, CacheInv, TextInOrder, Stopped
<1> HIDE DEF q
<1>3. Opens(q, o)
  BY <1>2, OpenLinearSpineAtOpens
<1>4. CASE o.result = "Failed"
  <2>1. o \in Readers
    BY <1>3 DEF Opens, Resting
  <2> HIDE DEF o
  <2>2. f.error = TRUE
    BY <2>1 DEF Readers
  <2> QED
    BY <1>1, <1>4, <2>2, ErrorGood
<1>5. CASE o.result # "Failed"
  <2>1. anchor.spine \in Linear /\ Fresh(q, o, anchor.spine)
    BY <1>2, <1>5, OpenAtFresh
  <2> HIDE DEF o
  <2>2. Resting(o) /\ AlikeButWork(o, p) /\ p.work = NoText /\ Resting(p)
    BY <1>3, BlankPageAlike, BlankPageInv DEF Opens, Resting
  <2> HIDE DEF p
  <2>3. t \in Seq(Texts) /\ \A i \in DOMAIN t : IsBlank(t[i])
    <3>1. DOMAIN history = 1 .. Len(history) /\ Len(history) \in Nat
      BY LenProperties
    <3>2. t = [i \in 1 .. Len(history) |-> NoText]
      BY <3>1
    <3>3. IsBlank(NoText)
      BY DEF IsBlank, NoText
    <3> QED
      BY <3>1, <3>2, <3>3, BookFacts
  <2> HIDE DEF t
  <2>4. /\ s.texts = t /\ s.rebuilding = p.rebuilding /\ s.workAnchor = anchor
        /\ s.seek = anchor.parserCheckpoint /\ s.work = p.work /\ s.prefetching = p.prefetching
        /\ s.chapter = p.chapter /\ s.offset = p.offset /\ s.fed = p.fed /\ s.pend = p.pend
        /\ s.inputReady = p.inputReady /\ s.layoutPending = p.layoutPending
        /\ s.chapterEnded = p.chapterEnded /\ s.entryOpen = p.entryOpen
        /\ s.spineIndex = p.spineIndex
    BY <2>2 DEF Resting, Readers
  <2> HIDE DEF s
  <2>5. Anchored(s, anchor) /\ s.rebuilding = NoPage
    BY <1>2, <2>1, <2>2, <2>4
       DEF Anchored, Fresh, AtStart, AlikeButWork, SamePages, SamePlace, SameText, GoesOn, Stopped
  <2> QED
    BY <1>1, <1>5, <2>1, <2>3, <2>4, <2>5, SessionGood
<1> QED
  BY <1>4, <1>5

(* rebuildPage(): the page before the one laid out again ends at its anchor. *)
LEMMA RebuildPageGood ==
  ASSUME NEW r, AtRest(r), Good(r), NEW index \in Nat, NEW ok
  PROVE  Good(RebuildPage(r, index, ok))
<1> DEFINE anchor == r.anchors[index + 1]
<1> DEFINE entry == r.entryOpen /\ r.chapterEnded
<1> DEFINE closed == [r EXCEPT !.entryOpen = entry]
<1> DEFINE o == OpenLinearSpineAt(closed, anchor.spine, ok)
<1> DEFINE p == BlankPage(o, "front")
<1> DEFINE failed == [o EXCEPT !.error = TRUE]
<1> DEFINE s == [p EXCEPT !.rebuilding = index, !.seek = anchor.parserCheckpoint,
                          !.workAnchor = anchor, !.active = TRUE, !.result = "MoreWork"]
<1>1. /\ r \in Readers /\ r.anchors \in Seq(Anchors) /\ Len(r.anchors) = Len(r.texts)
      /\ Len(r.anchors) \in Nat /\ ~r.active /\ ~r.prefetching /\ r.texts \in Seq(Texts)
  BY DEF AtRest, Resting, CacheInv, Readers, Stopped
<1>2. CASE index >= Len(r.anchors)
  <2>1. RebuildPage(r, index, ok) = Idle(r)
    BY <1>2 DEF RebuildPage
  <2> QED
    BY <1>1, <2>1, IdleAlike, AlikeGood DEF Alike
<1>3. CASE ~(index >= Len(r.anchors))
  <2>1. RebuildPage(r, index, ok) = IF o.result = "Failed" THEN failed ELSE s
    BY <1>1, <1>3 DEF RebuildPage
  <2>2. anchor \in Anchors /\ anchor.parserCheckpoint \in Nat
    <3>1. anchor \in Anchors
      BY <1>1, <1>3, ElementOfSeq
    <3> HIDE DEF anchor
    <3> QED
      BY <3>1 DEF Anchors
  <2>3. Resting(closed) /\ SamePages(r, closed) /\ GoesOn(r, closed) /\ closed.error = r.error
    <3>1. entry \in BOOLEAN
      OBVIOUS
    <3> HIDE DEF entry
    <3>2. closed \in Readers
      BY <1>1, <3>1 DEF Readers
    <3>3. Keeps(r, closed) /\ GoesOn(r, closed) /\ SamePages(r, closed) /\ closed.error = r.error
      BY <1>1, <3>2 DEF Keeps, GoesOn, Readers, SamePages
    <3> HIDE DEF closed
    <3> QED
      BY <3>3, AtRestKeeps DEF AtRest
  <2> HIDE DEF closed
  <2>4. Opens(closed, o)
    BY <2>3, OpenLinearSpineAtOpens
  <2>5. CASE o.result = "Failed"
    <3>1. o \in Readers
      BY <2>4 DEF Opens, Resting
    <3> HIDE DEF o
    <3>2. failed.error = TRUE
      BY <3>1 DEF Readers
    <3> QED
      BY <2>1, <2>5, <3>2, ErrorGood
  <2>6. CASE o.result # "Failed"
    <3>1. anchor.spine \in Linear /\ Fresh(closed, o, anchor.spine)
      BY <2>3, <2>6, OpenAtFresh
    <3> HIDE DEF o
    <3>2. Resting(o) /\ AlikeButWork(o, p) /\ p.work = NoText /\ Resting(p)
      BY <2>4, BlankPageAlike, BlankPageInv DEF Opens, Resting
    <3> HIDE DEF p
    <3>3. /\ s.texts = p.texts /\ s.anchors = p.anchors /\ s.rebuilding = index
          /\ s.workAnchor = anchor /\ s.seek = anchor.parserCheckpoint /\ s.work = p.work
          /\ s.prefetching = p.prefetching /\ s.error = p.error /\ s.chapter = p.chapter
          /\ s.offset = p.offset /\ s.fed = p.fed /\ s.pend = p.pend
          /\ s.inputReady = p.inputReady /\ s.layoutPending = p.layoutPending
          /\ s.chapterEnded = p.chapterEnded /\ s.entryOpen = p.entryOpen
          /\ s.spineIndex = p.spineIndex /\ s.active = TRUE
      BY <3>2 DEF Resting, Readers
    <3> HIDE DEF s
    <3>4. s.texts = r.texts /\ s.anchors = r.anchors /\ s.error = r.error
      BY <2>3, <3>1, <3>2, <3>3 DEF Fresh, SamePages, AlikeButWork
    <3>5. Anchored(s, anchor)
      BY <1>1, <2>3, <3>1, <3>2, <3>3
         DEF Anchored, Fresh, AtStart, AlikeButWork, SamePlace, SameText, GoesOn
    <3>6. PlaceKnown(s) /\ WorkInPlace(s)
      BY <2>2, <3>1, <3>5, AnchoredInPlace
    <3>7. PagesInOrder(r) => PagesInOrder(s) /\ ContinuesFrom(s, s.workAnchor)
      <4> SUFFICES ASSUME PagesInOrder(r) PROVE ContinuesFrom(s, s.workAnchor)
        BY <3>4 DEF PagesInOrder
      <4> SUFFICES ASSUME index # 0, ~IsBlank(r.texts[index])
                   PROVE  ContinuesAt(r.texts[index], anchor)
        BY <3>3, <3>4 DEF ContinuesFrom, Kept, NoPage
      <4>1. index \in DOMAIN r.texts /\ index < Len(r.texts)
        BY <1>1, <1>3, LenProperties
      <4> QED
        BY <4>1 DEF PagesInOrder
    <3>8. ~s.prefetching
      BY <3>5 DEF Anchored
    <3> QED
      BY <2>1, <2>6, <3>3, <3>4, <3>6, <3>7, <3>8 DEF Good, OnCourse
  <2> QED
    BY <2>5, <2>6
<1> QED
  BY <1>2, <1>3

(* restorePrefetchCheckpoint(): the page the reader was at ends there. *)
LEMMA RestoreGood ==
  ASSUME NEW r, ReaderInv(r), Good(r), r.active, r.prefetching, NEW ok
  PROVE  Good(RestorePrefetchCheckpoint(r, ok))
<1> DEFINE prefetch == Transition(r.prefetch, "Restoring")
<1> DEFINE stopped == [r EXCEPT !.prefetch = prefetch, !.entryOpen = FALSE,
                           !.active = FALSE, !.prefetching = FALSE, !.pend = r.fed,
                           !.work = NoText, !.inputReady = FALSE, !.inputEnded = FALSE,
                           !.layoutPending = FALSE]
<1> DEFINE o == OpenLinearSpineAt(stopped, r.checkpoint.spine, ok)
<1> DEFINE failed == [o EXCEPT !.prefetch = "Failed"]
<1> DEFINE restored == [o EXCEPT !.workAnchor = r.checkpoint,
                                 !.seek = r.checkpoint.parserCheckpoint,
                                 !.prefetch = "Idle", !.result = "Idle"]
<1>1. RestorePrefetchCheckpoint(r, ok) = IF o.result = "Failed" THEN FailReader(failed)
                                         ELSE restored
  BY DEF RestorePrefetchCheckpoint
<1>2. prefetch \in PrefetchStates /\ NoText \in Texts /\ r.fed \in Nat /\ r \in Readers
  BY BookFacts DEF Transition, PrefetchStates, ReaderInv, Resting, Readers
<1> HIDE DEF prefetch
<1>3. stopped \in Readers
  <2>1. ASSUME NEW f \in Nat, NEW n \in Texts
        PROVE  [r EXCEPT !.prefetch = prefetch, !.entryOpen = FALSE,
                         !.active = FALSE, !.prefetching = FALSE, !.pend = f,
                         !.work = n, !.inputReady = FALSE, !.inputEnded = FALSE,
                         !.layoutPending = FALSE] \in Readers
    BY <1>2 DEF Readers
  <2> QED
    BY <1>2, <2>1
<1>4. /\ stopped.texts = r.texts /\ stopped.anchors = r.anchors /\ stopped.current = r.current
      /\ stopped.rebuilding = r.rebuilding /\ stopped.chapter = r.chapter
      /\ stopped.offset = r.offset /\ stopped.fed = r.fed /\ stopped.pend = r.fed
      /\ stopped.chapterEnded = r.chapterEnded /\ stopped.work = NoText
      /\ stopped.error = r.error
      /\ stopped.active = FALSE /\ stopped.prefetching = FALSE
  BY <1>2 DEF Readers
<1> HIDE DEF stopped
<1>5. Resting(stopped)
  BY <1>2, <1>3, <1>4 DEF ReaderInv, Resting, CacheInv, TextInOrder
<1>6. Opens(stopped, o)
  BY <1>5, OpenLinearSpineAtOpens
<1>7. CASE o.result = "Failed"
  <2>1. o \in Readers
    BY <1>6 DEF Opens, Resting
  <2> HIDE DEF o
  <2>2. failed \in Readers
    BY <2>1 DEF Readers, PrefetchStates
  <2> HIDE DEF failed
  <2> QED
    BY <1>1, <1>7, <2>2, FailReaderGood
<1>8. CASE o.result # "Failed"
  <2> DEFINE a == r.checkpoint
  <2>1. a \in Anchors /\ o \in Readers
    BY <1>2, <1>6 DEF Opens, Resting, Readers
  <2>2. a.spine \in Linear /\ Fresh(stopped, o, a.spine)
    BY <1>5, <1>8, OpenAtFresh
  <2> HIDE DEF o
  <2>3. /\ restored.texts = o.texts /\ restored.anchors = o.anchors
        /\ restored.rebuilding = o.rebuilding
        /\ restored.workAnchor = a /\ restored.seek = a.parserCheckpoint /\ restored.work = o.work
        /\ GoesOn(o, restored) /\ restored.error = o.error
        /\ restored.chapter = o.chapter /\ restored.offset = o.offset /\ restored.fed = o.fed
        /\ restored.pend = o.pend /\ restored.inputReady = o.inputReady
        /\ restored.layoutPending = o.layoutPending /\ restored.chapterEnded = o.chapterEnded
        /\ restored.entryOpen = o.entryOpen /\ restored.spineIndex = o.spineIndex
    BY <2>1 DEF Readers, GoesOn
  <2> HIDE DEF restored
  <2>4. Anchored(restored, a) /\ ~restored.active
    BY <1>4, <2>2, <2>3 DEF Anchored, Fresh, AtStart, GoesOn
  <2>5. /\ restored.texts = r.texts /\ restored.anchors = r.anchors
        /\ restored.rebuilding = r.rebuilding /\ restored.error = r.error
    BY <1>4, <2>2, <2>3 DEF Fresh, SamePages
  <2>6. OnCourse(r) => PagesInOrder(restored) /\ ContinuesFrom(restored, a)
    BY <2>5 DEF OnCourse, PagesInOrder, ContinuesFrom, Kept
  <2>7. PlaceKnown(restored) /\ restored.workAnchor.parserCheckpoint = restored.pend + restored.seek
    BY <2>1, <2>2, <2>4, AnchoredInPlace
  <2> QED
    BY <1>1, <1>8, <2>3, <2>4, <2>5, <2>6, <2>7 DEF Good, OnCourse
<1> QED
  BY <1>7, <1>8
-----------------------------------------------------------------------------
(***************************************************************************)
(* Reading moves the place in the chapter, and leaves the page in progress *)
(* as it is.                                                               *)
(***************************************************************************)
Reads(r, s) ==
  /\ SamePages(r, s) /\ GoesOn(r, s) /\ s.error = r.error /\ s.checkpoint = r.checkpoint
  /\ s.chapter = r.chapter /\ s.workAnchor = r.workAnchor /\ s.work = r.work
  /\ s.chapterEnded = r.chapterEnded /\ s.entryOpen = r.entryOpen /\ s.spineIndex = r.spineIndex
  /\ s.pend + s.seek = r.pend + r.seek

LEMMA ReadsGood ==
  ASSUME NEW r, NEW s, Good(r), Reads(r, s), PlaceKnown(r) => PlaceKnown(s)
  PROVE  Good(s)
BY DEF Good, OnCourse, Reads, SamePages, GoesOn, PagesInOrder, ContinuesFrom, Kept, WorkInPlace

(* readInputChunk() *)
LEMMA ReadInputChunkGood ==
  ASSUME NEW r, ReaderInv(r), Good(r), NEW ok
  PROVE  Good(ReadInputChunk(r, ok))
<1> DEFINE m == MoveTo(r, "ReadingInput")
<1> DEFINE count == Min({ChunkUnits, TextLength[r.chapter] - r.offset})
<1> DEFINE offset == m.offset + count
<1> DEFINE empty == count = 0
<1> DEFINE s == [m EXCEPT !.offset = offset, !.inputEnded = empty,
                          !.inputReady = TRUE, !.result = "MoreWork"]
<1>1. r \in Readers /\ m \in Readers /\ Alike(r, m)
  BY MoveToKeeps, MoveToAlike DEF ReaderInv, Resting, PrefetchStates, Keeps
<1>2. CASE ~r.active \/ r.inputReady \/ r.layoutPending
  <2>1. ReadInputChunk(r, ok) = Idle(r)
    BY <1>2 DEF ReadInputChunk
  <2> QED
    BY <1>1, <2>1, IdleAlike, AlikeGood DEF Alike
<1>3. CASE r.active /\ ~r.inputReady /\ ~r.layoutPending /\ (~ok \/ ~r.entryOpen)
  <2>1. ReadInputChunk(r, ok) = FailReader(m)
    BY <1>3 DEF ReadInputChunk
  <2> HIDE DEF m
  <2> QED
    BY <1>1, <2>1, FailReaderGood
<1>4. CASE r.active /\ ~r.inputReady /\ ~r.layoutPending /\ ok /\ r.entryOpen
  <2>1. ReadInputChunk(r, ok) = s
    BY <1>4 DEF ReadInputChunk
  <2> HIDE DEF offset, empty, m
  <2>2. /\ SamePages(m, s) /\ GoesOn(m, s) /\ s.error = m.error /\ s.checkpoint = m.checkpoint
        /\ s.chapter = m.chapter /\ s.workAnchor = m.workAnchor /\ s.work = m.work
        /\ s.chapterEnded = m.chapterEnded /\ s.entryOpen = m.entryOpen
        /\ s.spineIndex = m.spineIndex /\ s.pend = m.pend /\ s.seek = m.seek /\ s.fed = m.fed
        /\ s.inputReady = TRUE /\ s.layoutPending = m.layoutPending
    BY <1>1 DEF Readers, SamePages, GoesOn
  <2> HIDE DEF s
  <2>3. Reads(r, s)
    BY <1>1, <2>2
       DEF Reads, Alike, AlikeButWork, SamePages, SamePlace, SameText, GoesOn
  <2>4. PlaceKnown(r) => PlaceKnown(s)
    BY <1>1, <1>4, <2>2 DEF PlaceKnown, Alike, AlikeButWork, SamePlace, SameText
  <2> QED
    BY <2>1, <2>3, <2>4, ReadsGood
<1> QED
  BY <1>2, <1>3, <1>4

(* processBufferedInput() *)
LEMMA ProcessBufferedInputGood ==
  ASSUME NEW r, ReaderInv(r), Good(r)
  PROVE  Good(ProcessBufferedInput(r))
<1> DEFINE m == MoveTo(r, "Parsing")
<1> DEFINE skipped == Min({r.offset - r.pend, r.seek})
<1> DEFINE s == [m EXCEPT !.fed = r.offset, !.inputReady = FALSE, !.pend = @ + skipped,
                          !.seek = @ - skipped, !.result = "MoreWork"]
<1> DEFINE t == [s EXCEPT !.layoutPending = TRUE]
<1>1. r \in Readers /\ m \in Readers /\ Alike(r, m)
  BY MoveToKeeps, MoveToAlike DEF ReaderInv, Resting, PrefetchStates, Keeps
<1>2. CASE ~(r.active /\ r.inputReady)
  <2>1. ProcessBufferedInput(r) = Idle(r)
    BY <1>2 DEF ProcessBufferedInput
  <2> QED
    BY <1>1, <2>1, IdleAlike, AlikeGood DEF Alike
<1>3. CASE r.active /\ r.inputReady
  <2>1. ProcessBufferedInput(r) = IF r.seek > skipped
                                  THEN IF r.inputEnded THEN FailReader(s) ELSE s
                                  ELSE t
    BY <1>3 DEF ProcessBufferedInput
  <2>2. /\ r.offset \in Nat /\ r.pend \in Nat /\ r.seek \in Nat /\ r.fed \in Nat
        /\ r.pend <= r.fed /\ r.fed <= r.offset /\ ~r.chapterEnded
    BY <1>3 DEF ReaderInv, Resting, TextInOrder, Readers
  <2>3. /\ skipped \in Nat /\ skipped <= r.offset - r.pend /\ skipped <= r.seek
        /\ r.seek > skipped => skipped = r.offset - r.pend
    BY <2>2, MinPair
  <2>4. m.pend = r.pend /\ m.seek = r.seek
    BY <1>1 DEF Alike, AlikeButWork, SamePlace, SameText
  <2> HIDE DEF skipped, m
  <2>5. m.pend + skipped \in Nat /\ m.seek - skipped \in Nat
    BY <2>2, <2>3, <2>4
  <2>6. s \in Readers
    <3>1. ASSUME NEW p \in Nat, NEW q \in Nat, NEW f \in Nat
          PROVE  [m EXCEPT !.fed = f, !.inputReady = FALSE, !.pend = p,
                           !.seek = q, !.result = "MoreWork"] \in Readers
      BY <1>1 DEF Readers, WorkResults
    <3> QED
      BY <2>2, <2>5, <3>1
  <2>7. /\ SamePages(m, s) /\ GoesOn(m, s) /\ s.error = m.error /\ s.checkpoint = m.checkpoint
        /\ s.chapter = m.chapter /\ s.workAnchor = m.workAnchor /\ s.work = m.work
        /\ s.chapterEnded = m.chapterEnded /\ s.entryOpen = m.entryOpen
        /\ s.spineIndex = m.spineIndex /\ s.pend = m.pend + skipped /\ s.seek = m.seek - skipped
        /\ s.fed = r.offset /\ s.offset = m.offset
        /\ s.inputReady = FALSE /\ s.layoutPending = m.layoutPending
    BY <1>1 DEF Readers, SamePages, GoesOn
  <2> HIDE DEF s
  <2>8. /\ SamePages(s, t) /\ GoesOn(s, t) /\ t.error = s.error /\ t.checkpoint = s.checkpoint
        /\ t.chapter = s.chapter /\ t.workAnchor = s.workAnchor /\ t.work = s.work
        /\ t.chapterEnded = s.chapterEnded /\ t.entryOpen = s.entryOpen
        /\ t.spineIndex = s.spineIndex /\ t.pend = s.pend /\ t.seek = s.seek
        /\ t.fed = s.fed /\ t.offset = s.offset
        /\ t.inputReady = s.inputReady /\ t.layoutPending = TRUE
    BY <2>6 DEF Readers, SamePages, GoesOn
  <2> HIDE DEF t
  <2>9. Reads(r, s)
    BY <1>1, <2>2, <2>3, <2>4, <2>7
       DEF Reads, Alike, AlikeButWork, SamePages, SamePlace, SameText, GoesOn
  <2>10. Reads(r, t)
    BY <2>8, <2>9 DEF Reads, SamePages, GoesOn
  <2>11. ASSUME PlaceKnown(r), r.seek > skipped PROVE PlaceKnown(s)
    <3>1. s.pend = s.fed /\ s.fed = s.offset
      BY <1>1, <2>2, <2>3, <2>4, <2>7, <2>11 DEF Alike, AlikeButWork, SamePlace, SameText
    <3>2. s.layoutPending = r.layoutPending /\ ~r.layoutPending
      BY <1>1, <1>3, <2>7, <2>11 DEF Alike, AlikeButWork, SamePlace, SameText, PlaceKnown
    <3> QED
      BY <2>2, <2>7, <2>9, <2>11, <3>1, <3>2 DEF PlaceKnown, Reads
  <2>12. ASSUME PlaceKnown(r), ~(r.seek > skipped) PROVE PlaceKnown(t)
    <3>1. t.seek = 0 /\ t.fed = t.offset /\ ~t.inputReady
      BY <1>1, <2>2, <2>3, <2>4, <2>7, <2>8, <2>12 DEF Alike, AlikeButWork, SamePlace, SameText
    <3> QED
      BY <2>2, <2>10, <2>12, <3>1 DEF PlaceKnown, Reads
  <2>13. CASE r.seek > skipped
    BY <2>1, <2>6, <2>9, <2>11, <2>13, ReadsGood, FailReaderGood
  <2>14. CASE ~(r.seek > skipped)
    BY <2>1, <2>10, <2>12, <2>14, ReadsGood
  <2> QED
    BY <2>13, <2>14
<1> QED
  BY <1>2, <1>3
-----------------------------------------------------------------------------
(***************************************************************************)
(* The end of a page: the next one starts where it ended.                  *)
(***************************************************************************)
PageOver(q) ==
  /\ PagesInOrder(q) /\ ContinuesFrom(q, q.workAnchor)
  /\ q.workAnchor.spine = q.chapter
  /\ q.workAnchor.parserCheckpoint = q.pend + q.seek

(* Nothing of the place in the chapter but the next page's anchor moved. *)
Committed(q, c) ==
  /\ c \in Readers /\ PageOver(c) /\ SameText(q, c) /\ GoesOn(q, c)
  /\ c.spineIndex = q.spineIndex /\ c.chapterEnded = q.chapterEnded
  /\ c.entryOpen = q.entryOpen /\ c.error = q.error

LEMMA CommitInOrder ==
  ASSUME NEW q, Resting(q), Fits(q), PagesInOrder(q), ContinuesFrom(q, q.workAnchor),
         WorkInPlace(q), q.workAnchor.spine = q.chapter
  PROVE  IF Commit(q).result = "Failed" THEN Commit(q).error = TRUE ELSE Committed(q, Commit(q))
<1>1. CASE CommitRefused(q)
  <2>1. Commit(q) = FailReader(q)
    BY <1>1 DEF Commit
  <2>2. FailReader(q).error = TRUE /\ FailReader(q).result = "Failed"
    BY FailReaderGood, FailReaderKeeps DEF Resting
  <2> QED
    BY <2>1, <2>2
<1>2. CASE ~CommitRefused(q)
  <2> DEFINE c == CommitPage(q)
  <2>1. Commit(q) = c
    BY <1>2 DEF Commit
  <2>2. c \in Readers /\ c.result = "Completed"
    BY CommitPageResting DEF Resting
  <2>3. /\ PagesInOrder(c) /\ ContinuesFrom(c, c.workAnchor) /\ c.workAnchor.spine = q.chapter
        /\ c.workAnchor.parserCheckpoint = q.pend + q.seek /\ SameText(q, c)
        /\ c.spineIndex = q.spineIndex /\ c.chapterEnded = q.chapterEnded
        /\ c.entryOpen = q.entryOpen /\ c.error = q.error /\ GoesOn(q, c)
    BY CommitPageInOrder
  <2> HIDE DEF c
  <2> QED
    BY <2>1, <2>2, <2>3 DEF Committed, PageOver, SameText
<1> QED
  BY <1>1, <1>2

LEMMA PageOverGood ==
  ASSUME NEW q, PageOver(q), PlaceKnown(q), ~q.active
  PROVE  Good(q)
BY DEF Good, OnCourse, PageOver

LEMMA FinishGood ==
  ASSUME NEW q \in Readers, PageOver(q), PlaceKnown(q)
  PROVE  Good(Finish(q))
<1> DEFINE m == MoveTo(q, "Ready")
<1> DEFINE s == [m EXCEPT !.active = FALSE, !.prefetching = FALSE, !.result = "Completed"]
<1>1. Finish(q) = s
  BY DEF Finish
<1>2. m \in Readers /\ Alike(q, m)
  BY MoveToKeeps, MoveToAlike DEF PrefetchStates, Keeps
<1> HIDE DEF m
<1>3. SamePages(m, s) /\ SamePlace(m, s) /\ ~s.active
  BY <1>2 DEF Readers, SamePages, SamePlace, SameText
<1> HIDE DEF s
<1>4. SamePages(q, s) /\ SamePlace(q, s)
  BY <1>2, <1>3 DEF Alike, AlikeButWork, SamePages, SamePlace, SameText
<1>5. PageOver(s) /\ PlaceKnown(s)
  BY <1>4 DEF PageOver, PlaceKnown, SamePages, SamePlace, SameText,
     PagesInOrder, ContinuesFrom, Kept
<1> QED
  BY <1>1, <1>3, <1>5, PageOverGood

LEMMA CommittedPlace ==
  ASSUME NEW q, NEW c, Committed(q, c), PlaceKnown(q)
  PROVE  PlaceKnown(c)
BY DEF Committed, PageOver, PlaceKnown, SameText

(* An error is remembered until the next session. *)
LEMMA ErrorStays ==
  ASSUME NEW q \in Readers, q.error = TRUE
  PROVE  /\ Commit(q).error = TRUE /\ Finish(q).error = TRUE /\ FailReader(q).error = TRUE
         /\ \A w : Return(q, w).error = TRUE
         /\ \A p : MoveTo(q, p) \in Readers => Return(MoveTo(q, p), "MoreWork").error = TRUE
<1>1. FailReader(q).error = TRUE
  BY FailReaderGood
<1>2. Commit(q).error = TRUE
  BY <1>1 DEF Commit, CommitPage, Readers
<1>3. \A p : MoveTo(q, p).error = TRUE
  BY DEF MoveTo, Readers
<1>4. MoveTo(q, "Ready") \in Readers
  BY MoveToKeeps DEF PrefetchStates, Keeps
<1>5. Finish(q).error = TRUE
  BY <1>3, <1>4 DEF Finish, Readers
<1>6. \A w : Return(q, w).error = TRUE
  BY DEF Return, Readers
<1>7. \A t : t \in Readers /\ t.error = TRUE => Return(t, "MoreWork").error = TRUE
  BY DEF Return, Readers
<1> QED
  BY <1>1, <1>2, <1>3, <1>5, <1>6, <1>7

LEMMA LayOutError ==
  ASSUME NEW q \in Readers
  PROVE  LayOut(q).error = q.error
BY DEF LayOut, OnCanvas, Readers

(* The page laid out so far, before it is known how it goes on *)
Onward(r, s) ==
  /\ SamePages(r, s) /\ s.workAnchor = r.workAnchor /\ s.work = r.work /\ s.error = r.error
  /\ s.chapter = r.chapter /\ s.offset = r.offset /\ s.fed = r.fed /\ s.pend = r.pend
  /\ s.seek = r.seek /\ s.inputReady = r.inputReady /\ s.spineIndex = r.spineIndex
  /\ s.layoutPending = FALSE /\ s.checkpoint = r.checkpoint /\ GoesOn(r, s)

LEMMA OnwardInOrder ==
  ASSUME NEW r, NEW s, Onward(r, s), PagesInOrder(r), ContinuesFrom(r, r.workAnchor),
         WorkInPlace(r)
  PROVE  PagesInOrder(s) /\ ContinuesFrom(s, s.workAnchor) /\ WorkInPlace(s)
BY DEF Onward, SamePages, PagesInOrder, ContinuesFrom, Kept, WorkInPlace

(* continueLayout(): a page that is full, or the last of its chapter, is   *)
(* committed where the chapter is then read on.                            *)
LEMMA ContinueLayoutGood ==
  ASSUME NEW r, ReaderInv(r), Good(r), NEW ok
  PROVE  Good(ContinueLayout(r, ok))
<1>0. r \in Readers
  BY DEF ReaderInv, Resting
<1>1. CASE ~(r.active /\ r.layoutPending)
  <2>1. ContinueLayout(r, ok) = Idle(r)
    BY <1>1 DEF ContinueLayout
  <2> QED
    BY <1>0, <2>1, IdleAlike, AlikeGood DEF Alike
<1>2. CASE r.active /\ r.layoutPending
  <2> DEFINE m == MoveTo(r, "LayingOut")
  <2> DEFINE l == LayOut(m)
  <2> DEFINE laid == [l EXCEPT !.layoutPending = FALSE]
  <2> DEFINE read == [laid EXCEPT !.inputEnded = FALSE]
  <2> DEFINE ended == [laid EXCEPT !.inputEnded = FALSE, !.chapterEnded = TRUE]
  <2> DEFINE last == IF IsBlank(ended.work) /\ ended.texts # <<>> THEN Return(ended, "Completed")
                     ELSE Commit(ended)
  <2> DEFINE full == Commit(read)
  <2> DEFINE closed == [last EXCEPT !.entryOpen = FALSE]
  <2> DEFINE n == MoveTo(laid, "ReadingInput")
  <2> DEFINE more == Return(n, "MoreWork")
  <2>1. ContinueLayout(r, ok) =
          IF PageFull(r) THEN (IF full.result = "Failed" THEN full ELSE Finish(full))
          ELSE IF r.inputEnded
               THEN (IF last.result = "Failed" THEN last
                     ELSE IF ~ok \/ r.offset # TextLength[r.chapter] THEN FailReader(last)
                     ELSE Finish(closed))
               ELSE more
    BY <1>2 DEF ContinueLayout
  <2>2. /\ Resting(m) /\ Fits(m) /\ m.active /\ ~m.chapterEnded /\ m.layoutPending = TRUE
        /\ Alike(r, m) /\ Keeps(r, m)
    <3>1. Resting(r) /\ Fits(r) /\ ~r.chapterEnded /\ r.layoutPending = TRUE
      BY <1>0, <1>2 DEF ReaderInv, Readers
    <3>2. Keeps(r, m) /\ Alike(r, m) /\ GoesOn(r, m)
      BY <1>0, MoveToKeeps, MoveToAlike DEF PrefetchStates
    <3> HIDE DEF m
    <3> QED
      BY <1>2, <3>1, <3>2, KeepsResting
         DEF Keeps, GoesOn, Alike, AlikeButWork, SamePlace, SameText
  <2>3. Good(m) /\ m \in Readers /\ m.error = r.error
    <3> HIDE DEF m
    <3> QED
      BY <2>2, AlikeGood DEF Alike, AlikeButWork, Resting
  <2> HIDE DEF m
  <2>4. Resting(l) /\ Fits(l) /\ l \in Readers /\ l.error = r.error /\ ~l.chapterEnded
    BY <2>2, <2>3, LayOutExtends, LayOutError DEF Extends, Resting
  <2> HIDE DEF l
  <2>5. /\ laid \in Readers /\ Onward(l, laid) /\ Resting(laid) /\ Fits(laid)
        /\ laid.chapterEnded = l.chapterEnded /\ laid.entryOpen = l.entryOpen
    <3>1. laid \in Readers
      BY <2>4 DEF Readers
    <3>2. Keeps(l, laid)
      BY <2>4, <3>1 DEF Keeps, Readers
    <3>3. Onward(l, laid) /\ laid.chapterEnded = l.chapterEnded /\ laid.entryOpen = l.entryOpen
      BY <2>4 DEF Onward, Readers, SamePages, GoesOn
    <3> HIDE DEF laid
    <3> QED
      BY <2>4, <3>1, <3>2, <3>3, KeepsResting
  <2> HIDE DEF laid
  <2>6. /\ read \in Readers /\ Onward(l, read) /\ Resting(read) /\ Fits(read)
        /\ read.chapterEnded = l.chapterEnded /\ read.entryOpen = l.entryOpen
    <3>1. read \in Readers
      BY <2>5 DEF Readers
    <3>2. Keeps(laid, read)
      BY <2>5, <3>1 DEF Keeps, Readers
    <3>3. /\ Onward(laid, read) /\ read.chapterEnded = laid.chapterEnded
          /\ read.entryOpen = laid.entryOpen
      BY <2>5 DEF Onward, Readers, SamePages, GoesOn
    <3> HIDE DEF read
    <3> QED
      BY <2>5, <3>1, <3>2, <3>3, KeepsResting DEF Onward, SamePages, GoesOn
  <2>7. /\ ended \in Readers /\ Onward(l, ended) /\ Resting(ended) /\ Fits(ended)
        /\ ended.chapterEnded = TRUE
    <3>1. ended \in Readers
      BY <2>5 DEF Readers
    <3>2. /\ Onward(laid, ended) /\ ended.chapterEnded = TRUE /\ ended.current = laid.current
          /\ ended.size = laid.size /\ ended.family = laid.family
      BY <2>5 DEF Onward, Readers, SamePages, GoesOn
    <3> HIDE DEF ended
    <3> QED
      BY <2>5, <3>1, <3>2
         DEF Onward, SamePages, GoesOn, Resting, CacheInv, TextInOrder, Fits, Size
  <2> HIDE DEF read, ended
  <2>8. full \in Readers
    BY <2>6, CommitCommits DEF Commits, Resting
  <2>9. last \in Readers
    <3>1. Commit(ended) \in Readers
      BY <2>7, CommitCommits DEF Commits, Resting
    <3>2. Return(ended, "Completed") \in Readers
      BY <2>7, ReturnKeeps DEF Keeps, WorkResults
    <3> QED
      BY <3>1, <3>2
  <2>10. n \in Readers /\ Alike(laid, n)
    BY <2>5, MoveToKeeps, MoveToAlike DEF PrefetchStates, Keeps
  <2>11. CASE r.error
    <3>1. /\ laid.error = TRUE /\ read.error = TRUE /\ ended.error = TRUE
      BY <1>0, <2>4, <2>5, <2>6, <2>7, <2>11 DEF Onward, Readers
    <3>2. full.error = TRUE /\ last.error = TRUE /\ more.error = TRUE
      BY <2>5, <2>6, <2>7, <2>10, <3>1, ErrorStays
    <3> HIDE DEF full, last, more
    <3>3. closed \in Readers /\ closed.error = TRUE
      BY <2>9, <3>2 DEF Readers
    <3> HIDE DEF closed
    <3>4. /\ Finish(full).error = TRUE /\ FailReader(last).error = TRUE
          /\ Finish(closed).error = TRUE
      BY <2>8, <2>9, <3>2, <3>3, ErrorStays
    <3>5. ContinueLayout(r, ok) \in {full, Finish(full), last, FailReader(last),
                                      Finish(closed), more}
      BY <2>1
    <3>6. ContinueLayout(r, ok).error = TRUE
      BY <3>2, <3>4, <3>5
    <3> QED
      BY <3>6, ErrorGood
  <2>12. CASE ~r.error
    <3>1. /\ PagesInOrder(m) /\ ContinuesFrom(m, m.workAnchor) /\ PlaceKnown(m) /\ WorkInPlace(m)
          /\ m.prefetching => ContinuesFrom(m, m.checkpoint)
      BY <2>2, <2>3, <2>12 DEF Good, OnCourse
    <3>2. m.seek = 0 /\ ~m.inputReady /\ m.fed = m.offset
      BY <2>2, <3>1 DEF PlaceKnown
    <3>3. /\ SamePages(m, l) /\ PlaceKnown(l) /\ WorkInPlace(l)
          /\ l.workAnchor = m.workAnchor /\ l.checkpoint = m.checkpoint /\ GoesOn(m, l)
          /\ l.pend = m.pend + Taken(m) /\ l.chapter = m.chapter /\ l.offset = m.offset
          /\ l.fed = m.fed /\ l.seek = m.seek /\ l.inputReady = m.inputReady
      BY <2>2, <3>1, LayOutInPlace DEF l
    <3>4. /\ PagesInOrder(l) /\ ContinuesFrom(l, l.workAnchor)
          /\ l.prefetching => ContinuesFrom(l, l.checkpoint)
      BY <3>1, <3>3 DEF SamePages, PagesInOrder, ContinuesFrom, Kept, GoesOn
    <3>5. CASE PageFull(r)
      <4>1. PagesInOrder(read) /\ ContinuesFrom(read, read.workAnchor) /\ WorkInPlace(read)
        BY <2>6, <3>3, <3>4, OnwardInOrder
      <4>2. PlaceKnown(read) /\ read.workAnchor.spine = read.chapter
        BY <2>6, <3>3 DEF PlaceKnown, Onward
      <4>3. IF full.result = "Failed" THEN full.error = TRUE ELSE Committed(read, full)
        BY <2>6, <4>1, <4>2, CommitInOrder
      <4> HIDE DEF full
      <4>4. CASE full.result = "Failed"
        BY <2>1, <3>5, <4>3, <4>4, ErrorGood
      <4>5. CASE full.result # "Failed"
        <5>1. PlaceKnown(full) /\ PageOver(full)
          BY <4>2, <4>3, <4>5, CommittedPlace DEF Committed
        <5>2. Good(Finish(full))
          BY <2>8, <5>1, FinishGood
        <5> QED
          BY <2>1, <3>5, <4>5, <5>2
      <4> QED
        BY <4>4, <4>5
    <3>6. CASE ~PageFull(r) /\ ~r.inputEnded
      <4>1. ContinueLayout(r, ok) = more
        BY <2>1, <3>6
      <4>2. OnCourse(laid)
        <5>1. PagesInOrder(laid) /\ ContinuesFrom(laid, laid.workAnchor) /\ WorkInPlace(laid)
          BY <2>5, <3>3, <3>4, OnwardInOrder
        <5>2. PlaceKnown(laid)
          BY <2>5, <3>3 DEF PlaceKnown, Onward
        <5>3. laid.prefetching => ContinuesFrom(laid, laid.checkpoint)
          BY <2>5, <3>4 DEF Onward, SamePages, GoesOn, ContinuesFrom, Kept
        <5>4. laid.active
          BY <2>2, <2>5, <3>3 DEF Onward, GoesOn
        <5> QED
          BY <5>1, <5>2, <5>3, <5>4 DEF OnCourse
      <4>3. Good(n)
        BY <2>10, <4>2, AlikeGood DEF Good, Alike
      <4>4. Alike(n, more)
        BY <2>10, ReturnAlike
      <4> HIDE DEF n, more
      <4> QED
        BY <4>1, <4>3, <4>4, AlikeGood DEF Alike
    <3>7. CASE ~PageFull(r) /\ r.inputEnded
      <4>1. l.pend = l.fed
        <5>1. Pending(m) <= Room(m) /\ Room(m) \in Int /\ Pending(m) \in Int
          <6>1. Pending(m) = Pending(r) /\ Room(m) = Room(r)
            BY <2>2 DEF Keeps, Alike, AlikeButWork, SamePlace, SameText, Pending, Room
          <6>2. Room(r) \in Int /\ Pending(r) \in Int
            <7>1. Lines[r.size][r.family] \in Nat
              BY <1>0, BookFacts DEF Readers
            <7>2. r.work.from \in Nat /\ r.work.to \in Nat /\ r.fed \in Nat /\ r.pend \in Nat
              BY <1>0 DEF Readers, Texts
            <7> QED
              BY <7>1, <7>2 DEF Room, Pending, Size
          <6> QED
            BY <3>7, <6>1, <6>2 DEF PageFull
        <5>2. Taken(m) = Pending(m)
          BY <5>1, MinPair DEF Taken
        <5>3. m.pend \in Nat /\ m.fed \in Nat
          BY <2>3 DEF Readers
        <5> QED
          BY <3>3, <5>2, <5>3 DEF Pending
      <4>2. /\ ended.seek = 0 /\ ~ended.inputReady /\ ended.fed = ended.offset
            /\ ended.pend = ended.fed /\ ended.workAnchor.spine = ended.chapter
            /\ ended.chapter < ended.spineIndex /\ ended.chapter = r.chapter
            /\ ended.offset = r.offset /\ ended.layoutPending = FALSE
            /\ \A c \in Linear : c <= ended.chapter \/ ended.spineIndex <= c
        <5>1. r.chapter = m.chapter /\ r.offset = m.offset
          BY <2>2 DEF Keeps
        <5> QED
          BY <2>7, <3>2, <3>3, <4>1, <5>1 DEF PlaceKnown, Onward
      <4>3. PagesInOrder(ended) /\ ContinuesFrom(ended, ended.workAnchor) /\ WorkInPlace(ended)
        BY <2>7, <3>3, <3>4, OnwardInOrder
      <4>4. IF last.result = "Failed" THEN last.error = TRUE
            ELSE /\ PageOver(last) /\ SameText(ended, last) /\ last.spineIndex = ended.spineIndex
                 /\ last.chapterEnded = TRUE
        <5>1. CASE IsBlank(ended.work) /\ ended.texts # <<>>
          <6>1. last = Return(ended, "Completed")
            BY <5>1
          <6>2. Alike(ended, last)
            BY <2>7, <6>1, ReturnAlike
          <6>3. last.result = "Completed"
            BY <2>7, <6>1, ReturnKeeps DEF WorkResults
          <6> HIDE DEF last
          <6>4. ended.workAnchor.parserCheckpoint = ended.pend + ended.seek
            <7>1. /\ ended.work.from \in Nat /\ ended.work.to \in Nat
                  /\ ended.workAnchor.parserCheckpoint \in Nat
              BY <2>7 DEF Readers, Texts, Anchors
            <7> QED
              BY <4>3, <5>1, <7>1 DEF WorkInPlace, IsBlank, Size
          <6>5. PageOver(last)
            BY <4>2, <4>3, <6>2, <6>4
               DEF Alike, AlikeButWork, SamePages, SamePlace, SameText, PageOver, PagesInOrder,
                   ContinuesFrom, Kept
          <6> QED
            BY <2>7, <6>2, <6>3, <6>5 DEF Alike, AlikeButWork, SamePlace
        <5>2. CASE ~(IsBlank(ended.work) /\ ended.texts # <<>>)
          <6>1. last = Commit(ended)
            BY <5>2
          <6>2. IF Commit(ended).result = "Failed" THEN Commit(ended).error = TRUE
                ELSE Committed(ended, Commit(ended))
            BY <2>7, <4>2, <4>3, CommitInOrder
          <6> HIDE DEF last
          <6> QED
            BY <2>7, <6>1, <6>2 DEF Committed
        <5> QED
          BY <5>1, <5>2
      <4> HIDE DEF last
      <4>5. CASE last.result = "Failed"
        BY <2>1, <3>7, <4>4, <4>5, ErrorGood
      <4>6. CASE last.result # "Failed" /\ (~ok \/ r.offset # TextLength[r.chapter])
        BY <2>1, <2>9, <3>7, <4>6, FailReaderGood
      <4>7. CASE last.result # "Failed" /\ ok /\ r.offset = TextLength[r.chapter]
        <5>1. /\ closed \in Readers /\ SamePages(last, closed) /\ SameText(last, closed)
              /\ closed.workAnchor = last.workAnchor /\ closed.spineIndex = last.spineIndex
              /\ closed.chapterEnded = last.chapterEnded
          BY <2>9 DEF Readers, SamePages, SameText
        <5> HIDE DEF closed
        <5>2. PageOver(closed)
          BY <4>4, <4>7, <5>1
             DEF PageOver, SamePages, SameText, PagesInOrder, ContinuesFrom, Kept
        <5>3. PlaceKnown(closed)
          BY <4>2, <4>4, <4>7, <5>1, <5>2 DEF PlaceKnown, PageOver, SameText
        <5>4. ContinueLayout(r, ok) = Finish(closed)
          BY <2>1, <3>7, <4>7
        <5> QED
          BY <5>1, <5>2, <5>3, <5>4, FinishGood
      <4> QED
        BY <4>5, <4>6, <4>7
    <3> QED
      BY <3>5, <3>6, <3>7
  <2> QED
    BY <2>11, <2>12
<1> QED
  BY <1>1, <1>2

(* processNextChunk() *)
LEMMA ProcessNextChunkGood ==
  ASSUME NEW r, ReaderInv(r), Good(r), NEW ok
  PROVE  Good(ProcessNextChunk(r, ok))
<1>0. r \in Readers
  BY DEF ReaderInv, Resting
<1>1. CASE r.prefetching /\ r.prefetch = "CancelRequested"
  <2>1. ProcessNextChunk(r, ok) = RestorePrefetchCheckpoint(r, ok) /\ r.active
    BY <1>1 DEF ProcessNextChunk, ReaderInv
  <2> QED
    BY <1>1, <2>1, RestoreGood
<1>2. CASE ~(r.prefetching /\ r.prefetch = "CancelRequested") /\ ~r.active
  <2> DEFINE w == IF r.error THEN "Failed" ELSE "Idle"
  <2>1. ProcessNextChunk(r, ok) = Return(r, w)
    BY <1>2 DEF ProcessNextChunk
  <2> QED
    BY <1>0, <2>1, ReturnAlike, AlikeGood DEF Alike
<1>3. CASE ~(r.prefetching /\ r.prefetch = "CancelRequested") /\ r.active
  <2>1. ProcessNextChunk(r, ok) \in {ProcessBufferedInput(r), ContinueLayout(r, ok),
                                     ReadInputChunk(r, ok)}
    BY <1>3 DEF ProcessNextChunk
  <2> QED
    BY <2>1, ProcessBufferedInputGood, ContinueLayoutGood, ReadInputChunkGood
<1> QED
  BY <1>1, <1>2, <1>3

(* processCpuOnlyWork() *)
LEMMA ProcessCpuOnlyWorkGood ==
  ASSUME NEW r, ReaderInv(r), Good(r)
  PROVE  Good(ProcessCpuOnlyWork(r))
<1>1. PICK s : ProcessCpuOnlyWork(r) = Idle(s) /\ s \in Readers /\ Good(s)
  BY ProcessBufferedInputGood, ContinueLayoutGood, ProcessBufferedInputSteps, ContinueLayoutSteps
     DEF ProcessCpuOnlyWork, Steps, ReaderInv, Resting
<1> QED
  BY <1>1, IdleAlike, AlikeGood DEF Alike
-----------------------------------------------------------------------------
(***************************************************************************)
(* Page requests.  When the chapter has ended, the next page starts in the *)
(* next linear one: nothing but chapters without text lies between.        *)
(***************************************************************************)
LEMMA NextChapterContinues ==
  ASSUME NEW r, Resting(r), PlaceKnown(r), r.chapterEnded, ContinuesFrom(r, r.workAnchor),
         r.workAnchor.parserCheckpoint = r.pend + r.seek,
         NEW c \in Linear, c >= r.spineIndex, \A d \in Linear : d < r.spineIndex \/ c <= d
  PROVE  ContinuesFrom(r, StartOf(c))
<1> SUFFICES ASSUME Kept(r) # 0, ~IsBlank(r.texts[Kept(r)])
             PROVE  ContinuesAt(r.texts[Kept(r)], StartOf(c))
  BY DEF ContinuesFrom
<1> DEFINE t == r.texts[Kept(r)]
<1>1. /\ r.chapter \in Nat /\ r.spineIndex \in Nat /\ Linear \subseteq Nat /\ c \in Nat
      /\ r.seek = 0 /\ r.workAnchor \in Anchors
  BY BookFacts DEF Resting, Readers, PlaceKnown
<1>2. /\ r.workAnchor.spine = r.chapter /\ r.workAnchor.parserCheckpoint = TextLength[r.chapter]
      /\ r.chapter < r.spineIndex
  <2>1. r.pend \in Nat
    BY DEF Resting, Readers
  <2> QED
    BY <1>1, <2>1 DEF PlaceKnown
<1>3. \A d \in Linear : r.chapter < d => c <= d
  BY <1>1 DEF PlaceKnown
<1>4. ContinuesAt(t, r.workAnchor)
  BY DEF ContinuesFrom
<1>5. StartOf(c).spine = c /\ c > r.chapter
  BY <1>1, <1>2 DEF StartOf
<1>6. r.texts \in Seq(Texts) /\ Kept(r) \in 1 .. Len(r.texts)
  BY LenProperties DEF Resting, CacheInv, Readers, Kept, NoPage
<1>7. t \in Texts
  BY <1>6, ElementOfSeq
<1> HIDE DEF t
<1>8. t.spine \in Nat /\ t.to \in Nat
  BY <1>7 DEF Texts
<1>9. CASE r.workAnchor = [spine |-> t.spine, parserCheckpoint |-> t.to]
  <2>1. t.spine = r.chapter /\ t.to = TextLength[r.chapter]
    BY <1>2, <1>9
  <2>2. \A d \in Linear : ~(t.spine < d /\ d < c)
    BY <1>1, <1>3, <2>1
  <2> QED
    BY <1>5, <2>1, <2>2 DEF ContinuesAt, t
<1>10. CASE /\ t.to = TextLength[t.spine]
            /\ r.workAnchor.spine \in Linear /\ r.workAnchor.spine > t.spine
            /\ r.workAnchor = StartOf(r.workAnchor.spine)
            /\ \A d \in Linear : t.spine < d /\ d < r.workAnchor.spine => TextLength[d] = 0
  <2>1. TextLength[r.chapter] = 0
    BY <1>2, <1>10 DEF StartOf
  <2>2. ASSUME NEW d \in Linear, t.spine < d, d < c PROVE TextLength[d] = 0
    <3>1. d \in Nat /\ c \in Nat /\ r.chapter \in Nat
      BY <1>1
    <3>2. ~(c <= d)
      BY <2>2, <3>1
    <3>3. ~(r.chapter < d)
      BY <1>3, <3>2
    <3>4. d = r.chapter \/ d < r.workAnchor.spine
      BY <1>2, <3>1, <3>3
    <3> QED
      BY <1>10, <2>1, <2>2, <3>4
  <2>3. c > t.spine
    BY <1>1, <1>2, <1>5, <1>8, <1>10
  <2> QED
    BY <1>5, <1>10, <2>2, <2>3 DEF ContinuesAt, t
<1> QED
  BY <1>4, <1>9, <1>10 DEF ContinuesAt

(* prepareUncachedPage() *)
LEMMA PrepareGood ==
  ASSUME NEW r, Resting(r), ~r.active, Good(r),
         ~r.error /\ r.prefetching => ContinuesFrom(r, r.checkpoint),
         NEW canvas \in {"front", "back"}, NEW ok
  PROVE  Good(PrepareUncachedPage(r, canvas, ok))
<1> DEFINE o == IF r.chapterEnded THEN OpenNextLinearSpine(r, ok) ELSE Return(r, "Completed")
<1> DEFINE p == BlankPage(o, canvas)
<1> DEFINE laid == LayOut(p)
<1> DEFINE w == IF o.error THEN "Failed" ELSE "Idle"
<1> DEFINE started == [laid EXCEPT !.active = TRUE, !.result = "MoreWork"]
<1> DEFINE s == PrepareUncachedPage(r, canvas, ok)
<1>1. r \in Readers /\ ValidCache(r)
  BY RestingValid DEF Resting
<1>2. \/ s = Idle(r)
      \/ o.result = "Failed" /\ s = Return(o, w)
      \/ o.result # "Failed" /\ s = Commit(laid)
      \/ o.result # "Failed" /\ s = started
  BY <1>1 DEF PrepareUncachedPage
<1> HIDE DEF s
<1>3. CASE s = Idle(r)
  BY <1>1, <1>3, IdleAlike, AlikeGood DEF Alike, s
<1>4. Resting(o) /\ (o.result # "Failed" => ~o.chapterEnded)
  <2>1. CASE r.chapterEnded
    BY <2>1, OpenNextLinearSpineOpens DEF Opens
  <2>2. CASE ~r.chapterEnded
    <3>1. o = Return(r, "Completed")
      BY <2>2
    <3>2. Keeps(r, o)
      BY <1>1, <3>1, ReturnKeeps DEF WorkResults
    <3> HIDE DEF o
    <3> QED
      BY <2>2, <3>2, KeepsResting DEF Keeps
  <2> QED
    BY <2>1, <2>2
<1>5. CASE o.result = "Failed" /\ s = Return(o, w)
  <2>1. Good(o)
    <3>1. CASE r.chapterEnded
      BY <1>5, <3>1, NoNextGood
    <3>2. CASE ~r.chapterEnded
      BY <1>1, <3>2, ReturnAlike, AlikeGood DEF Alike
    <3> QED
      BY <3>1, <3>2
  <2> HIDE DEF o
  <2> QED
    BY <1>4, <1>5, <2>1, ReturnAlike, AlikeGood DEF Alike, Resting, s
<1>6. ASSUME o.result # "Failed"
      PROVE  /\ ~o.error => /\ PagesInOrder(o) /\ ContinuesFrom(o, o.workAnchor) /\ PlaceKnown(o)
                            /\ o.workAnchor.parserCheckpoint = o.pend + o.seek
                            /\ o.prefetching => ContinuesFrom(o, o.checkpoint)
             /\ ~o.active
  <2>1. CASE r.chapterEnded
    <3>1. o = OpenNextLinearSpine(r, ok)
      BY <2>1
    <3>2. PICK c \in Linear : /\ Fresh(r, o, c) /\ c >= r.spineIndex
                              /\ \A d \in Linear : d < r.spineIndex \/ c <= d
      BY <1>6, <3>1, OpenNextFresh
    <3> HIDE DEF o
    <3>3. ~o.active /\ o.error = r.error
      BY <3>2 DEF Fresh, GoesOn
    <3>4. ASSUME ~o.error
          PROVE  /\ PagesInOrder(o) /\ ContinuesFrom(o, o.workAnchor) /\ PlaceKnown(o)
                 /\ o.workAnchor.parserCheckpoint = o.pend + o.seek
                 /\ o.prefetching => ContinuesFrom(o, o.checkpoint)
      <4>1. OnCourse(r)
        BY <3>3, <3>4 DEF Good
      <4>2. ContinuesFrom(r, StartOf(c))
        BY <2>1, <3>2, <4>1, NextChapterContinues DEF OnCourse
      <4>3. r.seek = 0 /\ c \in Nat /\ Linear \subseteq Nat
        BY <2>1, <4>1, BookFacts DEF OnCourse, PlaceKnown
      <4>4. PlaceKnown(o) /\ o.workAnchor.parserCheckpoint = o.pend + o.seek
        BY <3>2, <4>3 DEF Fresh, AtStart, PlaceKnown, StartOf
      <4>5. PagesInOrder(o) /\ ContinuesFrom(o, o.workAnchor)
        BY <3>2, <4>1, <4>2 DEF Fresh, SamePages, OnCourse, PagesInOrder, ContinuesFrom, Kept
      <4>6. o.prefetching => ContinuesFrom(o, o.checkpoint)
        BY <3>2, <3>3, <3>4 DEF Fresh, SamePages, GoesOn, ContinuesFrom, Kept
      <4> QED
        BY <4>4, <4>5, <4>6
    <3> QED
      BY <3>3, <3>4
  <2>2. CASE ~r.chapterEnded
    <3>1. o = Return(r, "Completed")
      BY <2>2
    <3>2. Alike(r, o)
      BY <1>1, <3>1, ReturnAlike
    <3> HIDE DEF o
    <3>3. ~o.active /\ o.error = r.error /\ Good(o)
      BY <3>2, AlikeGood DEF Alike, AlikeButWork, GoesOn
    <3>4. ~o.error /\ o.prefetching => ContinuesFrom(o, o.checkpoint)
      BY <3>2 DEF Alike, AlikeButWork, SamePages, GoesOn, ContinuesFrom, Kept
    <3> QED
      BY <3>3, <3>4 DEF Good, OnCourse
  <2> QED
    BY <2>1, <2>2
<1> HIDE DEF o
<1>7. ASSUME o.result # "Failed"
      PROVE  /\ Resting(laid) /\ Fits(laid) /\ laid.error = o.error /\ ~laid.active
             /\ ~o.error => /\ PagesInOrder(laid) /\ ContinuesFrom(laid, laid.workAnchor)
                            /\ PlaceKnown(laid) /\ WorkInPlace(laid)
                            /\ laid.prefetching => ContinuesFrom(laid, laid.checkpoint)
  <2>1. /\ Resting(p) /\ Fits(p) /\ AlikeButWork(o, p) /\ p.work = NoText /\ ~p.chapterEnded
        /\ p.error = o.error /\ ~p.active
    <3>1. Resting(p) /\ Fits(p) /\ AlikeButWork(o, p) /\ p.work = NoText
      BY <1>4, BlankPageInv, BlankPageAlike DEF Resting
    <3> HIDE DEF p
    <3> QED
      BY <1>4, <1>6, <1>7, <3>1 DEF AlikeButWork, SamePlace, GoesOn
  <2> HIDE DEF p
  <2>2. Resting(laid) /\ Fits(laid) /\ laid.error = o.error /\ ~laid.active
    BY <2>1, LayOutExtends, LayOutError DEF Extends, GoesOn, Resting
  <2>3. ASSUME ~o.error
        PROVE  /\ PagesInOrder(laid) /\ ContinuesFrom(laid, laid.workAnchor)
               /\ PlaceKnown(laid) /\ WorkInPlace(laid)
               /\ laid.prefetching => ContinuesFrom(laid, laid.checkpoint)
    <3>1. /\ PagesInOrder(p) /\ ContinuesFrom(p, p.workAnchor) /\ PlaceKnown(p)
          /\ p.workAnchor.parserCheckpoint = p.pend + p.seek
          /\ p.prefetching => ContinuesFrom(p, p.checkpoint)
      BY <1>6, <1>7, <2>1, <2>3
         DEF AlikeButWork, SamePages, SamePlace, SameText, GoesOn, PagesInOrder, ContinuesFrom,
             Kept, PlaceKnown
    <3>2. WorkInPlace(p)
      <4>1. p.workAnchor.parserCheckpoint \in Nat
        BY <2>1 DEF Resting, Readers, Anchors
      <4>2. IsBlank(NoText) /\ Size(NoText) = 0
        BY DEF IsBlank, Size, NoText
      <4> QED
        BY <2>1, <3>1, <4>1, <4>2 DEF WorkInPlace
    <3>3. /\ SamePages(p, laid) /\ PlaceKnown(laid) /\ WorkInPlace(laid)
          /\ laid.workAnchor = p.workAnchor /\ laid.checkpoint = p.checkpoint /\ GoesOn(p, laid)
      BY <2>1, <3>1, <3>2, LayOutInPlace
    <3> HIDE DEF laid
    <3> QED
      BY <3>1, <3>3 DEF SamePages, GoesOn, PagesInOrder, ContinuesFrom, Kept
  <2> QED
    BY <2>2, <2>3
<1> HIDE DEF laid
<1>8. CASE o.result # "Failed" /\ s = Commit(laid)
  <2>1. laid \in Readers
    BY <1>7, <1>8 DEF Resting
  <2>2. CASE laid.error
    <3>1. laid.error = TRUE
      BY <2>1, <2>2 DEF Readers
    <3> QED
      BY <1>8, <2>1, <3>1, ErrorStays, ErrorGood DEF s
  <2>3. CASE ~laid.error
    <3>1. /\ Resting(laid) /\ Fits(laid) /\ ~laid.active /\ PlaceKnown(laid)
          /\ PagesInOrder(laid) /\ ContinuesFrom(laid, laid.workAnchor) /\ WorkInPlace(laid)
      BY <1>7, <1>8, <2>3
    <3>2. IF s.result = "Failed" THEN s.error = TRUE ELSE Committed(laid, s)
      BY <1>8, <3>1, CommitInOrder DEF PlaceKnown
    <3>3. Committed(laid, s) => Good(s)
      BY <3>1, CommittedPlace, PageOverGood DEF Committed, GoesOn
    <3> QED
      BY <3>2, <3>3, ErrorGood DEF s
  <2> QED
    BY <2>2, <2>3
<1>9. CASE o.result # "Failed" /\ s = started
  <2>1. laid \in Readers
    BY <1>7, <1>9 DEF Resting
  <2>2. /\ SamePages(laid, s) /\ SamePlace(laid, s) /\ s.work = laid.work /\ s.error = laid.error
        /\ s.checkpoint = laid.checkpoint /\ s.prefetching = laid.prefetching /\ s.active = TRUE
    BY <1>9, <2>1 DEF Readers, SamePages, SamePlace, SameText
  <2> QED
    BY <1>7, <1>9, <2>2
       DEF s, Good, OnCourse, SamePages, SamePlace, SameText, PagesInOrder, ContinuesFrom, Kept,
           PlaceKnown, WorkInPlace
<1> QED
  BY <1>2, <1>3, <1>5, <1>8, <1>9

(* renderCachedPage(), redrawCurrentPage(), swapCanvases(): pages that are *)
(* there already                                                           *)
LEMMA RenderCachedPageGood ==
  ASSUME NEW r, AtRest(r), Good(r), NEW index
  PROVE  Good(RenderCachedPage(r, index))
<1> DEFINE t == r.texts[index + 1]
<1> DEFINE d == Drawn(r, t)
<1> DEFINE p == BlankPage(r, "front")
<1> DEFINE s == [p EXCEPT !.work = t, !.front = d, !.current = index, !.result = "Completed"]
<1>1. RenderCachedPage(r, index) = s
  BY DEF RenderCachedPage
<1>2. p \in Readers /\ AlikeButWork(r, p) /\ ~r.active
  BY BlankPageInv, BlankPageAlike DEF AtRest, Resting, Stopped
<1> HIDE DEF p, t, d
<1>3. AlikeButWork(p, s)
  BY <1>2 DEF Readers, AlikeButWork, SamePages, SamePlace, SameText, GoesOn
<1> HIDE DEF s
<1>4. AlikeButWork(r, s)
  BY <1>2, <1>3 DEF AlikeButWork, SamePages, SamePlace, SameText, GoesOn
<1> QED
  BY <1>1, <1>2, <1>4, AlikeGood

LEMMA RedrawGood ==
  ASSUME NEW r, AtRest(r), Good(r)
  PROVE  Good(RedrawCurrentPage(r))
BY RenderCachedPageGood DEF RedrawCurrentPage

LEMMA SwapCanvasesGood ==
  ASSUME NEW r, AtRest(r), Good(r)
  PROVE  Good(SwapCanvases(r))
<1> DEFINE c == r.current + 1
<1> DEFINE d == IF r.displayCanvas = "front" THEN "back" ELSE "front"
<1> DEFINE s == [r EXCEPT !.front = r.back, !.back = r.front, !.current = c,
                          !.prefetch = "Idle", !.displayCanvas = d, !.result = "Completed"]
<1>1. SwapCanvases(r) = s /\ r \in Readers
  BY DEF SwapCanvases, AtRest, Resting
<1> HIDE DEF c, d
<1>2. Alike(r, s)
  BY <1>1 DEF Readers, Alike, AlikeButWork, SamePages, SamePlace, SameText, GoesOn
<1> QED
  BY <1>1, <1>2, AlikeGood DEF Alike

(* requestNextPage() *)
LEMMA RequestNextPageGood ==
  ASSUME NEW r, AtRest(r), Good(r), NEW ok
  PROVE  Good(RequestNextPage(r, ok))
<1> DEFINE c == RenderCachedPage(r, r.current + 1)
<1> DEFINE s == [c EXCEPT !.prefetch = "Idle"]
<1>1. /\ ValidCache(r) /\ ~r.active /\ ~r.prefetching /\ r.current + 1 \in Nat
      /\ Resting(r) /\ Len(r.texts) \in Nat
  BY RestingValid DEF AtRest, Stopped, Resting, Readers
<1>2. CASE r.current + 1 >= Len(r.texts)
  <2>1. RequestNextPage(r, ok) = PrepareUncachedPage(r, "front", ok)
    BY <1>1, <1>2 DEF RequestNextPage
  <2> QED
    BY <1>1, <2>1, PrepareGood
<1>3. CASE r.current + 1 < Len(r.texts)
  <2>1. RequestNextPage(r, ok) \in {SwapCanvases(r), RebuildPage(r, r.current + 1, ok), s}
    BY <1>1, <1>3 DEF RequestNextPage
  <2>2. Good(s)
    <3>1. c \in Readers /\ Good(c)
      BY <1>1, <1>3, RenderCachedPageRests, RenderCachedPageGood DEF AtRest, Resting
    <3> HIDE DEF c
    <3> QED
      BY <3>1, PrefetchAlike, AlikeGood DEF Alike
  <2> HIDE DEF s
  <2> QED
    BY <1>1, <2>1, <2>2, SwapCanvasesGood, RebuildPageGood
<1> QED
  BY <1>1, <1>2, <1>3

(* requestPreviousPage() *)
LEMMA RequestPreviousPageGood ==
  ASSUME NEW r, AtRest(r), Good(r), NEW ok
  PROVE  Good(RequestPreviousPage(r, ok))
<1> DEFINE f == InvalidateReadyPrefetch(r)
<1>1. ValidCache(r) /\ r.current \in Nat /\ r \in Readers /\ ~r.active
  BY RestingValid DEF AtRest, Resting, Readers, Stopped
<1>2. AtRest(f) /\ Good(f)
  <2>1. Keeps(r, f) /\ GoesOn(r, f) /\ Alike(r, f)
    BY <1>1, InvalidateKeeps, InvalidateAlike
  <2> HIDE DEF f
  <2> QED
    BY <2>1, AtRestKeeps, AlikeGood DEF Alike
<1> HIDE DEF f
<1>3. CASE r.active \/ r.current = 0 \/ r.texts = <<>>
  <2>1. RequestPreviousPage(r, ok) = Idle(r)
    BY <1>1, <1>3 DEF RequestPreviousPage
  <2> QED
    BY <1>1, <2>1, IdleAlike, AlikeGood DEF Alike
<1>4. CASE ~(r.active \/ r.current = 0 \/ r.texts = <<>>)
  <2>1. RequestPreviousPage(r, ok) \in {RebuildPage(f, r.current - 1, ok),
                                        RenderCachedPage(f, r.current - 1)}
    BY <1>1, <1>4 DEF RequestPreviousPage, f
  <2>2. r.current - 1 \in Nat
    BY <1>1, <1>4
  <2> QED
    BY <1>2, <2>1, <2>2, RebuildPageGood, RenderCachedPageGood
<1> QED
  BY <1>3, <1>4

(* A font that changes: the pages stay as they are until one is committed. *)
LEMMA FontAlike ==
  ASSUME NEW r, AtRest(r), Good(r), NEW size \in Sizes, NEW family \in Families
  PROVE  /\ Good(InvalidateReadyPrefetch([r EXCEPT !.size = size]))
         /\ Good(InvalidateReadyPrefetch([r EXCEPT !.family = family]))
         /\ AtRest(InvalidateReadyPrefetch([r EXCEPT !.size = size]))
         /\ AtRest(InvalidateReadyPrefetch([r EXCEPT !.family = family]))
<1>1. r \in Readers
  BY DEF AtRest, Resting
<1>2. ASSUME NEW q, q \in {[r EXCEPT !.size = size], [r EXCEPT !.family = family]}
      PROVE  Good(InvalidateReadyPrefetch(q)) /\ AtRest(InvalidateReadyPrefetch(q))
  <2>1. q \in Readers
    <3>1. [r EXCEPT !.size = size] \in Readers
      BY <1>1, SMTT(30) DEF Readers
    <3>2. [r EXCEPT !.family = family] \in Readers
      BY <1>1, SMTT(30) DEF Readers
    <3> QED
      BY <1>2, <3>1, <3>2
  <2>2. Alike(r, q)
    BY <1>1, <1>2 DEF Readers, Alike, AlikeButWork, SamePages, SamePlace, SameText, GoesOn
  <2>3. q.current = r.current
    BY <1>1, <1>2 DEF Readers
  <2>4. AtRest(q)
    BY <2>1, <2>2, <2>3
       DEF AtRest, Resting, CacheInv, TextInOrder, Stopped, Alike, AlikeButWork, SamePages,
           SamePlace, SameText, GoesOn
  <2>5. Good(q)
    BY <2>2, AlikeGood DEF Alike
  <2>6. Alike(q, InvalidateReadyPrefetch(q))
    BY <2>1, InvalidateAlike
  <2>7. Good(InvalidateReadyPrefetch(q))
    BY <2>5, <2>6, AlikeGood DEF Alike
  <2>8. AtRest(InvalidateReadyPrefetch(q))
    BY <2>1, <2>4, InvalidateKeeps, AtRestKeeps
  <2> QED
    BY <2>7, <2>8
<1> QED
  BY <1>2

(* reflowCurrentPage() *)
LEMMA ReflowGood ==
  ASSUME NEW r, AtRest(r), Good(r), NEW size \in Sizes, NEW ok
  PROVE  Good(ReflowCurrentPage(r, size, ok))
<1> DEFINE f == InvalidateReadyPrefetch([r EXCEPT !.size = size])
<1>1. ValidCache(r) /\ r \in Readers /\ r.current \in Nat
  BY RestingValid DEF AtRest, Resting, Readers
<1>2. ReflowCurrentPage(r, size, ok) \in {Idle(r), RebuildPage(f, r.current, ok)}
  BY <1>1 DEF ReflowCurrentPage
<1>3. AtRest(f) /\ Good(f)
  <2>1. r.family \in Families
    BY <1>1 DEF Readers
  <2> QED
    BY <2>1, FontAlike
<1> HIDE DEF f
<1> QED
  BY <1>1, <1>2, <1>3, IdleAlike, AlikeGood, RebuildPageGood DEF Alike

LEMMA FontSizeGood ==
  ASSUME NEW r, AtRest(r), Good(r), NEW ok
  PROVE  Good(IncreaseFontSize(r, ok)) /\ Good(DecreaseFontSize(r, ok))
<1>1. Good(Idle(r))
  BY IdleAlike, AlikeGood DEF Alike, AtRest, Resting
<1> QED
  BY <1>1, ReflowGood DEF IncreaseFontSize, DecreaseFontSize

(* cycleFontFamily() *)
LEMMA CycleFontFamilyGood ==
  ASSUME NEW r, AtRest(r), Good(r), NEW ok
  PROVE  Good(CycleFontFamily(r, ok))
<1> DEFINE family == (r.family + 1) % 3
<1> DEFINE f == InvalidateReadyPrefetch([r EXCEPT !.family = family])
<1>1. r \in Readers /\ r.current \in Nat /\ family \in Families
  BY DEF AtRest, Resting, Readers, Families
<1>2. CycleFontFamily(r, ok) \in {Idle(r), RebuildPage(f, r.current, ok)}
  BY DEF CycleFontFamily
<1>3. AtRest(f) /\ Good(f)
  <2> HIDE DEF family
  <2> QED
    BY <1>1, BookFacts, FontAlike
<1> HIDE DEF f
<1> QED
  BY <1>1, <1>2, <1>3, IdleAlike, AlikeGood, RebuildPageGood DEF Alike

(* requestPrefetch(): the checkpoint is where the pages end. *)
LEMMA RequestPrefetchGood ==
  ASSUME NEW r, AtRest(r), Good(r), NEW ok
  PROVE  Good(RequestPrefetch(r, ok))
<1> DEFINE noted == [r EXCEPT !.checkpoint = r.workAnchor]
<1> DEFINE asked == [noted EXCEPT !.prefetching = TRUE, !.prefetch = "ReadingInput"]
<1> DEFINE p == PrepareUncachedPage(asked, "back", ok)
<1> DEFINE m == MoveTo(p, "Ready")
<1> DEFINE ready == [m EXCEPT !.prefetching = FALSE]
<1> DEFINE given == [p EXCEPT !.prefetching = FALSE, !.prefetch = "Idle"]
<1>1. r \in Readers /\ ValidCache(r) /\ ~r.active /\ ~r.prefetching
  BY RestingValid DEF AtRest, Resting, Stopped
<1>2. \/ RequestPrefetch(r, ok) \in {Idle(r), Idle(noted)}
      \/ p.result = "MoreWork" /\ RequestPrefetch(r, ok) = p
      \/ RequestPrefetch(r, ok) \in {ready, given} /\ p.result # "MoreWork"
  <2>1. CASE PrefetchBlocked(r) \/ ~CanStart(r.prefetch)
    BY <1>1, <2>1 DEF RequestPrefetch
  <2>2. CASE ~PrefetchBlocked(r) /\ CanStart(r.prefetch)
    <3>1. RequestPrefetch(r, ok) = CASE p.result = "MoreWork"  -> p
                                     [] p.result = "Completed" -> ready
                                     [] OTHER -> given
      BY <1>1, <2>2 DEF RequestPrefetch
    <3> HIDE DEF p, ready, given
    <3> QED
      BY <3>1
  <2> QED
    BY <2>1, <2>2
<1>3. /\ noted \in Readers /\ SamePages(r, noted) /\ SamePlace(r, noted) /\ GoesOn(r, noted)
      /\ noted.work = r.work /\ noted.error = r.error /\ noted.checkpoint = r.workAnchor
      /\ noted.current = r.current
  BY <1>1 DEF Readers, SamePages, SamePlace, SameText, GoesOn
<1> HIDE DEF noted
<1>4. Good(noted)
  BY <1>1, <1>3
     DEF Good, OnCourse, SamePages, SamePlace, SameText, GoesOn, PagesInOrder, ContinuesFrom,
         Kept, PlaceKnown
<1>5. /\ asked \in Readers /\ SamePages(noted, asked) /\ SamePlace(noted, asked) /\ ~asked.active
      /\ asked.error = noted.error /\ asked.checkpoint = noted.checkpoint
      /\ asked.current = noted.current
  BY <1>1, <1>3 DEF Readers, PrefetchStates, SamePages, SamePlace, SameText, GoesOn
<1> HIDE DEF asked
<1>6. Resting(asked)
  BY <1>3, <1>5
     DEF AtRest, Resting, CacheInv, TextInOrder, SamePages, SamePlace, SameText
<1>7. Good(asked)
  BY <1>1, <1>3, <1>4, <1>5
     DEF Good, OnCourse, SamePages, SamePlace, SameText, GoesOn, PagesInOrder, ContinuesFrom,
         Kept, PlaceKnown
<1>8. ~asked.error => ContinuesFrom(asked, asked.checkpoint)
  BY <1>3, <1>5
     DEF Good, OnCourse, SamePages, ContinuesFrom, Kept
<1>9. /\ Good(p) /\ p \in Readers /\ (p.result # "MoreWork" => ~p.active)
  BY <1>5, <1>6, <1>7, <1>8, PrepareGood, PrepareUncachedPagePrepares DEF Resting
<1> HIDE DEF p
<1>10. CASE RequestPrefetch(r, ok) \in {Idle(r), Idle(noted)}
  BY <1>1, <1>3, <1>4, <1>10, IdleAlike, AlikeGood DEF Alike
<1>11. CASE p.result = "MoreWork" /\ RequestPrefetch(r, ok) = p
  BY <1>9, <1>11
<1>12. CASE RequestPrefetch(r, ok) \in {ready, given} /\ p.result # "MoreWork"
  <2>1. m \in Readers /\ Alike(p, m)
    BY <1>9, MoveToKeeps, MoveToAlike DEF PrefetchStates, Keeps
  <2>2. Good(m) /\ ~m.active
    BY <1>9, <1>12, <2>1, AlikeGood DEF Alike, AlikeButWork, GoesOn
  <2> HIDE DEF m
  <2>3. ASSUME NEW q \in Readers, Good(q), ~q.active,
               NEW s, s \in {[q EXCEPT !.prefetching = FALSE],
                             [q EXCEPT !.prefetching = FALSE, !.prefetch = "Idle"]}
        PROVE  Good(s)
    <3>1. /\ SamePages(q, s) /\ SamePlace(q, s) /\ s.error = q.error /\ ~s.active
      BY <2>3 DEF Readers, SamePages, SamePlace, SameText
    <3> QED
      BY <2>3, <3>1
         DEF Good, OnCourse, SamePages, SamePlace, SameText, PagesInOrder, ContinuesFrom, Kept,
             PlaceKnown
  <2>4. Good(ready) /\ Good(given)
    BY <1>9, <1>12, <2>1, <2>2, <2>3
  <2> HIDE DEF ready, given
  <2> QED
    BY <1>12, <2>4
<1> QED
  BY <1>2, <1>10, <1>11, <1>12
-----------------------------------------------------------------------------
(***************************************************************************)
(* The loop.  In a session - while a book is read or a page of it laid out *)
(* - the reader is good; outside, its pages stay as the session left them. *)
(***************************************************************************)
LEMMA GoodInv ==
  ASSUME Good(rd')
  PROVE  PaginationInv'
BY DEF Good, OnCourse, PaginationInv

LEMMA AwayInv ==
  ASSUME PaginationInv, SamePages(rd, rd'), rd'.error = rd.error, ~InSession(app', layingOut')
  PROVE  PaginationInv'
BY DEF PaginationInv, SamePages, PagesInOrder

LEMMA GoodInSession ==
  ASSUME PaginationInv, InSession(app, layingOut)
  PROVE  Good(rd)
BY DEF PaginationInv, Good

(* However a handler leaves the screen, it leaves the reader's pages alone. *)
LEMMA HandledGood ==
  ASSUME NEW r \in Readers, Good(r), Present(r) \/ ShowError(r) \/ LayOutPage(r) \/ Stay(r)
  PROVE  Good(rd')
<1>1. Idle(r) \in Readers /\ Good(Idle(r))
  BY IdleKeeps, IdleAlike, AlikeGood DEF Alike, Keeps
<1>2. Good(DrawnOver(Idle(r)))
  BY <1>1, OnCanvasAlike, AlikeGood DEF DrawnOver, Alike
<1> QED
  BY <1>1, <1>2 DEF Present, ShowError, LayOutPage, Stay

LEMMA DrawnOverGood ==
  ASSUME NEW r \in Readers, Good(r)
  PROVE  Good(DrawnOver(r)) /\ Good(DrawnOverUnlessCover(r))
BY OnCanvasAlike, AlikeGood DEF DrawnOver, DrawnOverUnlessCover, Alike

LEMMA ServedReader ==
  ASSUME NEW r, Serves(r)
  PROVE  r \in Readers
BY DEF Serves, ReaderInv, Resting

LEMMA ExecuteGood ==
  ASSUME AtRest(rd), Good(rd), NEW a, NEW ok, Execute(a, ok)
  PROVE  Good(rd')
<1>0. rd \in Readers
  BY DEF AtRest, Resting
<1>1. CASE a = "OpenMenu"
  <2>1. rd' = DrawnOverUnlessCover(InvalidateReadyPrefetch(rd))
    BY <1>1 DEF Execute, ExecuteMenu
  <2>2. InvalidateReadyPrefetch(rd) \in Readers /\ Good(InvalidateReadyPrefetch(rd))
    BY <1>0, InvalidateKeeps, InvalidateAlike, AlikeGood DEF Alike, Keeps
  <2> QED
    BY <2>1, <2>2, DrawnOverGood
<1>2. CASE a = "PreviousPage"
  <2> DEFINE r == RequestPreviousPage(rd, ok)
  <2>1. AfterPageTurn(r)
    BY <1>2 DEF Execute
  <2>2. r \in Readers /\ Good(r)
    BY RequestPreviousPageServes, RequestPreviousPageGood, ServedReader
  <2> HIDE DEF r
  <2> QED
    BY <2>1, <2>2, HandledGood DEF AfterPageTurn
<1>3. CASE a = "NextPage"
  <2> DEFINE r == RequestNextPage(rd, ok)
  <2>1. AfterPageTurn(r)
    BY <1>3 DEF Execute
  <2>2. r \in Readers /\ Good(r)
    BY RequestNextPageServes, RequestNextPageGood, ServedReader
  <2> HIDE DEF r
  <2> QED
    BY <2>1, <2>2, HandledGood DEF AfterPageTurn
<1>4. CASE a \notin {"OpenMenu", "PreviousPage", "NextPage"}
  <2> DEFINE r == IF a = "IncreaseFont" THEN IncreaseFontSize(rd, ok) ELSE DecreaseFontSize(rd, ok)
  <2>1. Stay(rd) \/ Stay(r) \/ LayOutPage(r) \/ ShowError(r)
    BY <1>4 DEF Execute, ExecuteFont
  <2>2. r \in Readers /\ Good(r)
    BY FontSizeServes, FontSizeGood, ServedReader
  <2> HIDE DEF r
  <2> QED
    BY <1>0, <2>1, <2>2, HandledGood
<1> QED
  BY <1>1, <1>2, <1>3, <1>4

LEMMA HandleReaderActionGood ==
  ASSUME ScreenInv, app = "Reading", Good(rd), NEW a, NEW ok, HandleReaderAction(a, ok)
  PROVE  Good(rd')
<1>1. CASE busy \/ rd.prefetching
  <2>1. rd' \in {rd, CancelPrefetch(rd)}
    BY <1>1 DEF HandleReaderAction, QueueAction
  <2>2. Good(CancelPrefetch(rd))
    BY InvalidateAlike, AlikeGood DEF Alike, ScreenInv, ReaderInv, Resting
  <2> QED
    BY <2>1, <2>2
<1>2. CASE ~(busy \/ rd.prefetching)
  <2>1. Execute(a, ok)
    BY <1>2 DEF HandleReaderAction
  <2>2. AtRest(rd)
    BY <1>2, ScreenAtRest
  <2> QED
    BY <2>1, <2>2, ExecuteGood
<1> QED
  BY <1>1, <1>2

(* Asleep in a book, the reader has its page drawn again or forgets none;  *)
(* asleep in the library, nothing but the display's canvas changes.        *)
LEMMA SleepPaged ==
  ASSUME PaginationInv, AtRest(rd), app \in {"Library", "Reading", "ReaderMenu"}, SleepAndWake
  PROVE  PaginationInv'
<1> DEFINE s == IF app = "Library" THEN DrawnOver(rd) ELSE DrawnOverUnlessCover(rd)
<1> DEFINE w == RedrawCurrentPage(s)
<1>0. rd \in Readers
  BY DEF AtRest, Resting
<1>1. AtRest(s) /\ s \in Readers
  BY DrawnOverRests, DrawnOverUnlessCoverRests DEF AtRest, Resting
<1>2. \/ app # "Library" /\ rd' = Idle(w)
      \/ rd' = DrawnOver(s) /\ app' = "Library"
  BY DEF SleepAndWake
<1>3. CASE app = "Library"
  <2>1. s = DrawnOver(rd) /\ rd' = DrawnOver(s) /\ app' = "Library"
    BY <1>2, <1>3
  <2> HIDE DEF s
  <2>2. Alike(rd, s) /\ Alike(s, DrawnOver(s))
    BY <1>0, <1>1, <2>1, OnCanvasAlike DEF DrawnOver
  <2>3. SamePages(rd, rd') /\ rd'.error = rd.error
    BY <2>1, <2>2 DEF Alike, AlikeButWork, SamePages
  <2> QED
    BY <2>1, <2>3, AwayInv DEF InSession
<1>4. CASE app # "Library"
  <2>1. Good(s)
    BY <1>0, <1>4, GoodInSession, DrawnOverGood DEF InSession
  <2> HIDE DEF s
  <2>2. Good(DrawnOver(s))
    BY <1>1, <2>1, DrawnOverGood
  <2>3. AtRest(w) /\ Good(w)
    BY <1>1, <2>1, RedrawRests, RedrawGood
  <2> HIDE DEF w
  <2>4. Good(Idle(w))
    BY <2>3, IdleAlike, AlikeGood DEF Alike, AtRest, Resting
  <2> QED
    BY <1>2, <2>2, <2>4, GoodInv
<1> QED
  BY <1>3, <1>4

LEMMA StartedGood ==
  ASSUME NEW r, Starts(r), Good(r),
         ShowError(r) \/ Stay(r) \/ LayOutPage(r)
  PROVE  PaginationInv'
<1>1. r \in Readers
  BY DEF Starts, ReaderInv, Resting
<1> QED
  BY <1>1, HandledGood, GoodInv

LEMMA BookParsedPaged ==
  ASSUME ScreenInv, BookParsed
  PROVE  PaginationInv'
<1>1. rd \in Readers
  BY DEF ScreenInv, ReaderInv, Resting
<1>2. \A r, ok : r \in Readers => Starts(Start(r, ok)) /\ Good(Start(r, ok))
  BY StartStarts, StartGood
<1>3. ASSUME NEW s \in SavedStates, NEW okSaved, NEW ok
      PROVE  /\ Starts(StartReaderWithSavedState(rd, s, okSaved, ok))
             /\ Good(StartReaderWithSavedState(rd, s, okSaved, ok))
  <2> DEFINE restored == StartAt(rd, s.anchor, s.size, s.family, s.history, okSaved)
  <2>1. /\ s.anchor \in Anchors /\ s.size \in Sizes /\ s.family \in Families
        /\ s.history \in Seq(Anchors)
    BY LoopAssumption
  <2>2. Starts(restored) /\ Good(restored)
    BY <1>1, <2>1, StartAtStarts, StartAtGood
  <2>3. StartReaderWithSavedState(rd, s, okSaved, ok) \in {Start(restored, ok), restored}
    BY DEF StartReaderWithSavedState
  <2> HIDE DEF restored
  <2>4. restored \in Readers
    BY <2>2 DEF Starts, ReaderInv, Resting
  <2> QED
    BY <1>2, <2>2, <2>3, <2>4
<1>4. PICK r : /\ Starts(r) /\ Good(r)
               /\ IF r.result = "Failed" THEN ShowError(r) /\ UNCHANGED layingOut ELSE LayOutPage(r)
  BY <1>1, <1>2, <1>3 DEF BookParsed
<1> QED
  BY <1>4, StartedGood

LEMMA LayOutStepGood ==
  ASSUME ScreenInv, Good(rd), LayOutStep
  PROVE  Good(rd')
<1>1. PICK ok : LET r == ProcessNextChunk(rd, ok)
                IN  CASE r.result = "Completed" -> Present(r) /\ UNCHANGED layingOut
                      [] r.result = "Failed"    -> ShowError(r) /\ UNCHANGED layingOut
                      [] OTHER                  -> Stay(r)
  BY DEF LayOutStep
<1> DEFINE r == ProcessNextChunk(rd, ok)
<1>2. r \in Readers /\ Good(r)
  BY ProcessNextChunkSteps, ProcessNextChunkGood DEF ScreenInv, Steps, ReaderInv, Resting
<1>3. Present(r) \/ ShowError(r) \/ Stay(r)
  BY <1>1
<1> HIDE DEF r
<1> QED
  BY <1>2, <1>3, HandledGood

LEMMA PrefetchStepGood ==
  ASSUME ScreenInv, Good(rd), PrefetchStep
  PROVE  Good(rd')
<1>1. PICK asked, ok :
        LET r == IF rd.prefetching THEN rd ELSE RequestPrefetch(rd, asked)
        IN  rd' = Idle(IF r.prefetching THEN ProcessNextChunk(r, ok) ELSE r)
  BY DEF PrefetchStep
<1> DEFINE r == IF rd.prefetching THEN rd ELSE RequestPrefetch(rd, asked)
<1> DEFINE s == IF r.prefetching THEN ProcessNextChunk(r, ok) ELSE r
<1>2. rd' = Idle(s)
  BY <1>1
<1>3. ReaderInv(r) /\ Good(r)
  <2>1. CASE rd.prefetching
    BY <2>1 DEF ScreenInv
  <2>2. CASE ~rd.prefetching
    <3>1. AtRest(rd)
      BY <2>2, ScreenAtRest DEF PrefetchStep
    <3> QED
      BY <2>2, <3>1, RequestPrefetchInv, RequestPrefetchGood
  <2> QED
    BY <2>1, <2>2
<1> HIDE DEF r
<1>4. s \in Readers /\ Good(s)
  BY <1>3, ProcessNextChunkSteps, ProcessNextChunkGood DEF Steps, ReaderInv, Resting
<1> HIDE DEF s
<1> QED
  BY <1>2, <1>4, IdleAlike, AlikeGood DEF Alike

(* Beside the panel's refresh a page is laid out only in a session. *)
LEMMA CpuWorkPaged ==
  ASSUME PaginationInv, ScreenInv, ParsesAtRest, CpuWork
  PROVE  PaginationInv'
<1> DEFINE once == ProcessCpuOnlyWork(rd)
<1>0. ReaderInv(rd) /\ rd \in Readers
  BY DEF ScreenInv, ReaderInv, Resting
<1>1. rd' \in {once, ProcessCpuOnlyWork(once)} /\ UNCHANGED <<app, layingOut>>
  BY DEF CpuWork
<1>2. CASE InSession(app, layingOut)
  <2>1. Good(rd)
    BY <1>2, GoodInSession
  <2>2. ReaderInv(once) /\ Good(once)
    BY <1>0, <2>1, ProcessCpuOnlyWorkSteps, ProcessCpuOnlyWorkGood
  <2> HIDE DEF once
  <2>3. Good(ProcessCpuOnlyWork(once))
    BY <2>2, ProcessCpuOnlyWorkGood
  <2> QED
    BY <1>1, <2>2, <2>3, GoodInv
<1>3. CASE ~InSession(app, layingOut)
  <2>1. ~rd.active
    BY <1>3 DEF InSession, ScreenInv, RunsWhereExpected, RunsIn, ParsesAtRest
  <2>2. ASSUME NEW r \in Readers, ~r.active
        PROVE  Alike(r, ProcessCpuOnlyWork(r)) /\ ProcessCpuOnlyWork(r) \in Readers
    <3>1. ProcessCpuOnlyWork(r) = Idle(Idle(r))
      BY <2>2 DEF ProcessCpuOnlyWork, ProcessBufferedInput, ContinueLayout
    <3>2. Idle(r) \in Readers /\ Idle(Idle(r)) \in Readers
      BY <2>2, IdleKeeps DEF Keeps
    <3> QED
      BY <2>2, <3>1, <3>2, IdleAlike, AlikeTrans
  <2>3. Alike(rd, once) /\ once \in Readers
    BY <1>0, <2>1, <2>2
  <2> HIDE DEF once
  <2>4. ~once.active
    BY <2>1, <2>3 DEF Alike, AlikeButWork, GoesOn
  <2>5. Alike(rd, rd')
    BY <1>1, <2>2, <2>3, <2>4, AlikeTrans
  <2>6. ~InSession(app', layingOut')
    BY <1>1, <1>3
  <2> QED
    BY <2>5, <2>6, AwayInv DEF Alike, AlikeButWork
<1> QED
  BY <1>2, <1>3

LEMMA PaginationStep == LoopInv /\ PaginationInv /\ [Next]_vars => PaginationInv'
<1> SUFFICES ASSUME LoopInv, PaginationInv, [Next]_vars PROVE PaginationInv'
  OBVIOUS
<1>0. ScreenInv /\ ParsesAtRest /\ rd \in Readers
  BY DEF LoopInv, ScreenInv, ReaderInv, Resting
<1>1. CASE UNCHANGED <<rd, app, layingOut>>
  BY <1>1 DEF PaginationInv
<1>2. CASE Lever \/ TouchPage
  <2>1. app = "Reading" /\ \E a, ok : HandleReaderAction(a, ok)
    BY <1>2 DEF Lever, TouchPage
  <2>2. Good(rd)
    BY <2>1, GoodInSession DEF InSession
  <2> QED
    BY <1>0, <2>1, <2>2, HandleReaderActionGood, GoodInv
<1>3. CASE PopAction
  <2>1. app = "Reading" /\ \E a, ok : Execute(a, ok)
    BY <1>3 DEF PopAction
  <2>2. Good(rd) /\ AtRest(rd)
    BY <1>0, <1>3, <2>1, GoodInSession, ScreenAtRest DEF InSession, PopAction
  <2> QED
    BY <2>1, <2>2, ExecuteGood, GoodInv
<1>4. CASE CloseMenu
  <2>1. app = "ReaderMenu" /\ (Present(RedrawCurrentPage(rd)) \/ rd' = rd)
    BY <1>4 DEF CloseMenu, TapMenu
  <2>2. Good(rd) /\ AtRest(rd)
    BY <1>0, <2>1, GoodInSession, ScreenAtRest DEF InSession
  <2>3. RedrawCurrentPage(rd) \in Readers /\ Good(RedrawCurrentPage(rd))
    BY <2>2, RedrawRests, RedrawGood DEF AtRest, Resting
  <2> QED
    BY <2>1, <2>2, <2>3, HandledGood, GoodInv
<1>5. CASE TurnMenuPage \/ BackToLibrary
  <2>1. app = "ReaderMenu" /\ rd' = DrawnOver(rd)
    BY <1>5 DEF TurnMenuPage, BackToLibrary, TapMenu
  <2>2. Good(rd)
    BY <2>1, GoodInSession DEF InSession
  <2> QED
    BY <1>0, <2>1, <2>2, DrawnOverGood, GoodInv
<1>6. CASE SelectTocEntry
  <2>0. PICK c \in Chapters : \E ok : LET r == StartAtSpine(rd, c, ok)
                                     IN  IF r.result = "Failed" THEN Stay(r) ELSE LayOutPage(r)
    BY <1>6 DEF SelectTocEntry
  <2>1. PICK ok : LET r == StartAtSpine(rd, c, ok)
                  IN  IF r.result = "Failed" THEN Stay(r) ELSE LayOutPage(r)
    BY <2>0
  <2> DEFINE r == StartAtSpine(rd, c, ok)
  <2>2. Starts(r) /\ Good(r)
    <3>1. rd.size \in Sizes
      BY <1>0 DEF Readers
    <3>2. StartOf(c) \in Anchors /\ Compact \in Families /\ <<>> \in Seq(Anchors)
      BY BookFacts DEF StartOf, Anchors, Compact, Families
    <3> QED
      BY <1>0, <3>1, <3>2, StartAtStarts, StartAtGood DEF StartAtSpine
  <2>3. Stay(r) \/ LayOutPage(r)
    BY <2>1
  <2> HIDE DEF r
  <2> QED
    BY <2>2, <2>3, StartedGood
<1>7. CASE TapFontFamily
  <2>1. app = "ReaderMenu"
    BY <1>7 DEF TapFontFamily, TapMenu
  <2>2. Good(rd) /\ AtRest(rd)
    BY <1>0, <2>1, GoodInSession, ScreenAtRest DEF InSession
  <2>3. PICK ok : LET r == CycleFontFamily(rd, ok)
                  IN  IF r.result = "MoreWork" THEN LayOutPage(r) ELSE Stay(r)
    BY <1>7 DEF TapFontFamily
  <2> DEFINE r == CycleFontFamily(rd, ok)
  <2>4. r \in Readers /\ Good(r)
    BY <2>2, CycleFontFamilyServes, CycleFontFamilyGood, ServedReader
  <2>5. LayOutPage(r) \/ Stay(r)
    BY <2>3
  <2> HIDE DEF r
  <2> QED
    BY <2>4, <2>5, HandledGood, GoodInv
<1>8. CASE ConfirmRestart
  <2>1. PICK ok : LET r == Start(rd, ok)
                  IN  IF r.result = "Failed" THEN ShowError(r) /\ UNCHANGED layingOut
                      ELSE LayOutPage(r)
    BY <1>8 DEF ConfirmRestart
  <2> DEFINE r == Start(rd, ok)
  <2>2. Starts(r) /\ Good(r)
    BY <1>0, StartStarts, StartGood
  <2>3. ShowError(r) \/ LayOutPage(r)
    BY <2>1
  <2> HIDE DEF r
  <2> QED
    BY <2>2, <2>3, StartedGood
<1>9. CASE TapSleep
  <2>1. app = "ReaderMenu" /\ SleepAndWake
    BY <1>9 DEF TapSleep, TapMenu
  <2> QED
    BY <1>0, <2>1, ScreenAtRest, SleepPaged
<1>10. CASE AutomaticSleep
  <2>1. app \in {"Library", "Reading", "ReaderMenu"} /\ ~rd.prefetching /\ SleepAndWake
    BY <1>10 DEF AutomaticSleep
  <2> QED
    BY <1>0, <2>1, ScreenAtRest, SleepPaged
<1>11. CASE OpenBook
  <2> DEFINE d == DrawnOver(rd)
  <2>1. rd' = [d EXCEPT !.entryOpen = FALSE] /\ app' = "OpeningBook" /\ layingOut' = FALSE
    BY <1>11 DEF OpenBook
  <2>2. d \in Readers /\ Alike(rd, d)
    BY <1>0, OnCanvasKeeps, OnCanvasAlike, BookFacts DEF DrawnOver, Keeps
  <2> HIDE DEF d
  <2>3. SamePages(rd, rd') /\ rd'.error = rd.error
    BY <2>1, <2>2 DEF Readers, Alike, AlikeButWork, SamePages
  <2> QED
    BY <2>1, <2>3, AwayInv DEF InSession
<1>12. CASE DismissError
  BY <1>12, AwayInv DEF DismissError, SamePages, InSession
<1>13. CASE CpuWork
  BY <1>0, <1>13, CpuWorkPaged
<1>14. CASE ParseBook \/ ParseFailed
  <2>1. /\ ~InSession(app', layingOut')
        /\ rd' \in {Idle(rd), DrawnOver(Idle(rd))}
    BY <1>14 DEF ParseBook, ParseFailed, Parsing, Stay, ShowError, InSession
  <2>2. Idle(rd) \in Readers /\ Alike(rd, Idle(rd))
    BY <1>0, IdleKeeps, IdleAlike DEF Keeps
  <2>3. Alike(Idle(rd), DrawnOver(Idle(rd)))
    BY <2>2, OnCanvasAlike DEF DrawnOver
  <2>4. Alike(rd, rd')
    BY <2>1, <2>2, <2>3, AlikeTrans
  <2> QED
    BY <2>1, <2>4, AwayInv DEF Alike, AlikeButWork
<1>15. CASE BookParsed
  BY <1>0, <1>15, BookParsedPaged
<1>16. CASE LayOutStep \/ PrefetchStep
  <2>1. Good(rd)
    BY <1>16, GoodInSession DEF LayOutStep, PrefetchStep, InSession
  <2> QED
    BY <1>0, <1>16, <2>1, LayOutStepGood, PrefetchStepGood, GoodInv
<1>17. CASE PressCenter \/ NoInput \/ NothingToPop \/ PanelNeedsNothing \/ NothingToWorkOn
            \/ ServiceManualRefresh \/ DisplayIdle
  BY <1>1, <1>17 DEF PressCenter, NoInput, NothingToPop, PanelNeedsNothing, NothingToWorkOn,
     ServiceManualRefresh, DisplayIdle
<1>18. CASE UNCHANGED vars
  BY <1>1, <1>18 DEF vars
<1>19. CASE DrawLibrary
  <2>1. ~InSession(app', layingOut') /\ rd' \in {rd, DrawnOver(rd)}
    BY <1>19 DEF DrawLibrary, InSession
  <2>2. Alike(rd, DrawnOver(rd))
    BY <1>0, OnCanvasAlike DEF DrawnOver
  <2> QED
    BY <2>1, <2>2, AwayInv DEF Alike, AlikeButWork, SamePages
<1> QED
  BY <1>2, <1>3, <1>4, <1>5, <1>6, <1>7, <1>8, <1>9, <1>10, <1>11, <1>12, <1>13, <1>14, <1>15,
     <1>16, <1>17, <1>18, <1>19 DEF Next, Input, Work

LEMMA PaginationInvHolds == Spec => [](LoopInv /\ PaginationInv)
<1>1. Init => PaginationInv
  <2> SUFFICES ASSUME Init PROVE PaginationInv
    OBVIOUS
  <2>1. NewReader \in Readers /\ NewReader.texts = <<>>
    BY NewReaderInv DEF NewReader, Cleared, ReaderInv, Resting
  <2> HIDE DEF NewReader
  <2>2. rd.texts = <<>>
    BY <2>1, OnCanvasAlike DEF Init, Alike, AlikeButWork, SamePages
  <2> QED
    BY <2>2 DEF Init, PaginationInv, PagesInOrder, InSession
<1> QED
  BY <1>1, PaginationStep, LoopInvHolds, PTL DEF Spec

(* As long as nothing has failed, whatever was cancelled, rebuilt or       *)
(* reflowed before, a page being laid out has its chapter open, and its    *)
(* text runs from its anchor to where the chapter is read.                 *)
THEOREM PagesRunOn == Spec => [](~rd.error => WorkFollowsAnchor)
<1>1. LoopInv /\ PaginationInv => (~rd.error => WorkFollowsAnchor)
  <2> SUFFICES ASSUME LoopInv, PaginationInv, ~rd.error, rd.active PROVE WorkFollowsAnchor
    BY DEF WorkFollowsAnchor
  <2>1. InSession(app, layingOut)
    BY DEF LoopInv, ScreenInv, RunsWhereExpected, RunsIn, ParsesAtRest, InSession
  <2>2. OnCourse(rd) /\ ~rd.chapterEnded
    BY <2>1 DEF PaginationInv, LoopInv, ScreenInv, ReaderInv, Stopped
  <2> QED
    BY <2>2 DEF OnCourse, PlaceKnown, WorkInPlace, WorkFollowsAnchor
<1> QED
  BY <1>1, PaginationInvHolds, PTL

(* As long as nothing has failed, no text is lost or repeated between the  *)
(* pages: each starts at its anchor and ends where the next one's is.      *)
THEOREM PagesAreContiguous == Spec => [](~rd.error => PagesContiguous)
<1>1. PaginationInv => (~rd.error => PagesContiguous)
  BY DEF PaginationInv, PagesInOrder, PagesContiguous
<1> QED
  BY <1>1, PaginationInvHolds, PTL
=============================================================================
