-------------------------- MODULE PageCacheProofs --------------------------
(***************************************************************************)
(* Proofs about the cache of pages and the page prefetched behind the      *)
(* current one, for any book with text in its linear chapters, and for any *)
(* fonts, gestures and failures of the archive: the page on the screen     *)
(* keeps its text, what is swapped in is the next page, and neither a      *)
(* prefetch nor a change of font moves the reader away from its page.      *)
(***************************************************************************)
EXTENDS PaginationProofs, FiniteSetTheorems

(* A page that fits any screen takes at most half of the cache. *)
SmallPages(texts) ==
  \A i \in DOMAIN texts : texts[i].from <= texts[i].to /\ 2 * Size(texts[i]) <= MaxCached

WithinBudget(texts) == SmallPages(texts) /\ CachedUnits(texts) <= MaxCached

(* Text is left in the chapter at anchor a, so the page there is not blank. *)
Fillable(a) == a.spine \in Linear => a.parserCheckpoint < TextLength[a.spine]

(* A page without text would be cached as a blank one, like an evicted one, *)
(* and be the current page without being shown: startAt() and commitPage()  *)
(* do not tell them apart.                                                  *)
TextEverywhere ==
  /\ \A c \in Linear : TextLength[c] > 0
  /\ \A s \in SavedStates : /\ Fillable(s.anchor)
                           /\ \A i \in DOMAIN s.history : Fillable(s.history[i])

(* Another view may draw over the next page while it waits in its canvas:   *)
(* without a cover, sleeping draws on the display's own.                    *)
Undisturbed == Cover \/ "Sleep" \notin Gestures

(***************************************************************************)
(* The inductive invariant.  A page is laid out from its anchor to the     *)
(* place the chapter is read at, unless the archive has failed: then the   *)
(* reader is stuck, for nothing more is read and a page whose text is      *)
(* there already finds no room in the history.                             *)
(***************************************************************************)
InPlace(r) ==
  /\ r.chapter \in Linear /\ r.workAnchor.spine = r.chapter
  /\ r.workAnchor.parserCheckpoint + (IF r.active THEN Size(r.work) ELSE 0) = r.pend + r.seek
  /\ r.seek = 0 \/ (r.pend = r.fed /\ ~r.layoutPending)

Stuck(r) ==
  /\ ~r.entryOpen /\ ~r.inputReady /\ ~r.layoutPending
  /\ r.pend = r.fed \/ Len(r.texts) >= MaxHistory

Flow(r) ==
  /\ r.inputReady => r.active
  /\ r.layoutPending => r.active /\ ~r.inputReady /\ r.fed = r.offset
  /\ r.active /\ ~r.layoutPending => r.pend = r.fed
  /\ r.inputEnded => r.offset = TextLength[r.chapter]
  /\ IF r.chapterEnded THEN r.seek = 0 ELSE InPlace(r) \/ Stuck(r)

(* The current page's text is there, if there is a page at all. *)
Showing(r) == r.texts # <<>> /\ ~IsBlank(r.texts[r.current + 1])
OnScreen(r) == r.texts = <<>> \/ Showing(r)

(* The page a reader without a current one is about to lay out has text,   *)
(* as has every page laid out again.                                       *)
Shelf(r) ==
  /\ WithinBudget(r.texts)
  /\ \A i \in DOMAIN r.anchors : Fillable(r.anchors[i])
  /\ Showing(r) \/ Fillable(r.workAnchor)
  /\ ~r.active => r.rebuilding = NoPage
  /\ r.rebuilding # NoPage =>
       r.rebuilding < Len(r.anchors) /\ r.workAnchor = r.anchors[r.rebuilding + 1]

(* A prefetch lays the page after the last one out on the back canvas.     *)
NextReady(r) == r.prefetch = "Ready" /\ r.current + 1 < Len(r.texts)

NextThere(r) ==
  r.current + 1 < Len(r.texts) =>
    ~IsBlank(r.texts[r.current + 2]) /\ (Undisturbed => r.back = r.texts[r.current + 2])

Prefetches(r) ==
  /\ r.target = "back" /\ r.back = r.work /\ r.rebuilding = NoPage
  /\ r.current + 1 >= Len(r.texts) /\ OnScreen(r)
  /\ r.texts = <<>> => Fillable(r.checkpoint)

Behind(r) ==
  /\ r.prefetching => Prefetches(r)
  /\ NextReady(r) => ~r.active /\ NextThere(r)
  /\ r.prefetching \/ r.prefetch = "Ready" => DoubleBuffer

Stocked(r) == Flow(r) /\ Shelf(r) /\ Behind(r)

(* What is kept on the screen must be there, and no other view is drawn    *)
(* while a page waits behind it.                                           *)
StockInv ==
  /\ Stocked(rd)
  /\ app \in {"Reading", "ReaderMenu"} => OnScreen(rd)
  /\ app # "Reading" => ~NextReady(rd)
-----------------------------------------------------------------------------

(* Two pages are all that is left: within the budget, whatever their size. *)
LEMMA UnitsOfTwo ==
  ASSUME NEW texts \in Seq(Texts), SmallPages(texts),
         NEW i \in DOMAIN texts, NEW j \in DOMAIN texts,
         \A k \in DOMAIN texts : k \in {i, j} \/ IsBlank(texts[k])
  PROVE  CachedUnits(texts) <= MaxCached
<1>1. \A k \in DOMAIN texts : texts[k].from \in Nat /\ texts[k].to \in Nat
  <2>1. \A k \in DOMAIN texts : texts[k] \in Texts
    BY LenProperties, ElementOfSeq
  <2> QED
    BY <2>1 DEF Texts
<1>2. ASSUME NEW k \in DOMAIN texts
      PROVE  /\ IsFiniteSet(UnitsAt(texts, k))
             /\ Cardinality(UnitsAt(texts, k)) = texts[k].to - texts[k].from
  <2>1. /\ IsFiniteSet({k}) /\ Cardinality({k}) = 1
    BY FS_Singleton
  <2>2. /\ IsFiniteSet(texts[k].from + 1 .. texts[k].to)
        /\ Cardinality(texts[k].from + 1 .. texts[k].to) = texts[k].to - texts[k].from
    <3>1. texts[k].from + 1 \in Int /\ texts[k].to \in Int /\ texts[k].from <= texts[k].to
      BY <1>1 DEF SmallPages
    <3>2. /\ IsFiniteSet(texts[k].from + 1 .. texts[k].to)
          /\ Cardinality(texts[k].from + 1 .. texts[k].to)
            = IF texts[k].from + 1 > texts[k].to THEN 0 ELSE texts[k].to - (texts[k].from + 1) + 1
      BY <3>1, FS_Interval
    <3> QED
      BY <1>1, <3>1, <3>2
  <2>3. /\ IsFiniteSet(UnitsAt(texts, k))
        /\ Cardinality(UnitsAt(texts, k)) = 1 * (texts[k].to - texts[k].from)
    BY <2>1, <2>2, FS_Product DEF UnitsAt
  <2>4. texts[k].to - texts[k].from \in Int
    BY <1>1
  <2> QED
    BY <2>3, <2>4
<1> DEFINE two == UnitsAt(texts, i) \cup UnitsAt(texts, j)
<1>3. UNION {UnitsAt(texts, k) : k \in DOMAIN texts} = two
  <2>1. ASSUME NEW k \in DOMAIN texts, k \notin {i, j}
        PROVE  UnitsAt(texts, k) = {}
    <3>1. texts[k].from = texts[k].to /\ texts[k].from \in Nat
      BY <1>1, <2>1 DEF IsBlank
    <3>2. texts[k].from + 1 .. texts[k].to = {}
      BY <3>1
    <3> QED
      BY <3>2 DEF UnitsAt
  <2> QED
    BY <2>1
<1>4. /\ Cardinality(two) = Cardinality(UnitsAt(texts, i)) + Cardinality(UnitsAt(texts, j))
                              - Cardinality(UnitsAt(texts, i) \cap UnitsAt(texts, j))
      /\ Cardinality(UnitsAt(texts, i) \cap UnitsAt(texts, j)) \in Nat
  <2>1. IsFiniteSet(UnitsAt(texts, i)) /\ IsFiniteSet(UnitsAt(texts, j))
    BY <1>2
  <2> QED
    BY <2>1, FS_Union, FS_Intersection, FS_CardinalityType
<1>5. CachedUnits(texts) <= (texts[i].to - texts[i].from) + (texts[j].to - texts[j].from)
  <2>1. Cardinality(UnitsAt(texts, i)) = texts[i].to - texts[i].from
    BY <1>2
  <2>2. Cardinality(UnitsAt(texts, j)) = texts[j].to - texts[j].from
    BY <1>2
  <2>3. CachedUnits(texts) = Cardinality(two)
    BY <1>3 DEF CachedUnits
  <2> HIDE DEF two
  <2>4. texts[i].to - texts[i].from \in Int /\ texts[j].to - texts[j].from \in Int
    BY <1>1
  <2> QED
    BY <1>4, <2>1, <2>2, <2>3, <2>4
<1>6. /\ 2 * (texts[i].to - texts[i].from) <= MaxCached
      /\ 2 * (texts[j].to - texts[j].from) <= MaxCached
  BY DEF SmallPages, Size
<1>7. /\ texts[i].from \in Nat /\ texts[i].to \in Nat
      /\ texts[j].from \in Nat /\ texts[j].to \in Nat
      /\ CachedUnits(texts) \in Int
  <2>1. IsFiniteSet(two)
    BY <1>2, FS_Union
  <2>2. Cardinality(two) \in Nat
    BY <2>1, FS_CardinalityType
  <2>3. CachedUnits(texts) = Cardinality(two)
    BY <1>3 DEF CachedUnits
  <2> HIDE DEF two
  <2>4. CachedUnits(texts) \in Int
    BY <2>2, <2>3
  <2> QED
    BY <1>1, <2>4
<1> QED
  BY <1>5, <1>6, <1>7, ReaderAssumption

(* Old texts go until the rest is within the budget: never the current     *)
(* page's, nor the one laid out behind it.                                 *)
LEMMA EvictSpares ==
  ASSUME NEW texts \in Seq(Texts), NEW current \in Nat, current < Len(texts), SmallPages(texts)
  PROVE  /\ WithinBudget(Evict(texts, current))
         /\ Evict(texts, current)[current + 1] = texts[current + 1]
         /\ current + 2 = Len(texts) =>
              Evict(texts, current)[current + 2] = texts[current + 2]
<1> DEFINE without(k) == [i \in DOMAIN texts |->
                            IF i <= k /\ i # current + 1 THEN NoText ELSE texts[i]]
<1> DEFINE enough == {k \in 0 .. Len(texts) : CachedUnits(without(k)) <= MaxCached}
<1> DEFINE least == Min(enough \cup {Len(texts)})
<1>1. /\ Evict(texts, current) = without(least)
      /\ Len(texts) \in Nat /\ DOMAIN texts = 1 .. Len(texts)
  BY LenProperties DEF Evict
<1>2. \A k : DOMAIN without(k) = 1 .. Len(texts)
  BY <1>1
<1>3. \A k : without(k) \in Seq(Texts)
  BY <1>1, <1>2, BookFacts, ElementOfSeq
<1>4. NoText.from <= NoText.to /\ 2 * Size(NoText) <= MaxCached /\ IsBlank(NoText)
  BY ReaderAssumption DEF NoText, Size, IsBlank
<1>5. \A k : SmallPages(without(k))
  BY <1>1, <1>2, <1>4 DEF SmallPages
<1>6. Len(texts) \in enough
  <2>1. \A k \in DOMAIN without(Len(texts)) :
          k \in {current + 1, current + 1} \/ IsBlank(without(Len(texts))[k])
    BY <1>1, <1>2, <1>4
  <2>2. current + 1 \in DOMAIN without(Len(texts))
    BY <1>1, <1>2
  <2>3. CachedUnits(without(Len(texts))) <= MaxCached
    <3> HIDE DEF without
    <3> QED
      BY <1>3, <1>5, <2>1, <2>2, UnitsOfTwo
  <2> QED
    BY <1>1, <2>3
<1>7. least \in enough /\ \A k \in enough : least <= k
  <2>1. enough \in SUBSET Nat /\ enough # {} /\ enough \cup {Len(texts)} = enough
    <3> HIDE DEF without
    <3> QED
      BY <1>1, <1>6
  <2> HIDE DEF enough
  <2> QED
    BY <2>1, MinIn
<1>8. WithinBudget(Evict(texts, current))
  <2>1. CachedUnits(without(least)) <= MaxCached
    BY <1>7
  <2> HIDE DEF without, least
  <2> QED
    BY <1>1, <1>5, <2>1 DEF WithinBudget
<1>9. Evict(texts, current)[current + 1] = texts[current + 1]
  BY <1>1
<1>10. ASSUME current + 2 = Len(texts)
       PROVE  Evict(texts, current)[current + 2] = texts[current + 2]
  <2> DEFINE k == current + 1
  <2>1. \A i \in DOMAIN without(k) :
          i \in {current + 1, current + 2} \/ IsBlank(without(k)[i])
    BY <1>1, <1>2, <1>4, <1>10
  <2>2. current + 1 \in DOMAIN without(k) /\ current + 2 \in DOMAIN without(k)
    BY <1>1, <1>2, <1>10
  <2>3. CachedUnits(without(k)) <= MaxCached
    <3> HIDE DEF without, k
    <3> QED
      BY <1>3, <1>5, <2>1, <2>2, UnitsOfTwo
  <2>4. k \in enough
    BY <1>1, <1>10, <2>3
  <2>5. least <= current + 1 /\ least \in Nat
    BY <1>1, <1>7, <2>4
  <2> HIDE DEF least
  <2> QED
    BY <1>1, <1>10, <2>5
<1> QED
  BY <1>8, <1>9, <1>10
-----------------------------------------------------------------------------
(***************************************************************************)
(* Steps that none of this is about                                        *)
(***************************************************************************)
SameShelf(r, s) == s.texts = r.texts /\ s.anchors = r.anchors /\ s.current = r.current

SameBehind(r, s) ==
  /\ s.prefetching = r.prefetching /\ s.prefetch = r.prefetch /\ s.checkpoint = r.checkpoint
  /\ s.target = r.target /\ s.back = r.back /\ s.front = r.front

(* ... an entry of the archive may have been closed, though. *)
SameStock(r, s) ==
  /\ SameShelf(r, s) /\ SameBehind(r, s) /\ SameText(r, s)
  /\ s.rebuilding = r.rebuilding /\ s.work = r.work /\ s.workAnchor = r.workAnchor
  /\ s.inputEnded = r.inputEnded /\ s.chapterEnded = r.chapterEnded /\ s.active = r.active
  /\ s.size = r.size /\ (s.entryOpen => r.entryOpen)

(* A step that this is not about keeps the invariant. *)
LEMMA SameStocked ==
  ASSUME NEW r, NEW s, Stocked(r), SameStock(r, s)
  PROVE  Stocked(s)
<1>1. Flow(s)
  BY DEF Stocked, Flow, InPlace, Stuck, SameStock, SameShelf, SameText
<1>2. Shelf(s)
  BY DEF Stocked, Shelf, Showing, SameStock, SameShelf
<1>3. Behind(s)
  BY DEF Stocked, Behind, Prefetches, OnScreen, Showing, NextReady, NextThere, SameStock,
     SameShelf, SameBehind
<1> QED
  BY <1>1, <1>2, <1>3 DEF Stocked

(* ... and what is shown. *)
LEMMA SameShown ==
  ASSUME NEW r, NEW s, SameShelf(r, s)
  PROVE  /\ Showing(s) <=> Showing(r)
         /\ OnScreen(s) <=> OnScreen(r)
BY DEF SameShelf, Showing, OnScreen

(* So are a result to the caller ... *)
LEMMA ReturnSame ==
  ASSUME NEW r \in Readers, NEW w
  PROVE  SameStock(r, Return(r, w)) /\ SameStock(r, Idle(r))
BY DEF Return, Idle, Readers, SameStock, SameShelf, SameBehind, SameText

(* ... and an error, *)
LEMMA ErrorSame ==
  ASSUME NEW r \in Readers, NEW e, NEW w
  PROVE  SameStock(r, [r EXCEPT !.error = e, !.result = w])
BY DEF Readers, SameStock, SameShelf, SameBehind, SameText

(* as are two such steps. *)
LEMMA SameTrans ==
  ASSUME NEW r, NEW s, NEW t, SameStock(r, s), SameStock(s, t)
  PROVE  SameStock(r, t)
BY DEF SameStock, SameShelf, SameBehind, SameText

(* Only a prefetch that became Ready puts a page behind the current one. *)
LEMMA PrefetchStocked ==
  ASSUME NEW r \in Readers, Stocked(r), NEW p, p # "Ready"
  PROVE  /\ Stocked([r EXCEPT !.prefetch = p]) /\ SameShelf(r, [r EXCEPT !.prefetch = p])
         /\ ~NextReady([r EXCEPT !.prefetch = p])
<1> DEFINE s == [r EXCEPT !.prefetch = p]
<1>1. /\ SameShelf(r, s) /\ SameText(r, s) /\ s.prefetch = p
      /\ s.prefetching = r.prefetching /\ s.checkpoint = r.checkpoint
      /\ s.target = r.target /\ s.back = r.back
      /\ s.rebuilding = r.rebuilding /\ s.work = r.work /\ s.workAnchor = r.workAnchor
      /\ s.inputEnded = r.inputEnded /\ s.chapterEnded = r.chapterEnded /\ s.active = r.active
      /\ s.entryOpen = r.entryOpen
  BY DEF Readers, SameShelf, SameText
<1> HIDE DEF s
<1>2. Flow(s)
  BY <1>1 DEF Stocked, Flow, InPlace, Stuck, SameShelf, SameText
<1>3. Shelf(s)
  BY <1>1 DEF Stocked, Shelf, Showing, SameShelf
<1>4. Behind(s) /\ ~NextReady(s)
  BY <1>1 DEF Stocked, Behind, Prefetches, OnScreen, Showing, NextReady, SameShelf
<1> QED
  BY <1>1, <1>2, <1>3, <1>4 DEF Stocked, s

(* A prefetched page that is no longer wanted is taken back. *)
LEMMA InvalidateStocked ==
  ASSUME NEW r \in Readers, Stocked(r)
  PROVE  /\ Stocked(InvalidateReadyPrefetch(r)) /\ ~NextReady(InvalidateReadyPrefetch(r))
         /\ SameShelf(r, InvalidateReadyPrefetch(r))
<1> DEFINE p == IF r.prefetch = "Ready" THEN "Idle" ELSE r.prefetch
<1>1. InvalidateReadyPrefetch(r) = [r EXCEPT !.prefetch = p] /\ p # "Ready"
  BY DEF InvalidateReadyPrefetch
<1> HIDE DEF p
<1> QED
  BY <1>1, PrefetchStocked

(* Cancelling a prefetch changes neither the pages nor the one in front. *)
LEMMA CancelStocked ==
  ASSUME NEW r \in Readers, Stocked(r)
  PROVE  /\ Stocked(CancelPrefetch(r)) /\ SameShelf(r, CancelPrefetch(r))
         /\ CancelPrefetch(r).front = r.front /\ CancelPrefetch(r).size = r.size
         /\ CancelPrefetch(r).workAnchor = r.workAnchor
<1> DEFINE p == RequestCancel(r.prefetch)
<1>1. CancelPrefetch(r) = [r EXCEPT !.prefetch = p]
  BY DEF CancelPrefetch
<1>2. p = r.prefetch \/ p # "Ready"
  BY DEF RequestCancel
<1> HIDE DEF p
<1>3. /\ [r EXCEPT !.prefetch = p].front = r.front /\ [r EXCEPT !.prefetch = p].size = r.size
      /\ [r EXCEPT !.prefetch = p].workAnchor = r.workAnchor
  BY DEF Readers
<1>4. CASE p = r.prefetch
  <2>1. [r EXCEPT !.prefetch = p] = r
    BY <1>4 DEF Readers
  <2> QED
    BY <1>1, <2>1 DEF SameShelf
<1>5. CASE p # "Ready"
  BY <1>1, <1>3, <1>5, PrefetchStocked
<1> QED
  BY <1>2, <1>4, <1>5

(***************************************************************************)
(* Between two pages: what is about to be left running or not              *)
(***************************************************************************)
Settled(c) ==
  /\ WithinBudget(c.texts) /\ \A i \in DOMAIN c.anchors : Fillable(c.anchors[i])
  /\ Showing(c) \/ Fillable(c.workAnchor)
  /\ ~c.inputReady /\ ~c.layoutPending
  /\ c.inputEnded => c.offset = TextLength[c.chapter]
  /\ c.chapterEnded => c.seek = 0
  /\ c.prefetching \/ c.prefetch = "Ready" => DoubleBuffer /\ NextThere(c)

(* ... and the next one starts where the chapter is read. *)
Placed(c) ==
  c.chapterEnded \/ /\ c.chapter \in Linear /\ c.workAnchor.spine = c.chapter
                    /\ c.workAnchor.parserCheckpoint = c.pend + c.seek
                    /\ c.seek = 0 \/ c.pend = c.fed

(* A reader whose page is settled and placed may rest. *)
LEMMA RestsStocked ==
  ASSUME NEW c \in Readers, Settled(c), Placed(c), c.rebuilding = NoPage, ~c.active, ~c.prefetching
  PROVE  Stocked(c)
<1>1. Flow(c)
  <2>1. c.pend \in Nat /\ c.seek \in Nat /\ c.workAnchor.parserCheckpoint \in Nat
    BY DEF Readers, Anchors
  <2>2. ~c.chapterEnded => InPlace(c)
    BY <2>1 DEF Settled, Placed, InPlace
  <2> QED
    BY <2>2 DEF Flow, Settled
<1>2. Shelf(c)
  BY DEF Shelf, Settled
<1>3. Behind(c)
  BY DEF Behind, Settled, NextReady
<1> QED
  BY <1>1, <1>2, <1>3 DEF Stocked

(* The reader at rest, or between two steps, is settled. *)
LEMMA StockedSettled ==
  ASSUME NEW r \in Readers, Stocked(r), ~r.inputReady, ~r.layoutPending
  PROVE  Settled(r)
<1>1. r.current \in Nat /\ Len(r.texts) \in Nat
  BY LenProperties DEF Readers
<1>2. r.prefetching \/ r.prefetch = "Ready" => NextThere(r)
  BY <1>1 DEF Stocked, Behind, Prefetches, NextReady, NextThere
<1>3. r.chapterEnded => r.seek = 0
  BY DEF Stocked, Flow
<1> QED
  BY <1>2, <1>3 DEF Stocked, Flow, Shelf, Behind, Settled

(* A failure leaves the cached pages as they are, and the reader stuck. *)
LEMMA FailReaderStocked ==
  ASSUME NEW c \in Readers, Settled(c),
         c.chapterEnded \/ c.pend = c.fed \/ Len(c.texts) >= MaxHistory
  PROVE  /\ Stocked(FailReader(c)) /\ SameShelf(c, FailReader(c))
         /\ FailReader(c).front = c.front /\ FailReader(c).size = c.size
         /\ FailReader(c).prefetch = c.prefetch /\ FailReader(c).result = "Failed"
         /\ FailReader(c).active = FALSE /\ FailReader(c).prefetching = FALSE
         /\ FailReader(c).workAnchor = c.workAnchor
<1> DEFINE s == FailReader(c)
<1>1. /\ SameShelf(c, s) /\ SameText(c, s) /\ s.workAnchor = c.workAnchor
      /\ s.inputEnded = c.inputEnded /\ s.chapterEnded = c.chapterEnded
      /\ s.prefetch = c.prefetch /\ s.back = c.back /\ s.front = c.front /\ s.size = c.size
      /\ s.rebuilding = NoPage /\ s.entryOpen = FALSE /\ s.active = FALSE
      /\ s.prefetching = FALSE /\ s.result = "Failed"
  BY DEF FailReader, Readers, SameShelf, SameText
<1> HIDE DEF s
<1>2. Flow(s)
  BY <1>1 DEF Flow, Stuck, Settled, SameShelf, SameText
<1>3. Shelf(s)
  BY <1>1 DEF Shelf, Showing, Settled, SameShelf
<1>4. Behind(s)
  BY <1>1 DEF Behind, Settled, NextReady, NextThere, SameShelf
<1> QED
  BY <1>1, <1>2, <1>3, <1>4 DEF Stocked, s

(* The prefetch's own state matters only when it is Ready. *)
LEMMA MoveToStocked ==
  ASSUME NEW r \in Readers, Stocked(r), NEW p
  PROVE  /\ Stocked(MoveTo(r, p)) /\ SameShelf(r, MoveTo(r, p)) /\ MoveTo(r, p).front = r.front
         /\ MoveTo(r, p).size = r.size /\ MoveTo(r, p).rebuilding = r.rebuilding
         /\ (~r.prefetching => MoveTo(r, p) = r)
<1>1. CASE ~r.prefetching
  <2>1. MoveTo(r, p) = r
    BY <1>1 DEF MoveTo
  <2> QED
    BY <2>1 DEF SameShelf
<1>2. CASE r.prefetching
  <2> DEFINE q == Transition(r.prefetch, p)
  <2> DEFINE s == [r EXCEPT !.prefetch = q]
  <2>1. MoveTo(r, p) = s
    BY <1>2 DEF MoveTo
  <2> HIDE DEF q
  <2>2. /\ SameShelf(r, s) /\ SameText(r, s)
        /\ s.prefetching = r.prefetching /\ s.checkpoint = r.checkpoint
        /\ s.target = r.target /\ s.back = r.back /\ s.front = r.front /\ s.size = r.size
        /\ s.rebuilding = r.rebuilding /\ s.work = r.work /\ s.workAnchor = r.workAnchor
        /\ s.inputEnded = r.inputEnded /\ s.chapterEnded = r.chapterEnded
        /\ s.active = r.active /\ s.entryOpen = r.entryOpen
    BY DEF Readers, SameShelf, SameText
  <2> HIDE DEF s
  <2>3. Flow(s)
    BY <2>2 DEF Stocked, Flow, InPlace, Stuck, SameShelf, SameText
  <2>4. Shelf(s)
    BY <2>2 DEF Stocked, Shelf, Showing, SameShelf
  <2>5. Prefetches(s) /\ DoubleBuffer
    BY <1>2, <2>2 DEF Stocked, Behind, Prefetches, OnScreen, Showing, SameShelf
  <2>6. ~NextReady(s)
    <3>1. s.current \in Nat /\ Len(s.texts) \in Nat
      BY <2>2, LenProperties DEF Readers, SameShelf
    <3> QED
      BY <2>5, <3>1 DEF Prefetches, NextReady
  <2> QED
    BY <1>2, <2>1, <2>2, <2>3, <2>4, <2>5, <2>6 DEF Stocked, Behind
<1> QED
  BY <1>1, <1>2

(* The page is over. *)
LEMMA FinishStocked ==
  ASSUME NEW c \in Readers, Settled(c), Placed(c), c.rebuilding = NoPage
  PROVE  /\ Stocked(Finish(c)) /\ SameShelf(c, Finish(c))
         /\ Finish(c).front = c.front /\ Finish(c).size = c.size /\ Finish(c).active = FALSE
         /\ Finish(c).workAnchor = c.workAnchor /\ Finish(c).result = "Completed"
         /\ (~c.prefetching => Finish(c).prefetch = c.prefetch)
<1> DEFINE m == MoveTo(c, "Ready")
<1> DEFINE s == [m EXCEPT !.active = FALSE, !.prefetching = FALSE, !.result = "Completed"]
<1>1. Finish(c) = s
  BY DEF Finish
<1>2. m \in Readers
  BY MoveToKeeps DEF PrefetchStates, Keeps
<1>3. /\ SameShelf(c, m) /\ SameText(c, m)
      /\ m.workAnchor = c.workAnchor /\ m.inputEnded = c.inputEnded
      /\ m.chapterEnded = c.chapterEnded /\ m.back = c.back /\ m.front = c.front
      /\ m.size = c.size /\ m.rebuilding = c.rebuilding
      /\ (~c.prefetching => m.prefetch = c.prefetch)
  BY DEF MoveTo, Readers, SameShelf, SameText
<1> HIDE DEF m
<1>4. /\ SameShelf(m, s) /\ SameText(m, s)
      /\ s.workAnchor = m.workAnchor /\ s.inputEnded = m.inputEnded
      /\ s.chapterEnded = m.chapterEnded /\ s.back = m.back /\ s.front = m.front
      /\ s.size = m.size /\ s.rebuilding = m.rebuilding /\ s.prefetch = m.prefetch
      /\ s.active = FALSE /\ s.prefetching = FALSE /\ s \in Readers /\ s.result = "Completed"
  BY <1>2 DEF Readers, SameShelf, SameText, WorkResults
<1> HIDE DEF s
<1>5. s.prefetch = "Ready" => DoubleBuffer /\ NextThere(s)
  BY <1>3, <1>4 DEF Settled, NextThere, SameShelf
<1>6. Settled(s) /\ Placed(s)
  BY <1>3, <1>4, <1>5 DEF Settled, Placed, Showing, SameShelf, SameText
<1>7. Stocked(s)
  BY <1>3, <1>4, <1>6, RestsStocked
<1> QED
  BY <1>1, <1>3, <1>4, <1>7 DEF SameShelf
-----------------------------------------------------------------------------
(***************************************************************************)
(* Laying text out, on whatever canvas the page has                        *)
(***************************************************************************)
Laid(r, s) ==
  /\ SameShelf(r, s) /\ s.rebuilding = r.rebuilding /\ s.workAnchor = r.workAnchor
  /\ s.chapter = r.chapter /\ s.entryOpen = r.entryOpen /\ s.offset = r.offset
  /\ s.fed = r.fed /\ s.inputReady = r.inputReady /\ s.seek = r.seek
  /\ s.active = r.active /\ s.prefetching = r.prefetching /\ s.prefetch = r.prefetch
  /\ s.checkpoint = r.checkpoint /\ s.target = r.target /\ s.size = r.size
  /\ r.target = "back" => s.front = r.front /\ (r.back = r.work => s.back = s.work)
  /\ s.pend = r.pend + Taken(r) /\ Size(s.work) = Size(r.work) + Taken(r)

(* Laying out moves text on to the page, in order. *)
LEMMA LayOutLaid ==
  ASSUME NEW r, Resting(r), Fits(r)
  PROVE  /\ Laid(r, LayOut(r)) /\ LayOut(r).layoutPending = r.layoutPending
         /\ LayOut(r).inputEnded = r.inputEnded /\ LayOut(r).chapterEnded = r.chapterEnded
<1> DEFINE n == Taken(r)
<1> DEFINE page == IF IsBlank(r.work) THEN [spine |-> r.chapter, from |-> r.pend, to |-> r.pend + n]
                   ELSE [r.work EXCEPT !.to = @ + n]
<1> DEFINE s == [r EXCEPT !.work = page, !.pend = @ + n]
<1> DEFINE t == OnCanvas(s, r.target, page)
<1>1. n \in Nat
  BY TakenBounds
<1>2. /\ r \in Readers /\ r.pend \in Nat
      /\ r.work \in Texts /\ r.work.from \in Nat /\ r.work.to \in Nat
  BY DEF Resting, Readers, Texts
<1>3. LayOut(r) = IF n = 0 THEN r ELSE t
  BY DEF LayOut
<1>4. CASE n = 0
  <2>1. LayOut(r) = r /\ r.pend + n = r.pend /\ Size(r.work) + n = Size(r.work)
    BY <1>2, <1>3, <1>4 DEF Size
  <2> HIDE DEF n
  <2> QED
    BY <2>1 DEF Laid, SameShelf, n
<1>5. CASE n # 0
  <2>1. Size(page) = Size(r.work) + n
    <3>1. CASE IsBlank(r.work)
      BY <1>1, <1>2, <3>1 DEF IsBlank, Size
    <3>2. CASE ~IsBlank(r.work)
      <4>1. page = [r.work EXCEPT !.to = @ + n]
        BY <3>2
      <4>2. page.from = r.work.from /\ page.to = r.work.to + n
        BY <1>2, <4>1 DEF Texts
      <4> HIDE DEF page, n
      <4> QED
        BY <1>1, <1>2, <4>2 DEF Size
    <3> QED
      BY <3>1, <3>2
  <2>2. LayOut(r) = t
    BY <1>3, <1>5
  <2> HIDE DEF page, n
  <2>3. /\ t.texts = r.texts /\ t.anchors = r.anchors /\ t.current = r.current
        /\ t.rebuilding = r.rebuilding /\ t.workAnchor = r.workAnchor
        /\ t.chapter = r.chapter /\ t.entryOpen = r.entryOpen /\ t.offset = r.offset
        /\ t.fed = r.fed /\ t.inputReady = r.inputReady /\ t.inputEnded = r.inputEnded
        /\ t.layoutPending = r.layoutPending /\ t.seek = r.seek /\ t.chapterEnded = r.chapterEnded
    BY <1>2 DEF Readers, OnCanvas
  <2>4. /\ t.active = r.active /\ t.prefetching = r.prefetching /\ t.prefetch = r.prefetch
        /\ t.checkpoint = r.checkpoint /\ t.target = r.target /\ t.size = r.size
        /\ t.work = page /\ t.pend = r.pend + n
    BY <1>2 DEF Readers, OnCanvas
  <2>5. r.target = "back" => t.front = r.front /\ t.back = page
    BY <1>2 DEF Readers, OnCanvas
  <2> HIDE DEF t
  <2>6. Laid(r, t)
    BY <2>1, <2>3, <2>4, <2>5 DEF Laid, SameShelf, n
  <2> QED
    BY <2>2, <2>3, <2>6
<1> QED
  BY <1>4, <1>5

(* A full page is not blank, and what is left over when it is not full is  *)
(* nothing.                                                                *)
LEMMA FullOrAll ==
  ASSUME NEW r, Resting(r), Fits(r)
  PROVE  /\ PageFull(r) => Size(r.work) + Taken(r) > 0
         /\ ~PageFull(r) => r.pend + Taken(r) = r.fed
<1>1. Lines[r.size][r.family] \in Nat \ {0}
  BY BookFacts DEF Resting, Readers
<1>2. r.work.from \in Nat /\ r.work.to \in Nat /\ r.fed \in Nat /\ r.pend \in Nat
  BY DEF Resting, Readers, Texts
<1>3. /\ Size(r.work) \in Nat /\ Room(r) \in Nat /\ Pending(r) \in Nat
      /\ Size(r.work) + Room(r) > 0 /\ r.pend + Pending(r) = r.fed
  <2>1. Size(r.work) \in Nat /\ Size(r.work) <= Lines[r.size][r.family]
    BY <1>2 DEF Fits, Size
  <2>2. Room(r) \in Nat /\ Size(r.work) + Room(r) > 0
    BY <1>1, <2>1 DEF Room
  <2>3. Pending(r) \in Nat /\ r.pend + Pending(r) = r.fed
    BY <1>2 DEF Resting, TextInOrder, Pending
  <2> QED
    BY <2>1, <2>2, <2>3
<1>4. Taken(r) = IF Room(r) <= Pending(r) THEN Room(r) ELSE Pending(r)
  BY <1>3, MinPair DEF Taken
<1>5. ASSUME PageFull(r) PROVE Size(r.work) + Taken(r) > 0
  <2>1. Pending(r) > Room(r) \/ Taken(r) > 0
    BY <1>5, <1>3, <1>4 DEF PageFull
  <2> QED
    BY <1>3, <1>4, <2>1
<1>6. ASSUME ~PageFull(r) PROVE r.pend + Taken(r) = r.fed
  <2>1. ~(Pending(r) > Room(r))
    BY <1>6 DEF PageFull
  <2>2. Taken(r) = Pending(r)
    BY <1>3, <1>4, <2>1
  <2> QED
    BY <1>3, <2>2
<1> QED
  BY <1>5, <1>6
-----------------------------------------------------------------------------
(***************************************************************************)
(* Committing a page with text: it is the page on the screen, or behind    *)
(* the one on the screen if it was prefetched.                             *)
(***************************************************************************)
Due(r) ==
  /\ SmallPages(r.texts) /\ \A i \in DOMAIN r.anchors : Fillable(r.anchors[i])
  /\ Fillable(r.workAnchor) /\ ~IsBlank(r.work)
  /\ r.rebuilding # NoPage =>
       r.rebuilding < Len(r.anchors) /\ r.workAnchor = r.anchors[r.rebuilding + 1]
  /\ r.prefetching =>
       /\ r.back = r.work /\ r.rebuilding = NoPage
       /\ r.current + 1 >= Len(r.texts) /\ OnScreen(r)

Caught(r, c) ==
  /\ c \in Readers /\ WithinBudget(c.texts) /\ \A i \in DOMAIN c.anchors : Fillable(c.anchors[i])
  /\ Showing(c) /\ NextThere(c) /\ c.rebuilding = NoPage
  /\ c.workAnchor.spine = r.workAnchor.spine
  /\ c.workAnchor.parserCheckpoint = r.workAnchor.parserCheckpoint + Size(r.work)
  /\ SameText(r, c) /\ c.inputEnded = r.inputEnded /\ c.chapterEnded = r.chapterEnded
  /\ c.prefetching = r.prefetching /\ c.prefetch = r.prefetch
  /\ c.front = r.front /\ c.size = r.size /\ c.active = r.active
  /\ IF r.prefetching THEN c.current = r.current ELSE c.current + 1 = Len(c.texts)
  /\ r.rebuilding = r.current => CurrentAnchor(c) = CurrentAnchor(r)

(* Committing a page puts it at its place in the cache, and evicts others. *)
LEMMA CommitPageCaught ==
  ASSUME NEW r, Resting(r), Fits(r), Due(r)
  PROVE  Caught(r, CommitPage(r))
<1> DEFINE kept == IF r.rebuilding = NoPage THEN Len(r.texts) ELSE r.rebuilding
<1> DEFINE current == IF r.rebuilding = NoPage /\ r.prefetching THEN r.current ELSE kept
<1> DEFINE all == Append(SubSeq(r.texts, 1, kept), r.work)
<1> DEFINE texts == Evict(all, current)
<1> DEFINE anchors == Append(SubSeq(r.anchors, 1, kept), r.workAnchor)
<1> DEFINE next == [r.workAnchor EXCEPT !.parserCheckpoint = @ + Size(r.work)]
<1> DEFINE s == [r EXCEPT !.texts = texts, !.anchors = anchors, !.current = current,
                          !.rebuilding = NoPage, !.workAnchor = next, !.result = "Completed"]
<1>1. /\ r \in Readers /\ r.texts \in Seq(Texts) /\ r.anchors \in Seq(Anchors)
      /\ r.rebuilding \in Nat \cup {NoPage} /\ r.work \in Texts /\ r.workAnchor \in Anchors
      /\ r.current \in Nat /\ Len(r.texts) \in Nat /\ Len(r.anchors) = Len(r.texts)
  BY LenProperties DEF Resting, Readers, CacheInv
<1>2. /\ kept \in Nat /\ kept <= Len(r.texts)
      /\ r.rebuilding # NoPage => kept = r.rebuilding /\ kept < Len(r.anchors)
      /\ r.rebuilding = NoPage => kept = Len(r.texts)
  BY <1>1 DEF Due, NoPage
<1>3. /\ current \in Nat /\ current <= kept
      /\ r.prefetching => current = r.current /\ (r.texts = <<>> \/ current + 1 = kept)
      /\ r.prefetching /\ r.texts = <<>> => current = kept
      /\ ~r.prefetching => current = kept
  <2>1. r.texts # <<>> => Len(r.texts) > 0
    BY <1>1, EmptySeq
  <2>2. r.texts = <<>> => Len(r.texts) = 0
    BY EmptySeq
  <2>3. r.current = 0 \/ r.current < Len(r.texts)
    BY DEF Resting, CacheInv
  <2> QED
    BY <1>1, <1>2, <2>1, <2>2, <2>3 DEF Due, NoPage
<1>4. CommitPage(r) = s
  BY DEF CommitPage
<1> HIDE DEF kept, current
<1>5. /\ SubSeq(r.texts, 1, kept) \in Seq(Texts) /\ Len(SubSeq(r.texts, 1, kept)) = kept
      /\ SubSeq(r.anchors, 1, kept) \in Seq(Anchors) /\ Len(SubSeq(r.anchors, 1, kept)) = kept
      /\ \A i \in 1 .. kept : /\ SubSeq(r.texts, 1, kept)[i] = r.texts[i]
                              /\ SubSeq(r.anchors, 1, kept)[i] = r.anchors[i]
  BY <1>1, <1>2, SubSeqProperties, ElementOfSeq
<1>6. /\ all \in Seq(Texts) /\ Len(all) = kept + 1 /\ all[kept + 1] = r.work
      /\ \A i \in 1 .. kept : all[i] = r.texts[i]
  BY <1>1, <1>5, AppendProperties
<1>7. /\ anchors \in Seq(Anchors) /\ Len(anchors) = kept + 1 /\ anchors[kept + 1] = r.workAnchor
      /\ \A i \in 1 .. kept : anchors[i] = r.anchors[i]
  BY <1>1, <1>5, AppendProperties
<1> HIDE DEF all, anchors
<1>8. DOMAIN all = 1 .. kept + 1 /\ DOMAIN anchors = 1 .. kept + 1
      /\ DOMAIN r.texts = 1 .. Len(r.texts) /\ DOMAIN r.anchors = 1 .. Len(r.texts)
  BY <1>1, <1>6, <1>7, LenProperties
<1>9. SmallPages(all)
  <2>1. r.work.from <= r.work.to /\ 2 * Size(r.work) <= MaxCached
    <3>1. Lines[r.size][r.family] \in Nat /\ 2 * Lines[r.size][r.family] <= MaxCached
      BY <1>1, BookFacts, ReaderAssumption DEF Readers
    <3>2. Size(r.work) \in Int
      BY <1>1 DEF Size, Texts
    <3> QED
      BY <3>1, <3>2, ReaderAssumption DEF Fits
  <2>2. ASSUME NEW i \in 1 .. kept + 1
        PROVE  all[i].from <= all[i].to /\ 2 * Size(all[i]) <= MaxCached
    <3>1. CASE i = kept + 1
      BY <1>6, <2>1, <3>1
    <3>2. CASE i # kept + 1
      <4>1. i \in 1 .. kept /\ i \in DOMAIN r.texts
        BY <1>1, <1>2, <1>8, <3>2
      <4> QED
        BY <1>6, <4>1 DEF Due, SmallPages
    <3> QED
      BY <3>1, <3>2
  <2> QED
    BY <1>8, <2>2 DEF SmallPages
<1>10. /\ texts \in Seq(Texts) /\ Len(texts) = kept + 1 /\ WithinBudget(texts)
       /\ texts[current + 1] = all[current + 1]
       /\ current + 1 = kept => texts[current + 2] = all[current + 2]
  <2>1. texts \in Seq(Texts) /\ Len(texts) = kept + 1
    BY <1>6, EvictTyped
  <2>2. current < Len(all) /\ (current + 1 = kept <=> current + 2 = Len(all))
    BY <1>2, <1>3, <1>6
  <2> QED
    BY <1>3, <1>6, <1>9, <2>1, <2>2, EvictSpares
<1>11. next.spine = r.workAnchor.spine
       /\ next.parserCheckpoint = r.workAnchor.parserCheckpoint + Size(r.work)
  BY <1>1 DEF Anchors
<1> HIDE DEF texts, next
<1>12. \A i \in DOMAIN anchors : Fillable(anchors[i])
  <2> SUFFICES ASSUME NEW i \in 1 .. kept + 1 PROVE Fillable(anchors[i])
    BY <1>8
  <2>1. CASE i = kept + 1
    BY <1>7, <2>1 DEF Due
  <2>2. CASE i # kept + 1
    <3>1. i \in 1 .. kept /\ i \in DOMAIN r.anchors
      BY <1>1, <1>2, <1>8, <2>2
    <3> QED
      BY <1>7, <3>1 DEF Due
  <2> QED
    BY <2>1, <2>2
<1>13. /\ s.texts = texts /\ s.anchors = anchors /\ s.current = current /\ s.rebuilding = NoPage
       /\ s.workAnchor = next /\ SameText(r, s) /\ s.inputEnded = r.inputEnded
       /\ s.chapterEnded = r.chapterEnded /\ s.prefetching = r.prefetching
       /\ s.prefetch = r.prefetch /\ s.front = r.front /\ s.back = r.back /\ s.size = r.size
       /\ s.active = r.active
  BY <1>1 DEF Readers, SameText
<1>14. s \in Readers
  BY <1>4, CommitPageResting DEF Resting
<1> HIDE DEF s
<1>15. Showing(s)
  <2>1. ~IsBlank(all[current + 1])
    <3>1. CASE current = kept
      BY <1>6, <3>1 DEF Due
    <3>2. CASE current # kept
      <4>1. r.prefetching /\ r.texts # <<>> /\ current = r.current /\ current + 1 = kept
        BY <1>3, <3>2
      <4>2. current + 1 \in 1 .. kept
        BY <1>2, <1>3, <4>1
      <4> QED
        BY <1>6, <4>1, <4>2 DEF Due, OnScreen, Showing
    <3> QED
      BY <3>1, <3>2
  <2>2. texts # <<>>
    BY <1>2, <1>10, EmptySeq
  <2> QED
    BY <1>10, <1>13, <2>1, <2>2 DEF Showing
<1>16. NextThere(s)
  <2> SUFFICES ASSUME current + 1 < kept + 1
               PROVE  ~IsBlank(texts[current + 2]) /\ s.back = texts[current + 2]
    BY <1>10, <1>13 DEF NextThere
  <2>1. r.prefetching /\ r.texts # <<>> /\ current + 1 = kept
    BY <1>2, <1>3
  <2>2. texts[current + 2] = r.work
    BY <1>2, <1>3, <1>6, <1>10, <2>1
  <2> QED
    BY <1>13, <2>1, <2>2 DEF Due
<1>17. IF r.prefetching THEN s.current = r.current ELSE s.current + 1 = Len(s.texts)
  BY <1>3, <1>10, <1>13
<1>18. ASSUME r.rebuilding = r.current PROVE CurrentAnchor(s) = CurrentAnchor(r)
  <2>1. r.rebuilding # NoPage /\ r.rebuilding \in Nat
    BY <1>1, <1>18 DEF NoPage
  <2>2. kept = r.current /\ current = kept /\ r.current < Len(r.anchors)
    BY <1>2, <1>3, <1>18, <2>1 DEF Due
  <2>3. CurrentAnchor(r) = r.workAnchor
    BY <1>18, <2>1, <2>2 DEF CurrentAnchor, Due
  <2>4. CurrentAnchor(s) = anchors[kept + 1]
    BY <1>2, <1>7, <1>13, <2>2 DEF CurrentAnchor
  <2> QED
    BY <1>7, <2>3, <2>4
<1> QED
  BY <1>4, <1>10, <1>11, <1>12, <1>13, <1>14, <1>15, <1>16, <1>17, <1>18 DEF Caught

(* The page in progress is laid out in its place. *)
OnPage(m) ==
  /\ WithinBudget(m.texts) /\ \A i \in DOMAIN m.anchors : Fillable(m.anchors[i])
  /\ Showing(m) \/ Fillable(m.workAnchor)
  /\ m.chapter \in Linear /\ m.workAnchor.spine = m.chapter
  /\ m.workAnchor.parserCheckpoint + Size(m.work) = m.pend /\ m.seek = 0
  /\ ~m.inputReady
  /\ m.rebuilding # NoPage =>
       m.rebuilding < Len(m.anchors) /\ m.workAnchor = m.anchors[m.rebuilding + 1]
  /\ m.prefetching =>
       m.target = "back" /\ m.back = m.work /\ m.rebuilding = NoPage /\ OnScreen(m)
  /\ m.prefetching \/ m.prefetch = "Ready" => DoubleBuffer /\ m.current + 1 >= Len(m.texts)

(* Text that was laid out is between the anchor and the place in the chapter. *)
LEMMA LaidSettled ==
  ASSUME NEW m \in Readers, OnPage(m), NEW x, Laid(m, x), ~x.layoutPending,
         x.inputEnded => x.offset = TextLength[x.chapter]
  PROVE  Settled(x)
<1>1. m.current \in Nat /\ Len(m.texts) \in Nat
  BY LenProperties DEF Readers
<1>2. x.prefetching \/ x.prefetch = "Ready" => DoubleBuffer /\ NextThere(x)
  BY <1>1 DEF OnPage, Laid, SameShelf, NextThere
<1> QED
  BY <1>2 DEF OnPage, Laid, SameShelf, Settled, Showing

(* A page that was laid out is committed whole, or the history is full. *)
LEMMA CommitLaid ==
  ASSUME NEW m, Resting(m), Fits(m), OnPage(m), ~m.chapterEnded,
         NEW x, Resting(x), Fits(x), Laid(m, x), ~x.layoutPending, ~IsBlank(x.work),
         x.inputEnded => x.offset = TextLength[x.chapter]
  PROVE  IF Commit(x).result = "Failed"
         THEN Commit(x) = FailReader(x) /\ Len(x.texts) >= MaxHistory
         ELSE Caught(x, Commit(x)) /\ Settled(Commit(x)) /\ Placed(Commit(x))
<1>1. /\ m \in Readers /\ x \in Readers /\ Settled(x)
      /\ m.pend \in Nat /\ m.fed \in Nat /\ m.offset \in Nat /\ TextLength[m.chapter] \in Nat
      /\ m.workAnchor.parserCheckpoint \in Nat /\ Size(m.work) \in Int /\ Size(x.work) \in Int
  <2>1. m \in Readers /\ x \in Readers
    BY DEF Resting
  <2>2. Settled(x)
    BY <2>1, LaidSettled
  <2>3. /\ m.pend \in Nat /\ m.fed \in Nat /\ m.offset \in Nat /\ m.workAnchor \in Anchors
        /\ m.work \in Texts /\ x.work \in Texts
    BY <2>1 DEF Readers
  <2>4. TextLength[m.chapter] \in Nat
    BY BookFacts DEF OnPage
  <2>5. m.workAnchor.parserCheckpoint \in Nat
    BY <2>3 DEF Anchors
  <2>6. Size(m.work) \in Int /\ Size(x.work) \in Int
    BY <2>3 DEF Texts, Size
  <2> QED
    BY <2>1, <2>2, <2>3, <2>4, <2>5, <2>6
<1>2. CASE CommitRefused(x)
  <2>1. Commit(x) = FailReader(x)
    BY <1>2 DEF Commit
  <2>2. FailReader(x).result = "Failed"
    BY <1>1, FailReaderKeeps
  <2>3. Len(x.texts) >= MaxHistory
    BY <1>2, RestingValid DEF CommitRefused
  <2> QED
    BY <2>1, <2>2, <2>3
<1>3. CASE ~CommitRefused(x)
  <2> DEFINE c == Commit(x)
  <2>1. c = CommitPage(x)
    BY <1>3 DEF Commit
  <2>2. x.workAnchor.parserCheckpoint + Size(x.work) = x.pend
    BY <1>1, TakenBounds DEF OnPage, Laid
  <2>3. Fillable(x.workAnchor)
    <3>1. x.pend <= TextLength[m.chapter] /\ x.pend \in Nat
      <4>1. x.pend <= x.fed /\ x.fed <= x.offset /\ x.fed = m.fed /\ x.offset = m.offset
        BY DEF Resting, TextInOrder, Laid
      <4>2. m.offset <= TextLength[m.chapter] /\ x.pend \in Nat
        BY <1>1 DEF Resting, TextInOrder, Readers
      <4> QED
        BY <1>1, <4>1, <4>2
    <3>2. Size(x.work) > 0
      <4>1. x.work.from \in Nat /\ x.work.to \in Nat
        BY <1>1 DEF Readers, Texts
      <4> QED
        BY <4>1 DEF IsBlank, Fits, Size
    <3>3. x.workAnchor = m.workAnchor /\ m.workAnchor.spine = m.chapter
      BY DEF OnPage, Laid
    <3> QED
      BY <1>1, <2>2, <3>1, <3>2, <3>3 DEF Fillable
  <2>4. Due(x)
    <3>1. WithinBudget(x.texts) /\ \A i \in DOMAIN x.anchors : Fillable(x.anchors[i])
      BY DEF OnPage, Laid, SameShelf
    <3>2. x.rebuilding # NoPage =>
            x.rebuilding < Len(x.anchors) /\ x.workAnchor = x.anchors[x.rebuilding + 1]
      BY DEF OnPage, Laid, SameShelf
    <3>3. x.prefetching => /\ x.back = x.work /\ x.rebuilding = NoPage
                           /\ x.current + 1 >= Len(x.texts) /\ OnScreen(x)
      BY SameShown DEF OnPage, Laid, SameShelf
    <3> QED
      BY <2>3, <3>1, <3>2, <3>3 DEF Due, WithinBudget
  <2>5. Caught(x, c) /\ c.result = "Completed"
    BY <2>1, <2>4, CommitPageCaught, CommitPageResting
  <2> HIDE DEF c
  <2>6. Settled(c)
    <3>1. ~c.inputReady /\ ~c.layoutPending /\ (c.inputEnded => c.offset = TextLength[c.chapter])
      BY <2>5 DEF Caught, SameText, Laid, OnPage
    <3>2. c.chapterEnded => c.seek = 0
      BY <2>5 DEF Caught, SameText, Laid, OnPage
    <3>3. c.prefetching \/ c.prefetch = "Ready" => DoubleBuffer /\ NextThere(c)
      BY <2>5 DEF Caught, Laid, OnPage
    <3> QED
      BY <2>5, <3>1, <3>2, <3>3 DEF Settled, Caught
  <2>7. Placed(c)
    BY <2>2, <2>5, <1>1 DEF Placed, Caught, SameText, Laid, OnPage
  <2> QED
    BY <2>5, <2>6, <2>7 DEF c
<1> QED
  BY <1>2, <1>3

(***************************************************************************)
(* A step of the layout: the reader stays stocked, a page that was on the  *)
(* screen is still there, and a prefetch changes nothing in front of it.   *)
(***************************************************************************)
Advances(r, s) ==
  /\ Stocked(s) /\ s.size = r.size
  /\ OnScreen(r) => OnScreen(s)
  /\ r.prefetching => s.front = r.front /\ s.current = r.current
  /\ ~r.prefetching /\ ~NextReady(r) => ~NextReady(s)
  /\ s.active => s.rebuilding = r.rebuilding /\ s.current = r.current
  /\ r.rebuilding = r.current => CurrentAnchor(s) = CurrentAnchor(r)
  /\ s.result = "Completed" => Showing(s)

(* Being settled and placed is not disturbed, either. *)
LEMMA SettledSame ==
  ASSUME NEW r, NEW s, Settled(r), SameStock(r, s)
  PROVE  Settled(s) /\ (Placed(r) => Placed(s))
BY DEF Settled, Placed, Showing, NextThere, SameStock, SameShelf, SameBehind, SameText

(* A slice that leaves the cached pages alone advances. *)
LEMMA SameAdvances ==
  ASSUME NEW r \in Readers, Stocked(r), NEW s, Stocked(s), SameShelf(r, s), s.size = r.size,
         r.prefetching => s.front = r.front, s.active => s.rebuilding = r.rebuilding,
         ~r.prefetching => s.prefetch = r.prefetch, s.result = "Completed" => Showing(r)
  PROVE  Advances(r, s)
<1>1. r.rebuilding = r.current => r.current < Len(r.anchors)
  BY DEF Stocked, Shelf, Readers, NoPage
<1>2. OnScreen(r) => OnScreen(s)
  BY SameShown
<1>3. s.result = "Completed" => Showing(s)
  BY SameShown
<1>4. ~r.prefetching /\ ~NextReady(r) => ~NextReady(s)
  BY DEF NextReady, SameShelf
<1> QED
  BY <1>1, <1>2, <1>3, <1>4 DEF Advances, CurrentAnchor, SameShelf

(* A slice that commits a page advances. *)
LEMMA CommittedAdvances ==
  ASSUME NEW r, NEW q, SameShelf(r, q), q.rebuilding = r.rebuilding, q.size = r.size,
         q.prefetching = r.prefetching, q.workAnchor = r.workAnchor,
         r.prefetching => q.front = r.front,
         NEW c, Caught(q, c),
         NEW s, Stocked(s), SameShelf(c, s), s.front = c.front, s.size = c.size, ~s.active,
         s.workAnchor = c.workAnchor
  PROVE  Advances(r, s)
<1>1. Showing(s) /\ OnScreen(s)
  BY SameShown DEF Caught, OnScreen
<1>2. ~r.prefetching => ~NextReady(s)
  <2>1. c.current \in Nat /\ Len(c.texts) \in Nat
    BY LenProperties DEF Caught, Readers
  <2> QED
    BY <2>1 DEF Caught, NextReady, SameShelf
<1>3. r.rebuilding = r.current => CurrentAnchor(s) = CurrentAnchor(r)
  <2>1. CurrentAnchor(s) = CurrentAnchor(c) /\ CurrentAnchor(q) = CurrentAnchor(r)
    BY DEF CurrentAnchor, SameShelf
  <2> QED
    BY <2>1 DEF Caught, SameShelf
<1>4. r.prefetching => s.front = r.front /\ s.current = r.current
  BY DEF Caught, SameShelf
<1>5. s.size = r.size
  BY DEF Caught
<1> QED
  BY <1>1, <1>2, <1>3, <1>4, <1>5 DEF Advances
-----------------------------------------------------------------------------
(***************************************************************************)
(* continueLayout(): the page laid out so far, when the chapter is read on *)
(* after it, and when it was the last of its chapter.                      *)
(***************************************************************************)
LaidOut(r) == [LayOut(MoveTo(r, "LayingOut")) EXCEPT !.layoutPending = FALSE]
ReadOn(r) == [LaidOut(r) EXCEPT !.inputEnded = FALSE]
Ended(r) == [LaidOut(r) EXCEPT !.inputEnded = FALSE, !.chapterEnded = TRUE]

(* Where layout goes on, the page in progress is in its place. *)
LEMMA LayingOnPage ==
  ASSUME NEW r, ReaderInv(r), Stocked(r), r.active, r.layoutPending,
         NEW m, m = MoveTo(r, "LayingOut")
  PROVE  /\ Resting(m) /\ Fits(m) /\ OnPage(m) /\ Stocked(m) /\ ~m.chapterEnded
         /\ m.active /\ m.fed = m.offset /\ m.inputEnded = r.inputEnded
         /\ m.prefetching = r.prefetching /\ m.chapter = r.chapter /\ m.offset = r.offset
         /\ SameShelf(r, m) /\ m.rebuilding = r.rebuilding /\ m.size = r.size /\ m.front = r.front
         /\ m.workAnchor = r.workAnchor /\ (~r.prefetching => m.prefetch = r.prefetch)
         /\ (PageFull(m) <=> PageFull(r))
<1>1. r \in Readers /\ Resting(r) /\ Fits(r) /\ ~r.chapterEnded
  BY DEF ReaderInv, Resting
<1>2. Keeps(r, m) /\ Alike(r, m) /\ GoesOn(r, m)
  BY <1>1, MoveToKeeps, MoveToAlike DEF PrefetchStates
<1>3. /\ Stocked(m) /\ SameShelf(r, m) /\ m.front = r.front /\ m.size = r.size
      /\ m.rebuilding = r.rebuilding /\ (~r.prefetching => m.prefetch = r.prefetch)
  BY <1>1, MoveToStocked
<1>4. m.inputEnded = r.inputEnded
  BY <1>1 DEF MoveTo, Readers
<1>5. Resting(m) /\ Fits(m) /\ ~m.chapterEnded /\ m.active /\ m.layoutPending
      /\ m.prefetching = r.prefetching /\ m.workAnchor = r.workAnchor
      /\ m.chapter = r.chapter /\ m.offset = r.offset
  BY <1>1, <1>2, KeepsResting DEF Keeps, GoesOn, Alike, AlikeButWork, SamePlace, SameText
<1>6. PageFull(m) <=> PageFull(r)
  BY <1>2 DEF Keeps, PageFull, Taken, Room, Pending
<1>7. OnPage(m)
  <2>1. m.current \in Nat /\ Len(m.texts) \in Nat /\ m.pend \in Nat
    BY <1>5, LenProperties DEF Resting, Readers
  <2>2. InPlace(m)
    BY <1>3, <1>5 DEF Stocked, Flow, Stuck
  <2>3. /\ m.chapter \in Linear /\ m.workAnchor.spine = m.chapter /\ m.seek = 0
        /\ m.workAnchor.parserCheckpoint + Size(m.work) = m.pend /\ ~m.inputReady
    BY <1>3, <1>5, <2>1, <2>2 DEF Stocked, Flow, InPlace
  <2>4. m.prefetching \/ m.prefetch = "Ready" => DoubleBuffer /\ m.current + 1 >= Len(m.texts)
    BY <1>3, <1>5, <2>1 DEF Stocked, Behind, Prefetches, NextReady
  <2> QED
    BY <1>3, <2>3, <2>4 DEF OnPage, Stocked, Shelf, Behind, Prefetches
<1> QED
  BY <1>3, <1>4, <1>5, <1>6, <1>7 DEF Stocked, Flow

(* The three ends of a slice of layout: more to come, read on, chapter over. *)
LEMMA LaidPages ==
  ASSUME NEW r, ReaderInv(r), Stocked(r), r.active, r.layoutPending,
         NEW m, m = MoveTo(r, "LayingOut")
  PROVE  /\ \A x \in {LaidOut(r), ReadOn(r), Ended(r)} :
              Resting(x) /\ Fits(x) /\ Laid(m, x) /\ ~x.layoutPending
         /\ LaidOut(r).inputEnded = r.inputEnded /\ ~LaidOut(r).chapterEnded
         /\ ~ReadOn(r).inputEnded /\ ~ReadOn(r).chapterEnded
         /\ ~Ended(r).inputEnded /\ Ended(r).chapterEnded
         /\ Ended(r).work = LaidOut(r).work /\ ReadOn(r).work = LaidOut(r).work
<1> DEFINE l == LayOut(m)
<1> DEFINE laid == [l EXCEPT !.layoutPending = FALSE]
<1> DEFINE read == [laid EXCEPT !.inputEnded = FALSE]
<1> DEFINE ended == [laid EXCEPT !.inputEnded = FALSE, !.chapterEnded = TRUE]
<1>0. LaidOut(r) = laid /\ ReadOn(r) = read /\ Ended(r) = ended
  BY DEF LaidOut, ReadOn, Ended
<1>1. Resting(m) /\ Fits(m) /\ ~m.chapterEnded /\ m.inputEnded = r.inputEnded
  BY LayingOnPage
<1>2. /\ Resting(l) /\ Fits(l) /\ l \in Readers /\ Laid(m, l)
      /\ l.inputEnded = r.inputEnded /\ ~l.chapterEnded
  BY <1>1, LayOutExtends, LayOutLaid DEF Extends, Resting
<1> HIDE DEF l
<1>3. /\ laid \in Readers /\ Resting(laid) /\ Fits(laid)
      /\ laid.layoutPending = FALSE /\ laid.inputEnded = r.inputEnded /\ ~laid.chapterEnded
  <2>1. laid \in Readers
    BY <1>2 DEF Readers
  <2>2. Keeps(l, laid)
    BY <1>2, <2>1 DEF Keeps, Readers
  <2>3. /\ laid.layoutPending = FALSE /\ laid.inputEnded = l.inputEnded
        /\ laid.chapterEnded = l.chapterEnded
    BY <1>2 DEF Readers
  <2> HIDE DEF laid
  <2> QED
    BY <1>2, <2>1, <2>2, <2>3, KeepsResting
<1>4. Laid(m, laid)
  <2>1. /\ SameShelf(l, laid) /\ laid.rebuilding = l.rebuilding /\ laid.workAnchor = l.workAnchor
        /\ laid.chapter = l.chapter /\ laid.entryOpen = l.entryOpen /\ laid.offset = l.offset
        /\ laid.fed = l.fed /\ laid.inputReady = l.inputReady /\ laid.seek = l.seek
        /\ laid.active = l.active /\ laid.prefetching = l.prefetching
        /\ laid.prefetch = l.prefetch /\ laid.checkpoint = l.checkpoint
        /\ laid.target = l.target /\ laid.size = l.size /\ laid.front = l.front
        /\ laid.back = l.back /\ laid.work = l.work /\ laid.pend = l.pend
    BY <1>2 DEF Readers, SameShelf
  <2> HIDE DEF laid
  <2> QED
    BY <1>2, <2>1 DEF Laid, SameShelf
<1> HIDE DEF laid
<1>5. ASSUME NEW x, x \in {read, ended}
      PROVE  /\ x \in Readers /\ Laid(m, x) /\ x.layoutPending = FALSE /\ x.inputEnded = FALSE
             /\ x.work = laid.work
  <2>0. x = read \/ x = ended
    BY <1>5
  <2>1. x \in Readers /\ x.inputEnded = FALSE /\ x.layoutPending = FALSE
    <3>1. CASE x = read
      BY <1>3, <3>1 DEF Readers
    <3>2. CASE x = ended
      BY <1>3, <3>2 DEF Readers
    <3> QED
      BY <2>0, <3>1, <3>2
  <2>2. /\ SameShelf(laid, x) /\ x.rebuilding = laid.rebuilding /\ x.workAnchor = laid.workAnchor
        /\ x.chapter = laid.chapter /\ x.entryOpen = laid.entryOpen /\ x.offset = laid.offset
        /\ x.fed = laid.fed /\ x.inputReady = laid.inputReady /\ x.seek = laid.seek
        /\ x.active = laid.active /\ x.prefetching = laid.prefetching
        /\ x.prefetch = laid.prefetch /\ x.checkpoint = laid.checkpoint
        /\ x.target = laid.target /\ x.size = laid.size /\ x.front = laid.front
        /\ x.back = laid.back /\ x.work = laid.work /\ x.pend = laid.pend
    <3>1. CASE x = read
      BY <1>3, <3>1 DEF Readers, SameShelf
    <3>2. CASE x = ended
      BY <1>3, <3>2 DEF Readers, SameShelf
    <3> QED
      BY <2>0, <3>1, <3>2
  <2> HIDE DEF read, ended
  <2>3. Laid(m, x)
    BY <1>4, <2>2 DEF Laid, SameShelf
  <2> QED
    BY <2>1, <2>2, <2>3
<1>6. /\ read.chapterEnded = laid.chapterEnded /\ ended.chapterEnded = TRUE
      /\ read.family = laid.family /\ ended.family = laid.family
  BY <1>3 DEF Readers
<1> HIDE DEF read, ended
<1>7. ASSUME NEW x, x \in {read, ended}
      PROVE  Resting(x) /\ Fits(x)
  <2>1. x \in Readers /\ Laid(m, x) /\ x.work = laid.work /\ x.family = laid.family
    BY <1>5, <1>6, <1>7
  <2>2. x.chapterEnded \/ x.chapterEnded = laid.chapterEnded
    BY <1>6, <1>7
  <2> QED
    BY <1>3, <1>4, <2>1, <2>2
       DEF Laid, SameShelf, Resting, CacheInv, TextInOrder, Fits, Size
<1> QED
  BY <1>0, <1>3, <1>4, <1>5, <1>6, <1>7

(* The page is full: it is committed, and the next one starts behind it. *)
LEMMA FullAdvances ==
  ASSUME NEW r, ReaderInv(r), Stocked(r), r.active, r.layoutPending, PageFull(r),
         NEW f, f = Commit(ReadOn(r))
  PROVE  Advances(r, IF f.result = "Failed" THEN f ELSE Finish(f))
<1> DEFINE m == MoveTo(r, "LayingOut")
<1> DEFINE x == ReadOn(r)
<1>0. r \in Readers
  BY DEF ReaderInv, Resting
<1>1. /\ Resting(m) /\ Fits(m) /\ OnPage(m) /\ ~m.chapterEnded
      /\ m.prefetching = r.prefetching /\ SameShelf(r, m) /\ m.rebuilding = r.rebuilding
      /\ m.size = r.size /\ m.front = r.front /\ m.workAnchor = r.workAnchor
      /\ (~r.prefetching => m.prefetch = r.prefetch) /\ PageFull(m)
  BY LayingOnPage
<1>2. Resting(x) /\ Fits(x) /\ Laid(m, x) /\ ~x.layoutPending /\ ~x.inputEnded
  BY LaidPages
<1> HIDE DEF m, x
<1>3. /\ SameShelf(r, x) /\ x.rebuilding = r.rebuilding /\ x.size = r.size
      /\ x.prefetching = r.prefetching /\ x.workAnchor = r.workAnchor
      /\ (~r.prefetching => x.prefetch = r.prefetch) /\ (r.prefetching => x.front = r.front)
  BY <1>1, <1>2 DEF Laid, SameShelf, OnPage
<1>4. ~IsBlank(x.work)
  <2>1. Size(x.work) > 0
    BY <1>1, <1>2, FullOrAll DEF Laid
  <2>2. x.work.from \in Nat /\ x.work.to \in Nat
    BY <1>2 DEF Resting, Readers, Texts
  <2> QED
    BY <2>1, <2>2 DEF Size, IsBlank
<1>5. IF f.result = "Failed"
      THEN f = FailReader(x) /\ Len(x.texts) >= MaxHistory
      ELSE Caught(x, f) /\ Settled(f) /\ Placed(f)
  BY <1>1, <1>2, <1>4, CommitLaid DEF x
<1>6. CASE f.result = "Failed"
  <2>1. Settled(x) /\ x \in Readers
    BY <1>1, <1>2, LaidSettled DEF Resting
  <2>2. /\ Stocked(f) /\ SameShelf(x, f) /\ f.front = x.front /\ f.size = x.size
        /\ f.prefetch = x.prefetch /\ f.active = FALSE
    BY <1>5, <1>6, <2>1, FailReaderStocked
  <2>3. SameShelf(r, f)
    BY <1>3, <2>2 DEF SameShelf
  <2> QED
    BY <1>0, <1>3, <1>6, <2>2, <2>3, SameAdvances
<1>7. CASE f.result # "Failed"
  <2> DEFINE s == Finish(f)
  <2>1. Caught(x, f) /\ Settled(f) /\ Placed(f) /\ f \in Readers /\ f.rebuilding = NoPage
    BY <1>5, <1>7 DEF Caught
  <2>2. /\ Stocked(s) /\ SameShelf(f, s) /\ s.front = f.front /\ s.size = f.size
        /\ s.active = FALSE /\ s.workAnchor = f.workAnchor
    BY <2>1, FinishStocked
  <2> HIDE DEF s
  <2>3. Advances(r, s)
    BY <1>3, <2>1, <2>2, CommittedAdvances
  <2> QED
    BY <1>7, <2>3 DEF s
<1> QED
  BY <1>6, <1>7

(* The chapter's last page may have no text, and is none then. *)
LEMMA LastAdvances ==
  ASSUME NEW r, ReaderInv(r), Stocked(r), r.active, r.layoutPending, ~PageFull(r), r.inputEnded,
         NEW c, c = IF IsBlank(Ended(r).work) /\ Ended(r).texts # <<>>
                    THEN Return(Ended(r), "Completed") ELSE Commit(Ended(r))
  PROVE  Advances(r, IF c.result = "Failed" THEN c ELSE FailReader(c))
         /\ (c.result # "Failed" => Advances(r, Finish([c EXCEPT !.entryOpen = FALSE])))
<1> DEFINE m == MoveTo(r, "LayingOut")
<1> DEFINE x == Ended(r)
<1>0. r \in Readers
  BY DEF ReaderInv, Resting
<1>1. /\ Resting(m) /\ Fits(m) /\ OnPage(m) /\ ~m.chapterEnded /\ m.fed = m.offset
      /\ m.prefetching = r.prefetching /\ SameShelf(r, m) /\ m.rebuilding = r.rebuilding
      /\ m.size = r.size /\ m.front = r.front /\ m.workAnchor = r.workAnchor
      /\ m.chapter = r.chapter /\ m.offset = r.offset
      /\ (~r.prefetching => m.prefetch = r.prefetch) /\ ~PageFull(m)
  BY LayingOnPage
<1>2. Resting(x) /\ Fits(x) /\ Laid(m, x) /\ ~x.layoutPending /\ ~x.inputEnded /\ x.chapterEnded
  BY LaidPages
<1> HIDE DEF m
<1>3. /\ SameShelf(r, x) /\ x.rebuilding = r.rebuilding /\ x.size = r.size
      /\ x.prefetching = r.prefetching /\ x.workAnchor = r.workAnchor /\ x \in Readers
      /\ (~r.prefetching => x.prefetch = r.prefetch) /\ (r.prefetching => x.front = r.front)
  BY <1>1, <1>2 DEF Laid, SameShelf, OnPage, Resting
<1>4. Settled(x)
  BY <1>1, <1>2, LaidSettled DEF Resting
<1>5. x.pend = TextLength[r.chapter]
  <2>1. r.offset = TextLength[r.chapter]
    BY DEF Stocked, Flow
  <2>2. x.pend = m.fed
    BY <1>1, <1>2, FullOrAll DEF Laid
  <2> QED
    BY <1>1, <2>1, <2>2
<1>6. ASSUME IsBlank(x.work) PROVE Showing(r) /\ r.rebuilding = NoPage
  <2>1. x.work.from = x.work.to /\ x.work.from \in Nat
    BY <1>3, <1>6 DEF IsBlank, Readers, Texts
  <2>2. Size(x.work) = 0
    BY <2>1 DEF Size
  <2>3. /\ m.pend \in Nat /\ Taken(m) \in Nat /\ Size(m.work) \in Int
        /\ m.workAnchor.parserCheckpoint \in Nat
    <3>1. m.pend \in Nat /\ m.work \in Texts /\ m.workAnchor \in Anchors
      BY <1>1 DEF Resting, Readers
    <3>2. Size(m.work) \in Int
      BY <3>1 DEF Texts, Size
    <3> QED
      BY <1>1, <3>1, <3>2, TakenBounds DEF Anchors
  <2>4. m.workAnchor.parserCheckpoint + Size(m.work) = m.pend /\ x.pend = m.pend + Taken(m)
        /\ Size(x.work) = Size(m.work) + Taken(m)
    BY <1>1, <1>2 DEF OnPage, Laid
  <2>5. r.workAnchor.parserCheckpoint = TextLength[r.chapter]
    BY <1>1, <1>5, <2>2, <2>3, <2>4
  <2>6. ~Fillable(r.workAnchor)
    BY <1>1, <2>3, <2>5 DEF Fillable, OnPage
  <2>7. r.rebuilding \in Nat \cup {NoPage} /\ Len(r.anchors) \in Nat
    BY <1>0, LenProperties DEF Readers
  <2>8. r.rebuilding # NoPage => r.rebuilding + 1 \in DOMAIN r.anchors
    <3>1. DOMAIN r.anchors = 1 .. Len(r.anchors)
      BY <1>0, LenProperties DEF Readers
    <3> QED
      BY <2>7, <3>1 DEF Stocked, Shelf
  <2> QED
    BY <2>6, <2>8 DEF Stocked, Shelf
<1>7. CASE IsBlank(x.work) /\ x.texts # <<>>
  <2> DEFINE d == [c EXCEPT !.entryOpen = FALSE]
  <2>1. c = Return(x, "Completed")
    BY <1>7
  <2> HIDE DEF x
  <2>2. c \in Readers /\ c.result = "Completed" /\ SameStock(x, c)
    BY <1>3, <2>1, ReturnSame, ReturnKeeps DEF Keeps, WorkResults
  <2>3. d \in Readers /\ SameStock(c, d)
    BY <2>2 DEF Readers, SameStock, SameShelf, SameBehind, SameText
  <2> HIDE DEF d
  <2>4. Settled(c) /\ Settled(d) /\ Placed(d)
    BY <1>2, <1>4, <2>2, <2>3, SettledSame DEF Placed, SameStock
  <2>5. c.chapterEnded /\ d.rebuilding = NoPage /\ Showing(r)
    BY <1>2, <1>3, <1>6, <1>7, <2>2, <2>3 DEF SameStock
  <2>6. Advances(r, FailReader(c))
    <3> DEFINE s == FailReader(c)
    <3>1. /\ Stocked(s) /\ SameShelf(c, s) /\ s.front = c.front /\ s.size = c.size
          /\ s.prefetch = c.prefetch /\ s.active = FALSE /\ s.result = "Failed"
      BY <2>2, <2>4, <2>5, FailReaderStocked
    <3> HIDE DEF s
    <3>2. /\ SameShelf(r, s) /\ s.size = r.size /\ (r.prefetching => s.front = r.front)
          /\ (~r.prefetching => s.prefetch = r.prefetch)
      BY <1>3, <2>2, <3>1 DEF SameStock, SameShelf, SameBehind
    <3> QED
      BY <1>0, <3>1, <3>2, SameAdvances DEF s
  <2>7. Advances(r, Finish(d))
    <3> DEFINE s == Finish(d)
    <3>1. /\ Stocked(s) /\ SameShelf(d, s) /\ s.front = d.front /\ s.size = d.size
          /\ s.active = FALSE /\ (~d.prefetching => s.prefetch = d.prefetch)
      BY <2>3, <2>4, <2>5, FinishStocked
    <3> HIDE DEF s
    <3>2. /\ SameShelf(r, s) /\ s.size = r.size /\ (r.prefetching => s.front = r.front)
          /\ (~r.prefetching => s.prefetch = r.prefetch)
      BY <1>3, <2>2, <2>3, <3>1 DEF SameStock, SameShelf, SameBehind
    <3> QED
      BY <1>0, <2>5, <3>1, <3>2, SameAdvances DEF s
  <2> QED
    BY <2>2, <2>6, <2>7 DEF d
<1>8. CASE ~(IsBlank(x.work) /\ x.texts # <<>>)
  <2>1. c = Commit(x)
    BY <1>8
  <2>2. ~IsBlank(x.work)
    BY <1>3, <1>6, <1>8 DEF Showing, SameShelf
  <2> HIDE DEF x
  <2>3. IF c.result = "Failed"
        THEN c = FailReader(x)
        ELSE Caught(x, c) /\ Settled(c) /\ Placed(c)
    BY <1>1, <1>2, <2>1, <2>2, CommitLaid
  <2>4. CASE c.result = "Failed"
    <3>1. /\ Stocked(c) /\ SameShelf(x, c) /\ c.front = x.front /\ c.size = x.size
          /\ c.prefetch = x.prefetch /\ c.active = FALSE
      BY <1>2, <1>3, <1>4, <2>3, <2>4, FailReaderStocked
    <3>2. SameShelf(r, c)
      BY <1>3, <3>1 DEF SameShelf
    <3> QED
      BY <1>0, <1>3, <2>4, <3>1, <3>2, SameAdvances
  <2>5. CASE c.result # "Failed"
    <3> DEFINE d == [c EXCEPT !.entryOpen = FALSE]
    <3>1. Caught(x, c) /\ Settled(c) /\ Placed(c) /\ c \in Readers /\ c.chapterEnded
      BY <1>2, <2>3, <2>5 DEF Caught
    <3>2. d \in Readers /\ SameStock(c, d)
      BY <3>1 DEF Readers, SameStock, SameShelf, SameBehind, SameText
    <3> HIDE DEF d
    <3>3. Settled(d) /\ Placed(d) /\ d.rebuilding = NoPage
      BY <3>1, <3>2, SettledSame DEF SameStock, Caught
    <3>4. Advances(r, FailReader(c))
      <4> DEFINE s == FailReader(c)
      <4>1. /\ Stocked(s) /\ SameShelf(c, s) /\ s.front = c.front /\ s.size = c.size
            /\ s.active = FALSE /\ s.workAnchor = c.workAnchor
        BY <3>1, FailReaderStocked
      <4> HIDE DEF s
      <4> QED
        BY <1>3, <3>1, <4>1, CommittedAdvances DEF s
    <3>5. Advances(r, Finish(d))
      <4> DEFINE s == Finish(d)
      <4>1. /\ Stocked(s) /\ SameShelf(d, s) /\ s.front = d.front /\ s.size = d.size
            /\ s.active = FALSE /\ s.workAnchor = d.workAnchor
        BY <3>2, <3>3, FinishStocked
      <4> HIDE DEF s
      <4>2. SameShelf(c, s) /\ s.front = c.front /\ s.size = c.size /\ s.workAnchor = c.workAnchor
        BY <3>2, <4>1 DEF SameStock, SameShelf, SameBehind
      <4> QED
        BY <1>3, <3>1, <4>1, <4>2, CommittedAdvances DEF s
    <3> QED
      BY <2>5, <3>4, <3>5 DEF d
  <2> QED
    BY <2>4, <2>5
<1> QED
  BY <1>7, <1>8

(* Nothing done is an advance, too ... *)
LEMMA IdleStays ==
  ASSUME NEW r \in Readers, Stocked(r)
  PROVE  Advances(r, Idle(r))
<1>1. SameStock(r, Idle(r)) /\ Idle(r).result = "Idle"
  BY ReturnSame, IdleKeeps
<1>2. Stocked(Idle(r))
  BY <1>1, SameStocked
<1> QED
  BY <1>1, <1>2, SameAdvances DEF SameStock, SameBehind

(* ... and what the caller is told changes nothing. *)
LEMMA IdleAdvances ==
  ASSUME NEW r, NEW s \in Readers, Advances(r, s), NEW w
  PROVE  Advances(r, Idle(s)) /\ (w # "Completed" => Advances(r, Return(s, w)))
<1>1. ASSUME NEW v, v # "Completed" PROVE Advances(r, Return(s, v))
  <2> DEFINE t == Return(s, v)
  <2>1. SameStock(s, t) /\ t.result = v
    BY ReturnSame DEF Return, Readers
  <2> HIDE DEF t
  <2>2. Stocked(t)
    BY <2>1, SameStocked DEF Advances
  <2>3. CurrentAnchor(t) = CurrentAnchor(s) /\ (NextReady(t) <=> NextReady(s))
        /\ (OnScreen(t) <=> OnScreen(s))
    BY <2>1, SameShown DEF CurrentAnchor, NextReady, SameStock, SameShelf, SameBehind
  <2> QED
    BY <1>1, <2>1, <2>2, <2>3 DEF Advances, SameStock, SameShelf, SameBehind, t
<1>2. Advances(r, Idle(s))
  BY <1>1 DEF Idle
<1> QED
  BY <1>1, <1>2

(* Each slice of layout advances, whatever the archive answers. *)
LEMMA ContinueLayoutAdvances ==
  ASSUME NEW r, ReaderInv(r), Stocked(r), NEW ok
  PROVE  Advances(r, ContinueLayout(r, ok))
<1>0. r \in Readers
  BY DEF ReaderInv, Resting
<1>1. CASE ~(r.active /\ r.layoutPending)
  <2>1. ContinueLayout(r, ok) = Idle(r)
    BY <1>1 DEF ContinueLayout
  <2> QED
    BY <1>0, <2>1, IdleStays
<1>2. CASE r.active /\ r.layoutPending
  <2> DEFINE last == IF IsBlank(Ended(r).work) /\ Ended(r).texts # <<>>
                     THEN Return(Ended(r), "Completed") ELSE Commit(Ended(r))
  <2> DEFINE full == Commit(ReadOn(r))
  <2> DEFINE n == MoveTo(LaidOut(r), "ReadingInput")
  <2>1. ContinueLayout(r, ok) =
          IF PageFull(r) THEN (IF full.result = "Failed" THEN full ELSE Finish(full))
          ELSE IF r.inputEnded
               THEN (IF last.result = "Failed" THEN last
                     ELSE IF ~ok \/ r.offset # TextLength[r.chapter] THEN FailReader(last)
                     ELSE Finish([last EXCEPT !.entryOpen = FALSE]))
               ELSE Return(n, "MoreWork")
    BY <1>2 DEF ContinueLayout, LaidOut, ReadOn, Ended
  <2>2. CASE PageFull(r)
    <3>1. Advances(r, IF full.result = "Failed" THEN full ELSE Finish(full))
      BY <1>2, <2>2, FullAdvances
    <3> HIDE DEF full
    <3> QED
      BY <2>1, <2>2, <3>1
  <2>3. CASE ~PageFull(r) /\ r.inputEnded
    <3>1. /\ Advances(r, IF last.result = "Failed" THEN last ELSE FailReader(last))
          /\ last.result # "Failed" => Advances(r, Finish([last EXCEPT !.entryOpen = FALSE]))
      BY <1>2, <2>3, LastAdvances
    <3> HIDE DEF last
    <3> QED
      BY <2>1, <2>3, <3>1
  <2>4. CASE ~PageFull(r) /\ ~r.inputEnded
    <3> DEFINE m == MoveTo(r, "LayingOut")
    <3> DEFINE x == LaidOut(r)
    <3>1. /\ Resting(m) /\ Fits(m) /\ OnPage(m) /\ ~m.chapterEnded /\ m.active /\ Stocked(m)
          /\ m.prefetching = r.prefetching /\ SameShelf(r, m) /\ m.rebuilding = r.rebuilding
          /\ m.size = r.size /\ m.front = r.front /\ m.workAnchor = r.workAnchor
          /\ (~r.prefetching => m.prefetch = r.prefetch) /\ ~PageFull(m)
      BY <1>2, <2>4, LayingOnPage
    <3>2. /\ Resting(x) /\ Laid(m, x) /\ ~x.layoutPending /\ x.inputEnded = r.inputEnded
          /\ ~x.chapterEnded
      BY <1>2, LaidPages
    <3>3. x.pend = x.fed
      BY <3>1, <3>2, FullOrAll DEF Laid
    <3> HIDE DEF m, x
    <3>4. x \in Readers /\ x.active
      BY <3>1, <3>2 DEF Resting, Laid
    <3>5. Flow(x)
      <4>1. /\ m.pend \in Nat /\ Taken(m) \in Nat /\ Size(m.work) \in Int
            /\ m.workAnchor.parserCheckpoint \in Nat
        <5>1. m.pend \in Nat /\ m.work \in Texts /\ m.workAnchor \in Anchors
          BY <3>1 DEF Resting, Readers
        <5>2. Size(m.work) \in Int
          BY <5>1 DEF Texts, Size
        <5> QED
          BY <3>1, <5>1, <5>2, TakenBounds DEF Anchors
      <4>2. x.workAnchor.parserCheckpoint + Size(x.work) = x.pend /\ x.pend \in Nat
        BY <3>1, <3>2, <4>1 DEF OnPage, Laid
      <4>3. InPlace(x)
        BY <3>1, <3>2, <3>3, <3>4, <4>2 DEF OnPage, Laid, InPlace
      <4> QED
        BY <2>4, <3>1, <3>2, <3>3, <3>4, <4>3 DEF Flow, OnPage, Laid
    <3>6. Shelf(x)
      BY <3>1, <3>2, <3>4 DEF Shelf, Showing, OnPage, Laid, SameShelf
    <3>7. Behind(x)
      <4>1. x.current \in Nat /\ Len(x.texts) \in Nat
        BY <3>4, LenProperties DEF Readers
      <4>2. ~NextReady(x)
        BY <3>1, <3>2, <4>1 DEF OnPage, Laid, SameShelf, NextReady
      <4>3. x.prefetching => Prefetches(x)
        BY <3>1, <3>2
           DEF OnPage, Laid, SameShelf, Stocked, Behind, Prefetches, OnScreen, Showing
      <4> QED
        BY <3>1, <3>2, <4>2, <4>3 DEF Behind, OnPage, Laid
    <3>8. /\ Stocked(n) /\ SameShelf(x, n) /\ n.front = x.front /\ n.size = x.size
          /\ n.rebuilding = x.rebuilding /\ (~x.prefetching => n = x) /\ n \in Readers
      BY <3>4, <3>5, <3>6, <3>7, MoveToStocked, MoveToKeeps DEF Stocked, Keeps, PrefetchStates, x
    <3>9. /\ SameShelf(r, n) /\ n.size = r.size /\ n.rebuilding = r.rebuilding
          /\ r.prefetching => n.front = r.front
          /\ ~r.prefetching => n.prefetch = r.prefetch
      BY <3>1, <3>2, <3>8 DEF SameShelf, Laid, OnPage
    <3>10. ContinueLayout(r, ok) = Return(n, "MoreWork")
      BY <2>1, <2>4
    <3> HIDE DEF n
    <3>11. SameStock(n, Return(n, "MoreWork")) /\ Return(n, "MoreWork").result = "MoreWork"
      BY <3>8, ReturnSame, ReturnKeeps DEF WorkResults
    <3> DEFINE s == Return(n, "MoreWork")
    <3>12. Stocked(s)
      BY <3>8, <3>11, SameStocked
    <3> HIDE DEF s
    <3>13. Advances(r, s)
      BY <1>0, <3>9, <3>11, <3>12, SameAdvances DEF SameStock, SameShelf, SameBehind, s
    <3> QED
      BY <3>10, <3>13 DEF s
  <2> QED
    BY <2>2, <2>3, <2>4
<1> QED
  BY <1>1, <1>2
-----------------------------------------------------------------------------
(***************************************************************************)
(* Reading the chapter moves the place in it and nothing else.             *)
(***************************************************************************)
SameLayout(r, s) ==
  /\ SameShelf(r, s) /\ SameBehind(r, s) /\ s.rebuilding = r.rebuilding /\ s.work = r.work
  /\ s.workAnchor = r.workAnchor /\ s.active = r.active /\ s.size = r.size
  /\ s.chapter = r.chapter /\ s.chapterEnded = r.chapterEnded

(* The cache and what is behind it do not depend on the rest of the layout. *)
LEMMA SameLayoutStocked ==
  ASSUME NEW r, Stocked(r), NEW s, SameLayout(r, s), Flow(s)
  PROVE  Stocked(s)
<1>1. Shelf(s)
  BY DEF Stocked, Shelf, Showing, SameLayout, SameShelf
<1>2. Behind(s)
  BY DEF Stocked, Behind, Prefetches, OnScreen, Showing, NextReady, NextThere, SameLayout,
     SameShelf, SameBehind
<1> QED
  BY <1>1, <1>2 DEF Stocked

(* The step's state of the prefetch comes first. *)
LEMMA MovedStocked ==
  ASSUME NEW r, ReaderInv(r), Stocked(r), NEW p \in PrefetchStates, NEW m, m = MoveTo(r, p)
  PROVE  /\ m \in Readers /\ Stocked(m) /\ Alike(r, m) /\ SameShelf(r, m)
         /\ m.front = r.front /\ m.size = r.size /\ m.rebuilding = r.rebuilding
         /\ (~r.prefetching => m.prefetch = r.prefetch) /\ m.inputEnded = r.inputEnded
<1>1. r \in Readers
  BY DEF ReaderInv, Resting
<1>2. m \in Readers /\ Alike(r, m)
  BY <1>1, MoveToKeeps, MoveToAlike DEF Keeps
<1>3. /\ Stocked(m) /\ SameShelf(r, m) /\ m.front = r.front /\ m.size = r.size
      /\ m.rebuilding = r.rebuilding /\ (~r.prefetching => m.prefetch = r.prefetch)
  BY <1>1, MoveToStocked
<1>4. m.inputEnded = r.inputEnded
  BY <1>1 DEF MoveTo, Readers
<1> QED
  BY <1>2, <1>3, <1>4

(* Nothing more can be read: the page in progress is given up. *)
LEMMA GivenUpAdvances ==
  ASSUME NEW r \in Readers, Stocked(r), NEW m \in Readers, Stocked(m), SameShelf(r, m),
         m.front = r.front, m.size = r.size, ~r.prefetching => m.prefetch = r.prefetch,
         ~m.inputReady, ~m.layoutPending, m.pend = m.fed
  PROVE  Advances(r, FailReader(m))
<1> DEFINE s == FailReader(m)
<1>1. Settled(m)
  BY StockedSettled
<1>2. /\ Stocked(s) /\ SameShelf(m, s) /\ s.front = m.front /\ s.size = m.size
      /\ s.prefetch = m.prefetch /\ s.result = "Failed" /\ s.active = FALSE
  BY <1>1, FailReaderStocked
<1> HIDE DEF s
<1>3. SameShelf(r, s)
  BY <1>2 DEF SameShelf
<1>4. Advances(r, s)
  BY <1>2, <1>3, SameAdvances
<1> QED
  BY <1>4 DEF s

(* readInputChunk() *)
LEMMA ReadInputChunkAdvances ==
  ASSUME NEW r, ReaderInv(r), Stocked(r), NEW ok
  PROVE  Advances(r, ReadInputChunk(r, ok))
<1> DEFINE m == MoveTo(r, "ReadingInput")
<1> DEFINE count == Min({ChunkUnits, TextLength[r.chapter] - r.offset})
<1> DEFINE offset == m.offset + count
<1> DEFINE empty == count = 0
<1> DEFINE s == [m EXCEPT !.offset = offset, !.inputEnded = empty,
                          !.inputReady = TRUE, !.result = "MoreWork"]
<1>0. r \in Readers
  BY DEF ReaderInv, Resting
<1>1. /\ m \in Readers /\ Stocked(m) /\ Alike(r, m) /\ SameShelf(r, m)
      /\ m.front = r.front /\ m.size = r.size /\ m.rebuilding = r.rebuilding
      /\ (~r.prefetching => m.prefetch = r.prefetch)
  BY MovedStocked DEF PrefetchStates
<1>2. CASE ~r.active \/ r.inputReady \/ r.layoutPending
  <2>1. ReadInputChunk(r, ok) = Idle(r)
    BY <1>2 DEF ReadInputChunk
  <2> QED
    BY <1>0, <2>1, IdleStays
<1>3. CASE r.active /\ ~r.inputReady /\ ~r.layoutPending
  <2>1. ReadInputChunk(r, ok) = IF ~ok \/ ~r.entryOpen THEN FailReader(m) ELSE s
    BY <1>3 DEF ReadInputChunk
  <2>2. /\ ~m.inputReady /\ ~m.layoutPending /\ m.active /\ m.entryOpen = r.entryOpen
        /\ m.offset = r.offset /\ m.chapter = r.chapter
    BY <1>1, <1>3 DEF Alike, AlikeButWork, SamePlace, SameText, GoesOn
  <2>3. m.pend = m.fed
    BY <1>1, <2>2 DEF Stocked, Flow
  <2>4. CASE ~ok \/ ~r.entryOpen
    <3> HIDE DEF m
    <3> QED
      BY <1>0, <1>1, <2>1, <2>2, <2>3, <2>4, GivenUpAdvances
  <2>5. CASE ~(~ok \/ ~r.entryOpen)
    <3>1. ~r.chapterEnded /\ r.chapter \in Chapters /\ r.offset <= TextLength[r.chapter]
          /\ r.offset \in Nat
      BY <1>0, <1>3 DEF ReaderInv, Resting, TextInOrder, Readers
    <3>2. empty => offset = TextLength[r.chapter]
      <4>1. TextLength[r.chapter] \in Nat /\ ChunkUnits \in Nat \ {0}
        BY <3>1, BookFacts, ReaderAssumption
      <4>2. count = IF ChunkUnits <= TextLength[r.chapter] - r.offset THEN ChunkUnits
                    ELSE TextLength[r.chapter] - r.offset
        BY <3>1, <4>1, MinPair
      <4> QED
        BY <2>2, <3>1, <4>1, <4>2
    <3> HIDE DEF offset, empty, m
    <3>3. /\ SameLayout(m, s) /\ s.pend = m.pend /\ s.fed = m.fed /\ s.seek = m.seek
          /\ s.inputEnded = empty /\ s.offset = offset /\ s.inputReady = TRUE
          /\ s.layoutPending = m.layoutPending /\ s.result = "MoreWork"
      BY <1>1 DEF Readers, SameLayout, SameShelf, SameBehind
    <3> HIDE DEF s
    <3>4. ~m.chapterEnded /\ m.entryOpen
      BY <1>1, <2>2, <2>5, <3>1 DEF Alike, AlikeButWork, SamePlace
    <3>5. InPlace(m)
      BY <1>1, <3>4 DEF Stocked, Flow, Stuck
    <3>6. Flow(s)
      <4>1. InPlace(s)
        BY <3>3, <3>5 DEF InPlace, SameLayout
      <4> QED
        BY <2>2, <2>3, <3>2, <3>3, <3>4, <4>1 DEF Flow, SameLayout
    <3>7. Stocked(s)
      BY <1>1, <3>3, <3>6, SameLayoutStocked
    <3>8. Advances(r, s)
      BY <1>0, <1>1, <3>3, <3>7, SameAdvances DEF SameLayout, SameShelf, SameBehind
    <3> QED
      BY <2>1, <2>5, <3>8 DEF s
  <2> QED
    BY <2>4, <2>5
<1> QED
  BY <1>2, <1>3

(* processBufferedInput() *)
LEMMA ProcessBufferedInputAdvances ==
  ASSUME NEW r, ReaderInv(r), Stocked(r)
  PROVE  Advances(r, ProcessBufferedInput(r))
<1> DEFINE m == MoveTo(r, "Parsing")
<1> DEFINE skipped == Min({r.offset - r.pend, r.seek})
<1> DEFINE s == [m EXCEPT !.fed = r.offset, !.inputReady = FALSE, !.pend = @ + skipped,
                          !.seek = @ - skipped, !.result = "MoreWork"]
<1> DEFINE t == [s EXCEPT !.layoutPending = TRUE]
<1>0. r \in Readers
  BY DEF ReaderInv, Resting
<1>1. /\ m \in Readers /\ Stocked(m) /\ Alike(r, m) /\ SameShelf(r, m)
      /\ m.front = r.front /\ m.size = r.size /\ m.rebuilding = r.rebuilding
      /\ (~r.prefetching => m.prefetch = r.prefetch) /\ m.inputEnded = r.inputEnded
  BY MovedStocked DEF PrefetchStates
<1>2. CASE ~(r.active /\ r.inputReady)
  <2>1. ProcessBufferedInput(r) = Idle(r)
    BY <1>2 DEF ProcessBufferedInput
  <2> QED
    BY <1>0, <2>1, IdleStays
<1>3. CASE r.active /\ r.inputReady
  <2>1. ProcessBufferedInput(r) = IF r.seek > skipped
                                  THEN IF r.inputEnded THEN FailReader(s) ELSE s
                                  ELSE t
    BY <1>3 DEF ProcessBufferedInput
  <2>2. /\ r.offset \in Nat /\ r.pend \in Nat /\ r.seek \in Nat /\ r.fed \in Nat
        /\ r.pend <= r.fed /\ r.fed <= r.offset /\ ~r.chapterEnded
    BY <1>3 DEF ReaderInv, Resting, TextInOrder, Readers
  <2>3. /\ skipped \in Nat /\ skipped <= r.offset - r.pend /\ skipped <= r.seek
        /\ r.seek > skipped => skipped = r.offset - r.pend
        /\ ~(r.seek > skipped) => skipped = r.seek
    BY <2>2, MinPair
  <2>4. /\ m.pend = r.pend /\ m.seek = r.seek /\ m.offset = r.offset /\ m.active /\ m.inputReady
        /\ ~m.chapterEnded
    BY <1>1, <1>3, <2>2 DEF Alike, AlikeButWork, SamePlace, SameText, GoesOn
  <2>5. InPlace(m) /\ ~m.layoutPending
    BY <1>1, <2>4 DEF Stocked, Flow, Stuck
  <2> HIDE DEF skipped, m
  <2>6. m.pend + skipped \in Nat /\ m.seek - skipped \in Nat
    BY <2>2, <2>3, <2>4
  <2>7. s \in Readers
    <3>1. ASSUME NEW p \in Nat, NEW q \in Nat, NEW f \in Nat
          PROVE  [m EXCEPT !.fed = f, !.inputReady = FALSE, !.pend = p,
                           !.seek = q, !.result = "MoreWork"] \in Readers
      BY <1>1 DEF Readers, WorkResults
    <3> QED
      BY <2>2, <2>6, <3>1
  <2>8. /\ SameLayout(m, s) /\ s.pend = m.pend + skipped /\ s.seek = m.seek - skipped
        /\ s.fed = r.offset /\ s.offset = m.offset /\ s.inputEnded = m.inputEnded
        /\ s.inputReady = FALSE /\ s.layoutPending = m.layoutPending /\ s.result = "MoreWork"
    BY <1>1 DEF Readers, SameLayout, SameShelf, SameBehind
  <2> HIDE DEF s
  <2>9. /\ SameLayout(s, t) /\ t.pend = s.pend /\ t.seek = s.seek /\ t.fed = s.fed
        /\ t.offset = s.offset /\ t.inputEnded = s.inputEnded /\ t.inputReady = s.inputReady
        /\ t.layoutPending = TRUE /\ t.result = s.result
    BY <2>7 DEF Readers, SameLayout, SameShelf, SameBehind
  <2> HIDE DEF t
  <2>10. /\ s.pend + s.seek = m.pend + m.seek
         /\ r.seek > skipped => s.pend = s.fed
         /\ ~(r.seek > skipped) => s.seek = 0
    BY <2>2, <2>3, <2>4, <2>8
  <2>11. \A q \in {s, t} : /\ SameLayout(m, q) /\ q.pend + q.seek = m.pend + m.seek
                           /\ q.result = "MoreWork" /\ q.fed = q.offset /\ ~q.inputReady
                           /\ q.inputEnded = m.inputEnded /\ q.offset = m.offset
    <3>1. SameLayout(m, t)
      BY <2>8, <2>9 DEF SameLayout, SameShelf, SameBehind
    <3>2. /\ t.pend + t.seek = m.pend + m.seek /\ t.fed = t.offset /\ ~t.inputReady
          /\ t.result = "MoreWork" /\ t.inputEnded = m.inputEnded /\ t.offset = m.offset
      BY <2>4, <2>8, <2>9, <2>10
    <3>3. s.fed = s.offset
      BY <2>4, <2>8
    <3> QED
      BY <2>8, <2>10, <3>1, <3>2, <3>3
  <2>12. ASSUME NEW q \in {s, t}, Flow(q)
         PROVE  Stocked(q) /\ Advances(r, q)
    <3>1. Stocked(q)
      BY <1>1, <2>11, <2>12, SameLayoutStocked
    <3>2. SameShelf(r, q) /\ q.size = r.size /\ q.front = r.front /\ q.rebuilding = r.rebuilding
          /\ (~r.prefetching => q.prefetch = r.prefetch)
      BY <1>1, <2>11 DEF SameLayout, SameShelf, SameBehind
    <3> QED
      BY <1>0, <2>11, <3>1, <3>2, SameAdvances
  <2>13. CASE r.seek > skipped
    <3>1. InPlace(s)
      BY <2>5, <2>8, <2>10, <2>13 DEF InPlace, SameLayout
    <3>2. Flow(s)
      BY <1>1, <2>4, <2>5, <2>8, <2>10, <2>13, <3>1 DEF Flow, SameLayout, Stocked
    <3>3. Stocked(s) /\ Advances(r, s)
      BY <2>12, <3>2
    <3>4. Advances(r, FailReader(s))
      <4>1. SameShelf(r, s) /\ s.size = r.size /\ s.front = r.front
            /\ (~r.prefetching => s.prefetch = r.prefetch)
        BY <1>1, <2>8 DEF SameLayout, SameShelf, SameBehind
      <4> QED
        BY <1>0, <2>5, <2>7, <2>8, <2>10, <2>13, <3>3, <4>1, GivenUpAdvances
    <3> QED
      BY <2>1, <2>13, <3>3, <3>4
  <2>14. CASE ~(r.seek > skipped)
    <3>1. InPlace(t)
      BY <2>5, <2>9, <2>10, <2>11, <2>14 DEF InPlace, SameLayout
    <3>2. Flow(t)
      BY <1>1, <2>4, <2>9, <2>11, <3>1 DEF Flow, SameLayout, Stocked
    <3> QED
      BY <2>1, <2>12, <2>14, <3>2
  <2> QED
    BY <2>13, <2>14
<1> QED
  BY <1>2, <1>3
-----------------------------------------------------------------------------
(***************************************************************************)
(* Opening a chapter leaves the cache, the canvases and the prefetch be.   *)
(***************************************************************************)
Apart(r, o) ==
  /\ SameShelf(r, o) /\ SameBehind(r, o)
  /\ o.rebuilding = r.rebuilding /\ o.size = r.size /\ o.work = r.work /\ o.active = r.active

(* It does for a chapter that was opened, *)
LEMMA OpenedApart ==
  ASSUME NEW r \in Readers, NEW c
  PROVE  Apart(r, Opened(r, c)) /\ ~Opened(r, c).inputEnded
BY DEF Opened, Readers, Apart, SameShelf, SameBehind

(* ... for the chapter of an anchor, which may fail to open, *)
LEMMA OpenAtApart ==
  ASSUME NEW r, Resting(r), NEW c, NEW ok, NEW o, o = OpenLinearSpineAt(r, c, ok)
  PROVE  /\ Apart(r, o)
         /\ IF o.result = "Failed" THEN SameStock(r, o) ELSE ~o.inputEnded
<1>1. r \in Readers
  BY DEF Resting
<1>2. CASE c \notin Linear
  <2>1. o = Return(r, "Failed")
    BY <1>2 DEF OpenLinearSpineAt
  <2>2. SameStock(r, o) /\ o.result = "Failed"
    BY <1>1, <2>1, ReturnSame, ReturnKeeps DEF WorkResults
  <2> QED
    BY <2>2 DEF SameStock, Apart
<1>3. CASE c \in Linear /\ (~ok \/ r.entryOpen)
  <2>1. o = [r EXCEPT !.error = TRUE, !.result = "Failed"]
    BY <1>3 DEF OpenLinearSpineAt
  <2>2. o.result = "Failed"
    BY <1>1, <2>1 DEF Readers
  <2>3. SameStock(r, o)
    BY <1>1, <2>1 DEF Readers, SameStock, SameShelf, SameBehind, SameText
  <2> QED
    BY <2>2, <2>3 DEF SameStock, Apart
<1>4. CASE c \in Linear /\ ~(~ok \/ r.entryOpen)
  <2> DEFINE p == Opened(r, c)
  <2>1. o = [p EXCEPT !.endOfBook = FALSE]
    BY <1>4 DEF OpenLinearSpineAt
  <2>2. Apart(r, p) /\ ~p.inputEnded /\ p \in Readers /\ p.result = "Completed"
    <3>1. c \in Chapters /\ c \in Nat
      BY <1>4, BookFacts
    <3>2. p.result = "Completed"
      BY <1>1 DEF Opened, Readers
    <3> QED
      BY <1>1, <3>1, <3>2, OpenedApart, OpenedOpens DEF Opens, Resting
  <2> HIDE DEF p
  <2>3. Apart(p, o) /\ ~o.inputEnded /\ o.result = "Completed"
    BY <2>1, <2>2 DEF Readers, Apart, SameShelf, SameBehind
  <2> QED
    BY <2>2, <2>3 DEF Apart, SameShelf, SameBehind
<1> QED
  BY <1>2, <1>3, <1>4

(* ... and for the next linear one. *)
LEMMA OpenNextApart ==
  ASSUME NEW r, Resting(r), NEW ok, NEW o, o = OpenNextLinearSpine(r, ok)
  PROVE  /\ Apart(r, o)
         /\ IF o.result = "Failed" THEN SameStock(r, o) ELSE ~o.inputEnded
<1> DEFINE ahead == {c \in Linear : c >= r.spineIndex}
<1> DEFINE n == Max({r.spineIndex, Spine})
<1> DEFINE c == Min(ahead)
<1> DEFINE k == c + 1
<1>1. r \in Readers
  BY DEF Resting
<1>2. CASE ahead = {}
  <2>1. o = [r EXCEPT !.spineIndex = n, !.endOfBook = TRUE, !.result = "Failed"]
    BY <1>2 DEF OpenNextLinearSpine
  <2> HIDE DEF n
  <2>2. SameStock(r, o)
    BY <1>1, <2>1 DEF Readers, SameStock, SameShelf, SameBehind, SameText
  <2>3. o.result = "Failed"
    BY <1>1, <2>1 DEF Readers
  <2> QED
    BY <2>2, <2>3 DEF SameStock, Apart
<1>3. CASE ahead # {} /\ (~ok \/ r.entryOpen)
  <2>1. o = [r EXCEPT !.spineIndex = k, !.error = TRUE, !.result = "Failed"]
    BY <1>3 DEF OpenNextLinearSpine
  <2> HIDE DEF k
  <2>2. SameStock(r, o)
    BY <1>1, <2>1 DEF Readers, SameStock, SameShelf, SameBehind, SameText
  <2>3. o.result = "Failed"
    BY <1>1, <2>1 DEF Readers
  <2> QED
    BY <2>2, <2>3 DEF SameStock, Apart
<1>4. CASE ahead # {} /\ ~(~ok \/ r.entryOpen)
  <2>1. o = Opened(r, c)
    BY <1>4 DEF OpenNextLinearSpine
  <2> HIDE DEF c
  <2>2. o.result = "Completed"
    BY <1>1, <2>1 DEF Opened, Readers
  <2> QED
    BY <1>1, <2>1, <2>2, OpenedApart
<1> QED
  BY <1>2, <1>3, <1>4

(* restorePrefetchCheckpoint(): the reader is back where the prefetch began. *)
LEMMA RestoreAdvances ==
  ASSUME NEW r, ReaderInv(r), Stocked(r), r.active, r.prefetching, NEW ok
  PROVE  Advances(r, RestorePrefetchCheckpoint(r, ok))
<1> DEFINE prefetch == Transition(r.prefetch, "Restoring")
<1> DEFINE stopped == [r EXCEPT !.prefetch = prefetch, !.entryOpen = FALSE,
                           !.active = FALSE, !.prefetching = FALSE, !.pend = r.fed,
                           !.work = NoText, !.inputReady = FALSE, !.inputEnded = FALSE,
                           !.layoutPending = FALSE]
<1> DEFINE o == OpenLinearSpineAt(stopped, r.checkpoint.spine, ok)
<1> DEFINE failed == [o EXCEPT !.prefetch = "Failed"]
<1> DEFINE restored == [o EXCEPT !.workAnchor = r.checkpoint,
                                 !.seek = r.checkpoint.parserCheckpoint,
                                 !.prefetch = "Idle", !.result = "Idle"]
<1>1. RestorePrefetchCheckpoint(r, ok) = IF o.result = "Failed" THEN FailReader(failed)
                                         ELSE restored
  BY DEF RestorePrefetchCheckpoint
<1>0. prefetch \in PrefetchStates /\ NoText \in Texts /\ r.fed \in Nat /\ r \in Readers
  BY BookFacts DEF Transition, PrefetchStates, ReaderInv, Resting, Readers
<1>2. /\ r \in Readers /\ r.rebuilding = NoPage /\ ~r.chapterEnded /\ OnScreen(r)
      /\ (r.texts = <<>> => Fillable(r.checkpoint)) /\ r.checkpoint \in Anchors
  BY <1>0 DEF ReaderInv, Readers, Stocked, Behind, Prefetches
<1> HIDE DEF prefetch
<1>3. stopped \in Readers
  <2>1. ASSUME NEW f \in Nat, NEW n \in Texts
        PROVE  [r EXCEPT !.prefetch = prefetch, !.entryOpen = FALSE,
                         !.active = FALSE, !.prefetching = FALSE, !.pend = f,
                         !.work = n, !.inputReady = FALSE, !.inputEnded = FALSE,
                         !.layoutPending = FALSE] \in Readers
    BY <1>0 DEF Readers
  <2> QED
    BY <1>0, <2>1
<1>4. /\ SameShelf(r, stopped) /\ stopped.rebuilding = r.rebuilding
      /\ stopped.chapter = r.chapter /\ stopped.offset = r.offset /\ stopped.fed = r.fed
      /\ stopped.pend = r.fed /\ stopped.chapterEnded = r.chapterEnded
      /\ stopped.workAnchor = r.workAnchor /\ stopped.front = r.front /\ stopped.size = r.size
      /\ stopped.active = FALSE /\ stopped.prefetching = FALSE /\ stopped.inputReady = FALSE
      /\ stopped.layoutPending = FALSE /\ stopped.inputEnded = FALSE
  BY <1>2 DEF Readers, SameShelf
<1> HIDE DEF stopped
<1>5. Resting(stopped)
  BY <1>0, <1>3, <1>4 DEF ReaderInv, Resting, CacheInv, TextInOrder, SameShelf, Readers
<1>6. Opens(stopped, o) /\ Apart(stopped, o) /\ o \in Readers
  BY <1>5, OpenLinearSpineAtOpens, OpenAtApart DEF Opens, Resting
<1>7. CASE o.result = "Failed"
  <2>1. SameStock(stopped, o)
    BY <1>5, <1>7, OpenAtApart
  <2> HIDE DEF o
  <2>2. failed \in Readers
    BY <1>6 DEF Readers, PrefetchStates
  <2>3. /\ SameShelf(o, failed) /\ SameText(o, failed) /\ failed.chapterEnded = o.chapterEnded
        /\ failed.inputEnded = o.inputEnded /\ failed.workAnchor = o.workAnchor
        /\ failed.prefetching = o.prefetching /\ failed.prefetch = "Failed"
        /\ failed.front = o.front /\ failed.size = o.size
    BY <1>6 DEF Readers, SameShelf, SameText
  <2> HIDE DEF failed
  <2>4. /\ SameShelf(r, failed) /\ failed.front = r.front /\ failed.size = r.size
        /\ failed.workAnchor = r.workAnchor /\ failed.pend = failed.fed
        /\ ~failed.inputReady /\ ~failed.layoutPending /\ ~failed.inputEnded
        /\ ~failed.chapterEnded /\ ~failed.prefetching
    BY <1>2, <1>4, <2>1, <2>3 DEF SameStock, SameShelf, SameBehind, SameText
  <2>5. Settled(failed)
    BY <2>3, <2>4 DEF Settled, Stocked, Shelf, Showing, SameShelf
  <2>6. /\ Stocked(FailReader(failed)) /\ SameShelf(failed, FailReader(failed))
        /\ FailReader(failed).front = failed.front /\ FailReader(failed).size = failed.size
        /\ FailReader(failed).result = "Failed" /\ FailReader(failed).active = FALSE
    BY <2>2, <2>4, <2>5, FailReaderStocked
  <2>7. SameShelf(r, FailReader(failed))
    BY <2>4, <2>6 DEF SameShelf
  <2>8. Advances(r, FailReader(failed))
    BY <1>2, <2>4, <2>6, <2>7, SameAdvances
  <2> QED
    BY <1>1, <1>7, <2>8
<1>8. CASE o.result # "Failed"
  <2> DEFINE a == r.checkpoint
  <2>1. a.spine \in Linear /\ Fresh(stopped, o, a.spine) /\ ~o.inputEnded
    BY <1>5, <1>8, OpenAtFresh, OpenAtApart
  <2> HIDE DEF o
  <2>2. a.parserCheckpoint \in Nat
    BY <1>2 DEF Anchors
  <2>3. restored \in Readers
    BY <1>2, <1>6, <2>2 DEF Readers, PrefetchStates, WorkResults
  <2>4. /\ SameShelf(o, restored) /\ restored.rebuilding = o.rebuilding
        /\ restored.workAnchor = a /\ restored.seek = a.parserCheckpoint
        /\ GoesOn(o, restored) /\ restored.chapter = o.chapter /\ restored.fed = o.fed
        /\ restored.pend = o.pend /\ restored.inputReady = o.inputReady
        /\ restored.layoutPending = o.layoutPending /\ restored.chapterEnded = o.chapterEnded
        /\ restored.inputEnded = o.inputEnded /\ restored.prefetch = "Idle"
        /\ restored.front = o.front /\ restored.size = o.size /\ restored.result = "Idle"
    BY <1>6 DEF Readers, GoesOn, SameShelf
  <2> HIDE DEF restored
  <2>5. /\ SameShelf(r, restored) /\ restored.rebuilding = NoPage /\ ~restored.active
        /\ ~restored.prefetching /\ restored.front = r.front /\ restored.size = r.size
        /\ restored.chapter = a.spine /\ restored.fed = 0 /\ restored.pend = 0
        /\ ~restored.inputReady /\ ~restored.layoutPending /\ ~restored.chapterEnded
        /\ ~restored.inputEnded
    BY <1>2, <1>4, <1>6, <2>1, <2>4 DEF Fresh, AtStart, GoesOn, Apart, SameShelf, SameBehind
  <2>6. Settled(restored)
    BY <1>2, <2>4, <2>5 DEF Settled, Stocked, Shelf, Showing, OnScreen, SameShelf
  <2>7. Placed(restored)
    BY <2>1, <2>2, <2>4, <2>5 DEF Placed
  <2>8. Stocked(restored)
    BY <2>3, <2>5, <2>6, <2>7, RestsStocked
  <2>9. Advances(r, restored)
    BY <1>2, <2>4, <2>5, <2>8, SameAdvances
  <2> QED
    BY <1>1, <1>8, <2>9
<1> QED
  BY <1>7, <1>8

(* processNextChunk() *)
LEMMA ProcessNextChunkAdvances ==
  ASSUME NEW r, ReaderInv(r), Stocked(r), NEW ok
  PROVE  Advances(r, ProcessNextChunk(r, ok))
<1>0. r \in Readers
  BY DEF ReaderInv, Resting
<1>1. CASE r.prefetching /\ r.prefetch = "CancelRequested"
  <2>1. ProcessNextChunk(r, ok) = RestorePrefetchCheckpoint(r, ok) /\ r.active
    BY <1>1 DEF ProcessNextChunk, ReaderInv
  <2> QED
    BY <1>1, <2>1, RestoreAdvances
<1>2. CASE ~(r.prefetching /\ r.prefetch = "CancelRequested") /\ ~r.active
  <2> DEFINE w == IF r.error THEN "Failed" ELSE "Idle"
  <2> DEFINE s == Return(r, w)
  <2>1. ProcessNextChunk(r, ok) = s /\ w # "Completed"
    BY <1>2 DEF ProcessNextChunk
  <2> HIDE DEF w
  <2>2. SameStock(r, s) /\ s.result = w
    BY <1>0, ReturnSame DEF Return, Readers
  <2> HIDE DEF s
  <2>3. Stocked(s)
    BY <2>2, SameStocked
  <2> QED
    BY <1>0, <2>1, <2>2, <2>3, SameAdvances DEF SameStock, SameBehind
<1>3. CASE ~(r.prefetching /\ r.prefetch = "CancelRequested") /\ r.active
  <2>1. ProcessNextChunk(r, ok) \in {ProcessBufferedInput(r), ContinueLayout(r, ok),
                                     ReadInputChunk(r, ok)}
    BY <1>3 DEF ProcessNextChunk
  <2> QED
    BY <2>1, ProcessBufferedInputAdvances, ContinueLayoutAdvances, ReadInputChunkAdvances
<1> QED
  BY <1>1, <1>2, <1>3

(* processCpuOnlyWork() *)
LEMMA ProcessCpuOnlyWorkAdvances ==
  ASSUME NEW r, ReaderInv(r), Stocked(r)
  PROVE  Advances(r, ProcessCpuOnlyWork(r))
<1>1. PICK s : ProcessCpuOnlyWork(r) = Idle(s) /\ s \in Readers /\ Advances(r, s)
  BY ProcessBufferedInputAdvances, ContinueLayoutAdvances, ProcessBufferedInputSteps,
     ContinueLayoutSteps DEF ProcessCpuOnlyWork, Steps, ReaderInv, Resting
<1> QED
  BY <1>1, IdleAdvances
-----------------------------------------------------------------------------
(***************************************************************************)
(* Page requests of a reader at rest                                       *)
(***************************************************************************)
Served(r, s) ==
  /\ Stocked(s) /\ (OnScreen(r) => OnScreen(s))
  /\ s.result = "Completed" => Showing(s)
  /\ s.result \in {"MoreWork", "Failed"} => ~NextReady(s)
  /\ NextReady(s) => NextReady(r)
  /\ s.result # "Failed" /\ s.size # r.size => s.workAnchor = CurrentAnchor(r)

(* A request with nothing to do is served. *)
LEMMA IdleServed ==
  ASSUME NEW r \in Readers, Stocked(r)
  PROVE  Served(r, Idle(r))
<1>1. SameStock(r, Idle(r)) /\ Idle(r).result = "Idle"
  BY ReturnSame, IdleKeeps
<1>2. Stocked(Idle(r))
  BY <1>1, SameStocked
<1> QED
  BY <1>1, <1>2, SameShown DEF Served, SameStock, SameShelf, SameBehind, NextReady

(* A blank page is drawn on its own canvas only. *)
LEMMA BlankPageApart ==
  ASSUME NEW r \in Readers, NEW c \in {"front", "back"}, NEW p, p = BlankPage(r, c)
  PROVE  /\ SameShelf(r, p) /\ AlikeButWork(r, p) /\ p.work = NoText /\ p.target = c
         /\ p.prefetch = r.prefetch /\ p.size = r.size /\ p.inputEnded = r.inputEnded
         /\ IF c = "front" THEN p.back = r.back ELSE p.back = NoText /\ p.front = r.front
<1>1. AlikeButWork(r, p) /\ p.work = NoText
  BY BlankPageAlike
<1> DEFINE s == [r EXCEPT !.work = NoText, !.target = c]
<1>2. s \in Readers /\ p = OnCanvas(s, c, NoText)
  BY BookFacts DEF Readers, BlankPage
<1>3. /\ SameShelf(r, s) /\ s.target = c /\ s.prefetch = r.prefetch /\ s.size = r.size
      /\ s.inputEnded = r.inputEnded /\ s.back = r.back /\ s.front = r.front
  BY DEF Readers, SameShelf
<1> HIDE DEF s
<1>4. /\ SameShelf(s, p) /\ p.target = s.target /\ p.prefetch = s.prefetch /\ p.size = s.size
      /\ p.inputEnded = s.inputEnded
      /\ IF c = "front" THEN p.back = s.back ELSE p.back = NoText /\ p.front = s.front
  BY <1>2 DEF Readers, SameShelf, OnCanvas
<1> QED
  BY <1>1, <1>3, <1>4 DEF SameShelf

(* rebuildPage(): no page waits behind the one laid out again. *)
LEMMA RebuildServed ==
  ASSUME NEW r, AtRest(r), Stocked(r), ~NextReady(r), NEW index \in Nat, NEW ok,
         NEW s, s = RebuildPage(r, index, ok)
  PROVE  /\ Served(r, s) /\ ~NextReady(s) /\ s.size = r.size /\ s.result # "Completed"
         /\ s.result = "MoreWork" => index < Len(r.anchors) /\ s.workAnchor = r.anchors[index + 1]
         /\ index < Len(r.anchors) => s.result \in {"MoreWork", "Failed"}
<1> DEFINE anchor == r.anchors[index + 1]
<1> DEFINE entry == r.entryOpen /\ r.chapterEnded
<1> DEFINE closed == [r EXCEPT !.entryOpen = entry]
<1> DEFINE o == OpenLinearSpineAt(closed, anchor.spine, ok)
<1> DEFINE p == BlankPage(o, "front")
<1> DEFINE failed == [o EXCEPT !.error = TRUE]
<1> DEFINE t == [p EXCEPT !.rebuilding = index, !.seek = anchor.parserCheckpoint,
                          !.workAnchor = anchor, !.active = TRUE, !.result = "MoreWork"]
<1>1. /\ r \in Readers /\ r.anchors \in Seq(Anchors) /\ Len(r.anchors) = Len(r.texts)
      /\ Len(r.anchors) \in Nat /\ ~r.active /\ ~r.prefetching /\ r.texts \in Seq(Texts)
  BY DEF AtRest, Resting, CacheInv, Readers, Stopped
<1>2. CASE index >= Len(r.anchors)
  <2>1. s = Idle(r)
    BY <1>2 DEF RebuildPage
  <2>2. s.result = "Idle" /\ s.size = r.size /\ Served(r, s)
    BY <1>1, <2>1, IdleServed, IdleKeeps DEF Keeps
  <2>3. ~(index < Len(r.anchors))
    BY <1>1, <1>2
  <2> QED
    BY <2>2, <2>3 DEF Served
<1>3. CASE ~(index >= Len(r.anchors))
  <2>1. s = IF o.result = "Failed" THEN failed ELSE t
    BY <1>1, <1>3 DEF RebuildPage
  <2>2. anchor \in Anchors /\ anchor.parserCheckpoint \in Nat /\ Fillable(anchor)
    <3>1. anchor \in Anchors /\ index + 1 \in DOMAIN r.anchors
      BY <1>1, <1>3, ElementOfSeq, LenProperties
    <3>2. Fillable(anchor)
      BY <3>1 DEF Stocked, Shelf
    <3> HIDE DEF anchor
    <3> QED
      BY <3>1, <3>2 DEF Anchors
  <2>3. Resting(closed) /\ SameStock(r, closed) /\ closed \in Readers
    <3>1. entry \in BOOLEAN /\ (entry => r.entryOpen)
      OBVIOUS
    <3> HIDE DEF entry
    <3>2. closed \in Readers
      BY <1>1, <3>1 DEF Readers
    <3>3. Keeps(r, closed) /\ GoesOn(r, closed)
      BY <1>1, <3>2 DEF Keeps, GoesOn, Readers
    <3>4. SameStock(r, closed)
      BY <1>1, <3>1 DEF SameStock, SameShelf, SameBehind, SameText, Readers
    <3> HIDE DEF closed
    <3> QED
      BY <3>2, <3>3, <3>4, AtRestKeeps DEF AtRest
  <2> HIDE DEF closed, anchor
  <2>4. Opens(closed, o) /\ Apart(closed, o) /\ o \in Readers
    BY <2>3, OpenLinearSpineAtOpens, OpenAtApart DEF Opens, Resting
  <2>5. CASE o.result = "Failed"
    <3>1. SameStock(closed, o)
      BY <2>3, <2>5, OpenAtApart
    <3> HIDE DEF o
    <3>2. SameStock(o, s)
      BY <2>1, <2>4, <2>5 DEF Readers, SameStock, SameShelf, SameBehind, SameText
    <3>3. s.result = "Failed"
      BY <2>1, <2>4, <2>5 DEF Readers
    <3>4. SameStock(r, s)
      BY <2>3, <3>1, <3>2, SameTrans
    <3>5. Stocked(s)
      BY <3>4, SameStocked
    <3>6. ~NextReady(s) /\ s.size = r.size
      BY <3>4 DEF SameStock, SameShelf, SameBehind, NextReady
    <3> QED
      BY <3>3, <3>4, <3>5, <3>6, SameShown DEF Served, SameStock
  <2>6. CASE o.result # "Failed"
    <3>1. anchor.spine \in Linear /\ Fresh(closed, o, anchor.spine) /\ ~o.inputEnded
      BY <2>3, <2>6, OpenAtFresh, OpenAtApart
    <3> HIDE DEF o
    <3>2. Resting(p) /\ p \in Readers
      BY <2>4, BlankPageInv DEF Opens, Resting
    <3>3. /\ SameShelf(o, p) /\ AlikeButWork(o, p) /\ p.work = NoText
          /\ p.prefetch = o.prefetch /\ p.size = o.size /\ p.inputEnded = o.inputEnded
          /\ p.back = o.back
      BY <2>4, BlankPageApart
    <3> HIDE DEF p
    <3>4. /\ SameShelf(p, t) /\ t.rebuilding = index /\ t.workAnchor = anchor
          /\ t.seek = anchor.parserCheckpoint /\ t.work = p.work /\ t.prefetching = p.prefetching
          /\ t.prefetch = p.prefetch /\ t.size = p.size /\ t.chapter = p.chapter
          /\ t.offset = p.offset /\ t.fed = p.fed /\ t.pend = p.pend
          /\ t.inputReady = p.inputReady /\ t.layoutPending = p.layoutPending
          /\ t.inputEnded = p.inputEnded /\ t.chapterEnded = p.chapterEnded
          /\ t.active = TRUE /\ t.result = "MoreWork"
      BY <3>2 DEF Readers, SameShelf
    <3> HIDE DEF t
    <3>5. /\ SameShelf(r, t) /\ t.prefetch = r.prefetch /\ t.size = r.size /\ ~t.prefetching
          /\ t.work = NoText /\ t.chapter = anchor.spine /\ t.fed = 0 /\ t.pend = 0
          /\ ~t.inputReady /\ ~t.layoutPending /\ ~t.inputEnded /\ ~t.chapterEnded
      BY <1>1, <2>3, <2>4, <3>1, <3>3, <3>4
         DEF Fresh, AtStart, GoesOn, Apart, SameStock, SameShelf, SameBehind, AlikeButWork,
             SamePlace, SameText
    <3>6. Size(NoText) = 0
      BY DEF Size, NoText
    <3>7. InPlace(t)
      BY <2>2, <3>1, <3>4, <3>5, <3>6 DEF InPlace
    <3>8. Flow(t)
      BY <3>4, <3>5, <3>7 DEF Flow
    <3>9. Shelf(t)
      <4>1. /\ WithinBudget(t.texts) /\ \A i \in DOMAIN t.anchors : Fillable(t.anchors[i])
        BY <3>5 DEF Stocked, Shelf, SameShelf
      <4>2. t.rebuilding < Len(t.anchors) /\ t.workAnchor = t.anchors[t.rebuilding + 1]
        BY <1>1, <1>3, <3>4, <3>5 DEF SameShelf, anchor
      <4> QED
        BY <2>2, <3>4, <4>1, <4>2 DEF Shelf
    <3>10. ~NextReady(t)
      BY <3>5 DEF NextReady, SameShelf
    <3>11. Behind(t)
      BY <3>5, <3>10 DEF Behind, Stocked
    <3>12. Served(r, t)
      BY <3>4, <3>5, <3>8, <3>9, <3>10, <3>11, SameShown DEF Served, Stocked
    <3>13. s = t /\ index < Len(r.anchors)
      BY <1>1, <1>3, <2>1, <2>6
    <3> QED
      BY <3>4, <3>5, <3>10, <3>12, <3>13 DEF anchor
  <2> QED
    BY <2>5, <2>6
<1> QED
  BY <1>2, <1>3

(* renderCachedPage(): the page drawn again, or one whose text is there *)
LEMMA RenderServed ==
  ASSUME NEW r, AtRest(r), Stocked(r), NEW index \in Nat, index < Len(r.texts),
         ~IsBlank(r.texts[index + 1]), r.prefetch # "Ready" \/ index = r.current,
         NEW s, s = RenderCachedPage(r, index)
  PROVE  /\ Served(r, s) /\ s.size = r.size /\ s.prefetch = r.prefetch /\ Showing(s)
         /\ s.workAnchor = r.workAnchor
<1> DEFINE t == r.texts[index + 1]
<1> DEFINE d == Drawn(r, t)
<1> DEFINE p == BlankPage(r, "front")
<1>1. s = [p EXCEPT !.work = t, !.front = d, !.current = index, !.result = "Completed"]
  BY DEF RenderCachedPage
<1>2. /\ r \in Readers /\ ~r.active /\ ~r.prefetching /\ p \in Readers
      /\ r.texts \in Seq(Texts) /\ Len(r.texts) \in Nat
  BY BlankPageInv DEF AtRest, Resting, Stopped, Readers
<1>3. /\ SameShelf(r, p) /\ AlikeButWork(r, p) /\ p.prefetch = r.prefetch
      /\ p.size = r.size /\ p.inputEnded = r.inputEnded /\ p.back = r.back
  BY <1>2, BlankPageApart
<1> HIDE DEF p, t, d
<1>4. /\ s.texts = p.texts /\ s.anchors = p.anchors /\ s.current = index
      /\ AlikeButWork(p, s) /\ s.prefetch = p.prefetch /\ s.size = p.size
      /\ s.inputEnded = p.inputEnded /\ s.back = p.back /\ s.result = "Completed"
  BY <1>1, <1>2 DEF Readers, AlikeButWork, SamePages, SamePlace, SameText, GoesOn
<1>5. /\ s.texts = r.texts /\ s.anchors = r.anchors /\ s.current = index
      /\ SameText(r, s) /\ s.workAnchor = r.workAnchor /\ s.chapterEnded = r.chapterEnded
      /\ s.entryOpen = r.entryOpen /\ s.rebuilding = r.rebuilding /\ ~s.active
      /\ ~s.prefetching /\ s.prefetch = r.prefetch /\ s.size = r.size
      /\ s.inputEnded = r.inputEnded /\ s.back = r.back
  BY <1>2, <1>3, <1>4 DEF AlikeButWork, SamePages, SamePlace, SameText, GoesOn, SameShelf
<1>6. Flow(s)
  BY <1>2, <1>5 DEF Stocked, Flow, InPlace, Stuck, SameText
<1>7. Showing(s)
  BY <1>2, <1>5, EmptySeq DEF Showing
<1>8. Shelf(s)
  BY <1>2, <1>5, <1>7 DEF Stocked, Shelf
<1>9. NextReady(s) => NextReady(r) /\ NextThere(s)
  BY <1>5 DEF Stocked, Behind, NextReady, NextThere
<1>10. Behind(s)
  BY <1>5, <1>9 DEF Stocked, Behind
<1> QED
  BY <1>4, <1>5, <1>6, <1>7, <1>8, <1>9, <1>10 DEF Served, Stocked, OnScreen

(* redrawCurrentPage() *)
LEMMA RedrawServed ==
  ASSUME NEW r, AtRest(r), Stocked(r), CanRedraw(r), NEW s, s = RedrawCurrentPage(r)
  PROVE  Served(r, s) /\ s.size = r.size /\ Showing(s) /\ s.workAnchor = r.workAnchor
<1>1. r.current \in Nat
  BY DEF AtRest, Resting, Readers
<1> QED
  BY <1>1, RenderServed DEF RedrawCurrentPage, CanRedraw

(* swapCanvases(): the page that was waiting is the current one. *)
LEMMA SwapServed ==
  ASSUME NEW r, AtRest(r), Stocked(r), NextReady(r), NEW s, s = SwapCanvases(r)
  PROVE  Served(r, s) /\ s.size = r.size
<1> DEFINE c == r.current + 1
<1> DEFINE d == IF r.displayCanvas = "front" THEN "back" ELSE "front"
<1>1. /\ s = [r EXCEPT !.front = r.back, !.back = r.front, !.current = c,
                       !.prefetch = "Idle", !.displayCanvas = d, !.result = "Completed"]
      /\ r \in Readers /\ ~r.active /\ ~r.prefetching /\ r.current \in Nat
  BY DEF SwapCanvases, AtRest, Resting, Stopped, Readers
<1>2. c + 1 = r.current + 2 /\ c < Len(r.texts)
  BY <1>1 DEF NextReady
<1>3. ~IsBlank(r.texts[c + 1]) /\ r.texts # <<>>
  BY <1>1, <1>2, EmptySeq DEF Stocked, Behind, NextReady, NextThere
<1> HIDE DEF c, d
<1>4. /\ s.texts = r.texts /\ s.anchors = r.anchors /\ s.current = c
      /\ SameText(r, s) /\ s.workAnchor = r.workAnchor /\ s.chapterEnded = r.chapterEnded
      /\ s.entryOpen = r.entryOpen /\ s.rebuilding = r.rebuilding /\ s.active = r.active
      /\ s.prefetching = r.prefetching /\ s.prefetch = "Idle" /\ s.size = r.size
      /\ s.inputEnded = r.inputEnded /\ s.result = "Completed"
  BY <1>1 DEF Readers, SameText
<1>5. Flow(s)
  BY <1>1, <1>4 DEF Stocked, Flow, InPlace, Stuck, SameText
<1>6. Showing(s)
  BY <1>3, <1>4 DEF Showing
<1>7. Shelf(s)
  BY <1>4, <1>6 DEF Stocked, Shelf
<1>8. ~NextReady(s) /\ Behind(s)
  BY <1>1, <1>4 DEF NextReady, Behind
<1> QED
  BY <1>4, <1>5, <1>6, <1>7, <1>8 DEF Served, Stocked, OnScreen

(* A step that this is not about keeps the text and the cache in order. *)
LEMMA SamePage ==
  ASSUME NEW r, NEW s, Flow(r), Shelf(r), SameStock(r, s)
  PROVE  Flow(s) /\ Shelf(s)
BY DEF Flow, InPlace, Stuck, Shelf, Showing, SameStock, SameShelf, SameText

(* A reader that rests has both in order. *)
LEMMA RestsFlow ==
  ASSUME NEW c \in Readers, Settled(c), Placed(c), c.rebuilding = NoPage, ~c.active
  PROVE  Flow(c) /\ Shelf(c)
<1>1. c.pend \in Nat /\ c.seek \in Nat /\ c.workAnchor \in Anchors
  BY DEF Readers
<1>2. c.workAnchor.parserCheckpoint \in Nat
  BY <1>1 DEF Anchors
<1>3. ~c.chapterEnded => InPlace(c)
  BY <1>1, <1>2 DEF Settled, Placed, InPlace
<1> QED
  BY <1>3 DEF Flow, Shelf, Settled

(***************************************************************************)
(* prepareUncachedPage(): the next page, on the canvas in front or, for a  *)
(* prefetch, on the other.                                                 *)
(***************************************************************************)
Prepared(r, canvas, s) ==
  /\ Flow(s) /\ Shelf(s) /\ s.size = r.size /\ s.prefetch = r.prefetch
  /\ canvas = "back" => s.front = r.front
  /\ IF s.result = "Completed"
     THEN /\ Showing(s) /\ NextThere(s)
          /\ IF r.prefetching THEN s.current = r.current ELSE s.current + 1 = Len(s.texts)
     ELSE SameShelf(r, s)
  /\ s.result = "MoreWork" /\ r.prefetching => Prefetches(s)

Preparing(r, canvas) ==
  /\ Resting(r) /\ ~r.active /\ Flow(r) /\ Shelf(r) /\ r.current + 1 >= Len(r.texts)
  /\ r.prefetch = "Ready" => DoubleBuffer
  /\ r.prefetching => /\ canvas = "back" /\ OnScreen(r) /\ DoubleBuffer
                      /\ r.texts = <<>> => Fillable(r.checkpoint)

(* What the archive's failure or the end of the book leaves behind *)
LEMMA UnchangedPrepared ==
  ASSUME NEW r \in Readers, Flow(r), Shelf(r), NEW canvas, NEW s, SameStock(r, s),
         s.result \notin {"Completed", "MoreWork"}
  PROVE  Prepared(r, canvas, s)
BY SamePage DEF Prepared, SameStock, SameBehind

(* The page is full with the text that was left of the chapter. *)
LEMMA FilledPrepared ==
  ASSUME NEW r, NEW canvas \in {"front", "back"}, Preparing(r, canvas), ~r.chapterEnded,
         NEW o, SameStock(r, o), o \in Readers, Resting(o),
         NEW p, p = BlankPage(o, canvas), Pending(o) > 0, PageFull(p),
         NEW s, s = Commit(LayOut(p))
  PROVE  Prepared(r, canvas, s)
<1> DEFINE x == LayOut(p)
<1>1. /\ r \in Readers /\ r.rebuilding = NoPage /\ ~r.inputReady /\ ~r.layoutPending
      /\ r.pend \in Nat /\ r.fed \in Nat /\ r.workAnchor.parserCheckpoint \in Nat
      /\ r.current \in Nat /\ Len(r.texts) \in Nat
  <2>1. r \in Readers /\ r.rebuilding = NoPage /\ ~r.inputReady /\ ~r.layoutPending
    BY DEF Preparing, Resting, Flow, Shelf
  <2>2. r.workAnchor \in Anchors /\ r.texts \in Seq(Texts)
    BY <2>1 DEF Readers
  <2> QED
    BY <2>1, <2>2, LenProperties DEF Readers, Anchors
<1>2. Resting(p) /\ Fits(p) /\ p \in Readers
  BY BlankPageInv DEF Resting
<1>3. /\ SameShelf(o, p) /\ AlikeButWork(o, p) /\ p.work = NoText /\ p.target = canvas
      /\ p.prefetch = o.prefetch /\ p.size = o.size /\ p.inputEnded = o.inputEnded
      /\ (canvas = "back" => p.back = NoText /\ p.front = o.front)
  BY BlankPageApart
<1>4. /\ SameShelf(r, p) /\ p.prefetch = r.prefetch /\ p.size = r.size
      /\ p.inputEnded = r.inputEnded /\ p.prefetching = r.prefetching /\ ~p.active
      /\ SameText(r, p) /\ p.workAnchor = r.workAnchor /\ p.rebuilding = NoPage
      /\ ~p.chapterEnded
      /\ (canvas = "back" => p.front = r.front)
  <2>1. SameText(r, p) /\ p.workAnchor = r.workAnchor /\ p.rebuilding = NoPage
    BY <1>1, <1>3 DEF SameStock, AlikeButWork, SamePages, SamePlace, SameText
  <2>2. p.prefetching = r.prefetching /\ ~p.active /\ ~p.chapterEnded
    BY <1>3 DEF SameStock, SameBehind, AlikeButWork, SamePlace, GoesOn, Preparing
  <2> QED
    BY <1>3, <2>1, <2>2 DEF SameStock, SameShelf, SameBehind
<1>5. /\ Resting(x) /\ Fits(x) /\ Laid(p, x) /\ ~x.layoutPending /\ ~x.chapterEnded
      /\ x.inputEnded = p.inputEnded /\ x \in Readers
  BY <1>1, <1>2, <1>4, LayOutLaid, LayOutExtends DEF Extends, SameText, Resting
<1> HIDE DEF x
<1>6. /\ SameShelf(r, x) /\ x.prefetch = r.prefetch /\ x.size = r.size
      /\ x.prefetching = r.prefetching /\ ~x.active /\ x.workAnchor = r.workAnchor
      /\ x.rebuilding = NoPage /\ (canvas = "back" => x.front = r.front)
      /\ x.offset = r.offset /\ x.chapter = r.chapter /\ x.seek = r.seek
      /\ ~x.inputReady
      /\ x.inputEnded => x.offset = TextLength[x.chapter]
  <2>1. x.offset = r.offset /\ x.chapter = r.chapter /\ x.seek = r.seek /\ ~x.inputReady
    BY <1>1, <1>4, <1>5 DEF Laid, SameText
  <2>2. x.inputEnded => x.offset = TextLength[x.chapter]
    BY <1>4, <1>5, <2>1 DEF Preparing, Flow
  <2> QED
    BY <1>3, <1>4, <1>5, <2>1, <2>2 DEF Laid, SameShelf
<1>7. InPlace(r) \/ Len(r.texts) >= MaxHistory
  <2>1. r.pend # r.fed
    BY <1>1 DEF Pending, SameStock, SameText
  <2> QED
    BY <2>1 DEF Preparing, Flow, Stuck
<1>8. CASE Len(r.texts) >= MaxHistory
  <2>1. s = FailReader(x)
    BY <1>6, <1>8 DEF Commit, CommitRefused, SameShelf, x
  <2>2. x.current + 1 >= Len(x.texts) /\ x.current \in Nat /\ Len(x.texts) \in Nat
    BY <1>1, <1>6 DEF SameShelf, Preparing
  <2>3. Settled(x)
    <3>1. WithinBudget(x.texts) /\ \A i \in DOMAIN x.anchors : Fillable(x.anchors[i])
      BY <1>6 DEF Preparing, Shelf, SameShelf
    <3>2. Showing(x) \/ Fillable(x.workAnchor)
      BY <1>6 DEF Preparing, Shelf, SameShelf, Showing
    <3>3. NextThere(x)
      BY <2>2 DEF NextThere
    <3>4. x.prefetching \/ x.prefetch = "Ready" => DoubleBuffer
      BY <1>6 DEF Preparing
    <3> QED
      BY <1>5, <1>6, <3>1, <3>2, <3>3, <3>4 DEF Settled
  <2>4. Len(x.texts) >= MaxHistory
    BY <1>6, <1>8 DEF SameShelf
  <2>5. /\ Stocked(s) /\ SameShelf(x, s) /\ s.front = x.front /\ s.size = x.size
        /\ s.prefetch = x.prefetch /\ s.result = "Failed"
    BY <1>5, <2>1, <2>3, <2>4, FailReaderStocked
  <2> QED
    BY <1>6, <2>5 DEF Prepared, Stocked, SameShelf
<1>9. CASE InPlace(r)
  <2>1. /\ r.chapter \in Linear /\ r.workAnchor.spine = r.chapter
        /\ r.workAnchor.parserCheckpoint = r.pend /\ r.seek = 0
    <3>1. r.pend # r.fed
      BY <1>1 DEF Pending, SameStock, SameText
    <3> QED
      BY <1>1, <1>9, <3>1 DEF InPlace, Preparing
  <2>2. Size(NoText) = 0
    BY DEF Size, NoText
  <2>3. OnPage(p)
    <3>1. WithinBudget(p.texts) /\ \A i \in DOMAIN p.anchors : Fillable(p.anchors[i])
      BY <1>4 DEF Preparing, Shelf, SameShelf
    <3>2. Showing(p) \/ Fillable(p.workAnchor)
      BY <1>4 DEF Preparing, Shelf, SameShelf, Showing
    <3>3. p.chapter \in Linear /\ p.workAnchor.spine = p.chapter /\ p.seek = 0 /\ ~p.inputReady
          /\ p.workAnchor.parserCheckpoint + Size(p.work) = p.pend
      BY <1>1, <1>3, <1>4, <2>1, <2>2 DEF SameText
    <3>4. p.prefetching => p.target = "back" /\ p.back = p.work /\ OnScreen(p)
      BY <1>3, <1>4, SameShown DEF Preparing
    <3>5. p.prefetching \/ p.prefetch = "Ready" => DoubleBuffer /\ p.current + 1 >= Len(p.texts)
      BY <1>4 DEF Preparing, SameShelf
    <3> QED
      BY <1>4, <3>1, <3>2, <3>3, <3>4, <3>5 DEF OnPage
  <2>4. ~IsBlank(x.work)
    <3>1. Size(x.work) > 0
      BY <1>2, <1>5, FullOrAll DEF Laid
    <3>2. x.work.from \in Nat /\ x.work.to \in Nat
      BY <1>5 DEF Readers, Texts
    <3> QED
      BY <3>1, <3>2 DEF Size, IsBlank
  <2>5. IF s.result = "Failed"
        THEN s = FailReader(x) /\ Len(x.texts) >= MaxHistory
        ELSE Caught(x, s) /\ Settled(s) /\ Placed(s)
    BY <1>2, <1>4, <1>5, <1>6, <2>3, <2>4, CommitLaid DEF x
  <2>6. CASE s.result = "Failed"
    <3>1. Len(r.texts) >= MaxHistory
      BY <1>6, <2>5, <2>6 DEF SameShelf
    <3> QED
      BY <1>8, <3>1
  <2>7. CASE s.result # "Failed"
    <3>1. s.rebuilding = NoPage /\ ~s.active /\ s \in Readers
      BY <1>6, <2>5, <2>7 DEF Caught
    <3>2. Flow(s) /\ Shelf(s)
      BY <2>5, <2>7, <3>1, RestsFlow
    <3>3. s.result = "Completed"
      <4>1. Commits(x, s)
        BY <1>5, CommitCommits DEF x
      <4> QED
        BY <2>7, <4>1 DEF Commits
    <3> QED
      BY <1>6, <2>5, <2>7, <3>2, <3>3 DEF Caught, Prepared, SameShelf
  <2> QED
    BY <2>6, <2>7
<1> QED
  BY <1>7, <1>8, <1>9

(* The page goes on with the next step, or with the chapter just opened. *)
LEMMA StartedPrepared ==
  ASSUME NEW r, NEW canvas \in {"front", "back"}, Preparing(r, canvas),
         NEW o, Apart(r, o), Resting(o), Flow(o), Shelf(o), ~o.chapterEnded,
         NEW p, p = BlankPage(o, canvas), ~(Pending(o) > 0 /\ PageFull(p)),
         NEW s, s = [LayOut(p) EXCEPT !.active = TRUE, !.result = "MoreWork"]
  PROVE  Prepared(r, canvas, s)
<1> DEFINE x == LayOut(p)
<1>1. /\ o \in Readers /\ o.rebuilding = NoPage /\ ~o.inputReady /\ ~o.layoutPending /\ ~o.active
      /\ o.pend \in Nat /\ o.fed \in Nat /\ o.pend <= o.fed /\ o.seek \in Nat
      /\ o.workAnchor.parserCheckpoint \in Nat
  <2>1. o \in Readers /\ ~o.active /\ o.pend <= o.fed
    BY DEF Resting, TextInOrder, Apart, Preparing
  <2>2. o.rebuilding = NoPage /\ ~o.inputReady /\ ~o.layoutPending
    BY <2>1 DEF Flow, Shelf
  <2>3. o.workAnchor \in Anchors
    BY <2>1 DEF Readers
  <2> QED
    BY <2>1, <2>2, <2>3 DEF Readers, Anchors
<1>2. Resting(p) /\ Fits(p) /\ p \in Readers
  BY BlankPageInv DEF Resting
<1>3. /\ SameShelf(o, p) /\ AlikeButWork(o, p) /\ p.work = NoText /\ p.target = canvas
      /\ p.prefetch = o.prefetch /\ p.size = o.size /\ p.inputEnded = o.inputEnded
      /\ (canvas = "back" => p.back = NoText /\ p.front = o.front)
  BY <1>1, BlankPageApart
<1>4. /\ SameText(o, p) /\ p.workAnchor = o.workAnchor /\ p.rebuilding = NoPage
      /\ p.chapterEnded = o.chapterEnded /\ p.entryOpen = o.entryOpen
      /\ p.prefetching = o.prefetching /\ p.checkpoint = o.checkpoint
  BY <1>1, <1>3 DEF AlikeButWork, SamePages, SamePlace, GoesOn
<1>5. /\ Laid(p, x) /\ x.layoutPending = p.layoutPending /\ x.inputEnded = p.inputEnded
      /\ x.chapterEnded = p.chapterEnded /\ x \in Readers
  BY <1>2, LayOutLaid, LayOutExtends DEF Extends, Resting
<1>6. Taken(p) \in Nat /\ x.pend = o.pend + Taken(p) /\ x.pend = o.fed /\ Size(x.work) = Taken(p)
  <2>1. Taken(p) \in Nat /\ Taken(p) <= Pending(p)
    BY <1>2, TakenBounds
  <2>2. Pending(p) = o.fed - o.pend /\ Pending(o) = o.fed - o.pend
    BY <1>4 DEF Pending, SameText
  <2>3. x.pend = o.pend + Taken(p)
    BY <1>4, <1>5 DEF Laid, SameText
  <2>4. Size(NoText) = 0
    BY DEF Size, NoText
  <2>5. Size(x.work) = Taken(p)
    BY <1>3, <1>5, <2>1, <2>4 DEF Laid
  <2>6. CASE Pending(o) > 0
    <3>1. p.pend + Taken(p) = p.fed
      BY <1>2, <2>6, FullOrAll
    <3> QED
      BY <1>4, <2>1, <2>3, <2>5, <3>1 DEF SameText
  <2>7. CASE ~(Pending(o) > 0)
    BY <1>1, <2>1, <2>2, <2>3, <2>5, <2>7
  <2> QED
    BY <2>6, <2>7
<1> HIDE DEF x
<1>7. s = [x EXCEPT !.active = TRUE, !.result = "MoreWork"]
  BY DEF x
<1>8. /\ SameShelf(x, s) /\ s.rebuilding = x.rebuilding /\ s.workAnchor = x.workAnchor
      /\ s.chapter = x.chapter /\ s.entryOpen = x.entryOpen /\ s.offset = x.offset
      /\ s.fed = x.fed /\ s.pend = x.pend /\ s.inputReady = x.inputReady /\ s.seek = x.seek
      /\ s.layoutPending = x.layoutPending /\ s.inputEnded = x.inputEnded
      /\ s.chapterEnded = x.chapterEnded
  BY <1>5, <1>7 DEF Readers, SameShelf
<1>9. /\ s.prefetching = x.prefetching /\ s.prefetch = x.prefetch /\ s.checkpoint = x.checkpoint
      /\ s.target = x.target /\ s.size = x.size /\ s.front = x.front /\ s.back = x.back
      /\ s.work = x.work /\ s.active = TRUE /\ s.result = "MoreWork"
  BY <1>5, <1>7 DEF Readers
<1>10. /\ SameShelf(o, s) /\ s.rebuilding = NoPage /\ s.workAnchor = o.workAnchor
       /\ s.chapter = o.chapter /\ s.entryOpen = o.entryOpen /\ s.offset = o.offset
       /\ s.fed = o.fed /\ s.pend = o.fed /\ s.seek = o.seek /\ s.inputEnded = o.inputEnded
       /\ ~s.inputReady /\ ~s.layoutPending /\ ~s.chapterEnded
  BY <1>1, <1>3, <1>4, <1>5, <1>6, <1>8 DEF Laid, SameShelf, SameText
<1>11. Flow(s)
  <2>1. CASE InPlace(o)
    <3>1. s.workAnchor.parserCheckpoint + Size(s.work) = s.pend + s.seek
      <4>1. o.workAnchor.parserCheckpoint = o.pend + o.seek
        BY <1>1, <2>1 DEF InPlace
      <4>2. Size(s.work) = Taken(p) /\ o.fed = o.pend + Taken(p)
        BY <1>6, <1>9
      <4> QED
        BY <1>1, <1>6, <1>10, <4>1, <4>2
    <3>2. InPlace(s)
      BY <1>9, <1>10, <2>1, <3>1 DEF InPlace
    <3> QED
      BY <1>9, <1>10, <3>2 DEF Flow
  <2>2. CASE Stuck(o)
    <3>1. Stuck(s)
      BY <1>10, <2>2 DEF Stuck
    <3> QED
      BY <1>9, <1>10, <3>1 DEF Flow
  <2> QED
    BY <2>1, <2>2 DEF Flow
<1>12. Shelf(s)
  BY <1>10 DEF Shelf, Showing, SameShelf
<1>13. SameShelf(r, s) /\ s.prefetching = r.prefetching /\ s.prefetch = r.prefetch
       /\ s.checkpoint = r.checkpoint /\ s.size = r.size
       /\ (canvas = "back" => s.front = r.front)
  BY <1>3, <1>4, <1>5, <1>9, <1>10 DEF Apart, Laid, SameShelf, SameBehind
<1>14. r.prefetching => Prefetches(s)
  <2>1. r.prefetching => s.target = "back" /\ s.back = s.work
    BY <1>3, <1>5, <1>9 DEF Preparing, Laid
  <2> QED
    BY <1>10, <1>13, <2>1, SameShown DEF Prefetches, Preparing, SameShelf
<1> QED
  BY <1>9, <1>11, <1>12, <1>13, <1>14 DEF Prepared

(* An uncached page is prepared, whatever the archive answers. *)
LEMMA PreparePrepared ==
  ASSUME TextEverywhere, NEW r, NEW canvas \in {"front", "back"}, Preparing(r, canvas), NEW ok,
         NEW s, s = PrepareUncachedPage(r, canvas, ok)
  PROVE  Prepared(r, canvas, s)
<1> DEFINE o == IF r.chapterEnded THEN OpenNextLinearSpine(r, ok) ELSE Return(r, "Completed")
<1> DEFINE p == BlankPage(o, canvas)
<1> DEFINE laid == LayOut(p)
<1> DEFINE filled == Pending(o) > 0 /\ PageFull(p)
<1> DEFINE w == IF o.error THEN "Failed" ELSE "Idle"
<1> DEFINE started == [laid EXCEPT !.active = TRUE, !.result = "MoreWork"]
<1>1. /\ r \in Readers /\ ValidCache(r) /\ ~r.active /\ Flow(r) /\ Shelf(r) /\ Resting(r)
      /\ ~r.inputReady /\ ~r.layoutPending
  BY RestingValid DEF Preparing, Resting, Flow
<1>2. s = IF r.endOfBook THEN Idle(r)
          ELSE IF o.result = "Failed" THEN Return(o, w)
          ELSE IF filled THEN Commit(laid) ELSE started
  BY <1>1 DEF PrepareUncachedPage
<1>3. CASE r.endOfBook
  <2>1. s = Idle(r)
    BY <1>2, <1>3
  <2>2. SameStock(r, s) /\ s.result = "Idle"
    BY <1>1, <2>1, ReturnSame, IdleKeeps
  <2> QED
    BY <1>1, <2>2, UnchangedPrepared
<1>4. CASE ~r.endOfBook /\ r.chapterEnded
  <2>1. o = OpenNextLinearSpine(r, ok)
    BY <1>4
  <2>2. /\ Opens(r, o) /\ Apart(r, o) /\ Resting(o) /\ o \in Readers
        /\ (o.result = "Failed" => SameStock(r, o)) /\ (o.result # "Failed" => ~o.inputEnded)
    BY <1>1, <2>1, OpenNextLinearSpineOpens, OpenNextApart DEF Opens, Resting
  <2>3. CASE o.result = "Failed"
    <3>1. s = Return(o, w) /\ w \in {"Failed", "Idle"}
      BY <1>2, <1>4, <2>3
    <3> HIDE DEF w, o, p, laid, filled, started
    <3>2. SameStock(o, s) /\ s.result = w
      <4>1. o \in Readers /\ s = Return(o, w)
        BY <2>2, <3>1
      <4>2. SameStock(o, s)
        BY <4>1, ReturnSame
      <4>3. s.result = w
        BY <4>1 DEF Return, Readers
      <4> QED
        BY <4>2, <4>3
    <3>3. SameStock(r, s)
      BY <2>2, <2>3, <3>2, SameTrans
    <3> QED
      BY <1>1, <3>1, <3>2, <3>3, UnchangedPrepared
  <2>4. ASSUME o.result # "Failed"
        PROVE  /\ Flow(o) /\ Shelf(o) /\ ~filled /\ s = started /\ ~o.chapterEnded
               /\ Apart(r, o) /\ Resting(o)
    <3>1. PICK c \in Linear : Fresh(r, o, c)
      BY <1>1, <2>1, <2>4, OpenNextFresh
    <3> HIDE DEF o
    <3>2. /\ o.chapter = c /\ o.pend = 0 /\ o.fed = 0 /\ o.offset = 0 /\ o.seek = 0
          /\ ~o.inputReady /\ ~o.layoutPending /\ ~o.chapterEnded /\ ~o.active
          /\ o.workAnchor = StartOf(c) /\ StartOf(c).spine = c
          /\ StartOf(c).parserCheckpoint = 0
      BY <1>1, <1>4, <3>1 DEF Fresh, AtStart, GoesOn, Flow, StartOf
    <3>3. Fillable(o.workAnchor)
      BY <3>2 DEF TextEverywhere, Fillable
    <3>4. Flow(o)
      BY <2>2, <2>4, <3>2 DEF Flow, InPlace
    <3>5. Shelf(o)
      BY <1>1, <2>2, <3>2, <3>3 DEF Shelf, Apart, SameShelf
    <3>6. ~filled
      BY <3>2 DEF Pending
    <3>7. s = started /\ ~o.chapterEnded
      BY <1>2, <1>4, <2>4, <3>2, <3>6
    <3>8. Apart(r, o) /\ Resting(o)
      BY <2>2
    <3> QED
      BY <3>4, <3>5, <3>6, <3>7, <3>8
  <2> HIDE DEF o
  <2>5. CASE o.result # "Failed"
    BY <2>4, <2>5, StartedPrepared
  <2> QED
    BY <2>3, <2>5
<1>5. CASE ~r.endOfBook /\ ~r.chapterEnded
  <2>1. o = Return(r, "Completed")
    BY <1>5
  <2>2. Keeps(r, o) /\ SameStock(r, o) /\ o.result = "Completed" /\ o \in Readers
    BY <1>1, <2>1, ReturnSame, ReturnKeeps DEF WorkResults, Keeps
  <2>3. Resting(o) /\ ~o.chapterEnded
    BY <1>1, <1>5, <2>2, KeepsResting DEF Keeps
  <2>4. Flow(o) /\ Shelf(o) /\ Apart(r, o)
    BY <1>1, <2>2, SamePage DEF Apart, SameStock
  <2>5. s = IF filled THEN Commit(laid) ELSE started
    BY <1>2, <1>5, <2>2
  <2> HIDE DEF o
  <2>6. CASE filled
    BY <1>5, <2>2, <2>3, <2>5, <2>6, FilledPrepared
  <2>7. CASE ~filled
    BY <2>3, <2>4, <2>5, <2>7, StartedPrepared
  <2> QED
    BY <2>6, <2>7
<1> QED
  BY <1>3, <1>4, <1>5

(* requestNextPage() *)
LEMMA RequestNextPageServed ==
  ASSUME TextEverywhere, NEW r, AtRest(r), Stocked(r), NEW ok, NEW s, s = RequestNextPage(r, ok)
  PROVE  Served(r, s) /\ s.size = r.size
<1>1. /\ ValidCache(r) /\ ~r.active /\ ~r.prefetching /\ r.current + 1 \in Nat
      /\ Resting(r) /\ Len(r.texts) \in Nat /\ r \in Readers /\ r.current \in Nat
      /\ (r.prefetch = "Ready" => DoubleBuffer)
  BY RestingValid DEF AtRest, Stopped, Resting, Readers, Stocked, Behind
<1>2. CASE r.current + 1 >= Len(r.texts)
  <2>1. s = PrepareUncachedPage(r, "front", ok)
    BY <1>1, <1>2 DEF RequestNextPage
  <2>2. Preparing(r, "front")
    BY <1>1, <1>2 DEF Preparing, Stocked
  <2>3. Prepared(r, "front", s)
    BY <2>1, <2>2, PreparePrepared
  <2>4. ~s.prefetching /\ s.current \in Nat /\ Len(s.texts) \in Nat
    <3>1. Resting(s) /\ s.prefetching \in {r.prefetching, FALSE}
      BY <1>1, <2>1, PrepareUncachedPagePrepares
    <3> QED
      BY <1>1, <3>1, LenProperties DEF Resting, Readers
  <2>5. s.current + 1 >= Len(s.texts)
    BY <1>1, <1>2, <2>3, <2>4 DEF Prepared, SameShelf
  <2>6. ~NextReady(s) /\ Behind(s)
    BY <1>1, <2>3, <2>4, <2>5 DEF NextReady, Behind, Prepared
  <2>7. OnScreen(r) => OnScreen(s)
    BY <2>3, SameShown DEF Prepared, OnScreen
  <2> QED
    BY <2>3, <2>6, <2>7 DEF Served, Prepared, Stocked
<1>3. CASE r.current + 1 < Len(r.texts) /\ r.prefetch = "Ready"
  <2>1. s = SwapCanvases(r)
    BY <1>1, <1>3 DEF RequestNextPage
  <2> QED
    BY <1>3, <2>1, SwapServed DEF NextReady
<1>4. CASE r.current + 1 < Len(r.texts) /\ r.prefetch # "Ready"
  <2> DEFINE c == RenderCachedPage(r, r.current + 1)
  <2>1. CASE IsBlank(r.texts[r.current + 2])
    <3>1. s = RebuildPage(r, r.current + 1, ok)
      BY <1>1, <1>4, <2>1 DEF RequestNextPage
    <3> QED
      BY <1>1, <1>4, <3>1, RebuildServed DEF NextReady
  <2>2. CASE ~IsBlank(r.texts[r.current + 2])
    <3>1. s = [c EXCEPT !.prefetch = "Idle"]
      BY <1>1, <1>4, <2>2 DEF RequestNextPage
    <3>2. r.current + 1 + 1 = r.current + 2
      BY <1>1
    <3>3. /\ Served(r, c) /\ c.size = r.size /\ Showing(c) /\ c \in Readers
          /\ c.workAnchor = r.workAnchor
      BY <1>1, <1>4, <2>2, <3>2, RenderServed, RenderCachedPageRests DEF AtRest, Resting
    <3> HIDE DEF c
    <3>4. Stocked(s) /\ SameShelf(c, s) /\ ~NextReady(s)
      BY <3>1, <3>3, PrefetchStocked DEF Served
    <3>5. s.size = c.size /\ s.result = c.result
      BY <3>1, <3>3 DEF Readers
    <3>6. Showing(s)
      BY <3>3, <3>4, SameShown
    <3> QED
      BY <3>3, <3>4, <3>5, <3>6 DEF Served, OnScreen
  <2> QED
    BY <2>1, <2>2
<1> QED
  BY <1>1, <1>2, <1>3, <1>4

(* requestPreviousPage(): a page that waits behind this one is given up. *)
LEMMA RequestPreviousPageServed ==
  ASSUME NEW r, AtRest(r), Stocked(r), NEW ok, NEW s, s = RequestPreviousPage(r, ok)
  PROVE  Served(r, s) /\ s.size = r.size
<1> DEFINE f == InvalidateReadyPrefetch(r)
<1>1. ValidCache(r) /\ r.current \in Nat /\ r \in Readers /\ ~r.active /\ Len(r.texts) \in Nat
  BY RestingValid DEF AtRest, Resting, Readers, Stopped
<1>2. /\ AtRest(f) /\ Stocked(f) /\ SameShelf(r, f) /\ ~NextReady(f) /\ f.prefetch # "Ready"
      /\ f.size = r.size
  <2>1. Keeps(r, f) /\ GoesOn(r, f)
    BY <1>1, InvalidateKeeps
  <2>2. f.prefetch # "Ready" /\ f.size = r.size
    BY <1>1 DEF InvalidateReadyPrefetch, Readers
  <2>3. Stocked(f) /\ SameShelf(r, f) /\ ~NextReady(f)
    BY <1>1, InvalidateStocked
  <2> HIDE DEF f
  <2> QED
    BY <2>1, <2>2, <2>3, AtRestKeeps
<1> HIDE DEF f
<1>3. CASE r.active \/ r.current = 0 \/ r.texts = <<>>
  <2>1. s = Idle(r)
    BY <1>1, <1>3 DEF RequestPreviousPage
  <2> QED
    BY <1>1, <2>1, IdleServed, IdleKeeps DEF Keeps
<1>4. CASE ~(r.active \/ r.current = 0 \/ r.texts = <<>>)
  <2>1. r.current - 1 \in Nat /\ r.current - 1 < Len(r.texts) /\ r.current - 1 + 1 = r.current
    BY <1>1, <1>4 DEF ValidCache
  <2>2. Served(f, s) /\ s.size = f.size /\ ~NextReady(s)
    <3>1. CASE IsBlank(r.texts[r.current])
      <4>1. s = RebuildPage(f, r.current - 1, ok)
        BY <1>1, <1>4, <3>1 DEF RequestPreviousPage, f
      <4> QED
        BY <1>2, <2>1, <4>1, RebuildServed
    <3>2. CASE ~IsBlank(r.texts[r.current])
      <4>1. s = RenderCachedPage(f, r.current - 1)
        BY <1>1, <1>4, <3>2 DEF RequestPreviousPage, f
      <4>2. Served(f, s) /\ s.size = f.size
        BY <1>2, <2>1, <3>2, <4>1, RenderServed DEF SameShelf
      <4> QED
        BY <1>2, <4>2 DEF Served
    <3> QED
      BY <3>1, <3>2
  <2>3. OnScreen(f) <=> OnScreen(r)
    BY <1>2, SameShown
  <2> QED
    BY <1>2, <2>2, <2>3 DEF Served
<1> QED
  BY <1>3, <1>4

(* A font that changes leaves the page and its place as they are. *)
LEMMA FontStocked ==
  ASSUME NEW r, AtRest(r), Stocked(r), NEW size \in Sizes, NEW family \in Families,
         NEW q, q \in {[r EXCEPT !.size = size], [r EXCEPT !.family = family]},
         NEW f, f = InvalidateReadyPrefetch(q)
  PROVE  AtRest(f) /\ Stocked(f) /\ SameShelf(r, f) /\ ~NextReady(f) /\ f.size = q.size
<1>1. r \in Readers
  BY DEF AtRest, Resting
<1>2. q \in Readers
  <2>1. [r EXCEPT !.size = size] \in Readers
    BY <1>1 DEF Readers
  <2>2. [r EXCEPT !.family = family] \in Readers
    BY <1>1 DEF Readers
  <2> QED
    BY <2>1, <2>2
<1>3. /\ SameShelf(r, q) /\ SameBehind(r, q) /\ SameText(r, q) /\ GoesOn(r, q)
      /\ q.rebuilding = r.rebuilding /\ q.work = r.work /\ q.workAnchor = r.workAnchor
      /\ q.inputEnded = r.inputEnded /\ q.chapterEnded = r.chapterEnded
      /\ q.entryOpen = r.entryOpen
  BY <1>1 DEF Readers, SameShelf, SameBehind, SameText, GoesOn
<1>4. AtRest(q)
  BY <1>2, <1>3 DEF AtRest, Resting, CacheInv, TextInOrder, Stopped, SameShelf, SameText, GoesOn
<1>5. Stocked(q)
  <2>1. Flow(q)
    BY <1>3 DEF Stocked, Flow, InPlace, Stuck, SameShelf, SameText, GoesOn
  <2>2. Shelf(q)
    BY <1>3 DEF Stocked, Shelf, Showing, SameShelf, GoesOn
  <2>3. Behind(q)
    BY <1>3 DEF Stocked, Behind, Prefetches, OnScreen, Showing, NextReady, NextThere,
                SameShelf, SameBehind, GoesOn
  <2> QED
    BY <2>1, <2>2, <2>3 DEF Stocked
<1>6. Stocked(f) /\ SameShelf(q, f) /\ ~NextReady(f)
  BY <1>2, <1>5, InvalidateStocked
<1>7. AtRest(f) /\ f.size = q.size
  BY <1>2, <1>4, InvalidateKeeps, AtRestKeeps DEF Keeps
<1> QED
  BY <1>3, <1>6, <1>7 DEF SameShelf

(* ... and is laid out again from there. *)
LEMMA RefontedServed ==
  ASSUME NEW r, AtRest(r), Stocked(r), NEW f, AtRest(f), Stocked(f), SameShelf(r, f),
         ~NextReady(f), r.texts # <<>>, NEW ok, NEW s, s = RebuildPage(f, r.current, ok)
  PROVE  Served(r, s) /\ s.result \in {"MoreWork", "Failed"}
<1>1. r.current \in Nat /\ r.current < Len(r.anchors)
  BY RestingValid DEF AtRest, Resting, Readers, ValidCache
<1>2. /\ Served(f, s) /\ ~NextReady(s) /\ s.result \in {"MoreWork", "Failed"}
      /\ (s.result = "MoreWork" => s.workAnchor = f.anchors[r.current + 1])
  <2>1. r.current < Len(f.anchors)
    BY <1>1 DEF SameShelf
  <2> QED
    BY <1>1, <2>1, RebuildServed
<1>3. f.anchors[r.current + 1] = CurrentAnchor(r)
  BY <1>1 DEF CurrentAnchor, SameShelf
<1>4. OnScreen(r) <=> OnScreen(f)
  BY SameShown
<1> QED
  BY <1>2, <1>3, <1>4 DEF Served

(* A font request that changes nothing, or lays the page out again *)
Refonted(r, s) ==
  /\ Served(r, s) /\ s.result # "Completed"
  /\ s.result = "Idle" => s.size = r.size

(* A font that cannot change changes nothing. *)
LEMMA IdleRefonted ==
  ASSUME NEW r \in Readers, Stocked(r)
  PROVE  Refonted(r, Idle(r))
<1>1. Idle(r).result = "Idle" /\ Idle(r).size = r.size
  BY DEF Idle, Return, Readers
<1> QED
  BY <1>1, IdleServed DEF Refonted

(* The current page is rebuilt with the new font, from its own anchor. *)
LEMMA RebuiltRefonted ==
  ASSUME NEW r, AtRest(r), Stocked(r), NEW size \in Sizes, NEW family \in Families,
         NEW q, q \in {[r EXCEPT !.size = size], [r EXCEPT !.family = family]},
         r.texts # <<>>, NEW ok,
         NEW s, s = RebuildPage(InvalidateReadyPrefetch(q), r.current, ok)
  PROVE  Refonted(r, s)
<1> DEFINE f == InvalidateReadyPrefetch(q)
<1>1. AtRest(f) /\ Stocked(f) /\ SameShelf(r, f) /\ ~NextReady(f)
  BY FontStocked
<1> HIDE DEF f
<1>2. Served(r, s) /\ s.result \in {"MoreWork", "Failed"}
  BY <1>1, RefontedServed DEF f
<1> QED
  BY <1>2 DEF Refonted

(* reflowCurrentPage() *)
LEMMA ReflowRefonted ==
  ASSUME NEW r, AtRest(r), Stocked(r), NEW size \in Sizes, NEW ok
  PROVE  Refonted(r, ReflowCurrentPage(r, size, ok))
<1> DEFINE q == [r EXCEPT !.size = size]
<1>1. ValidCache(r) /\ r \in Readers /\ r.family \in Families
  BY RestingValid DEF AtRest, Resting, Readers
<1>2. \/ ReflowCurrentPage(r, size, ok) = Idle(r)
      \/ /\ r.texts # <<>>
         /\ ReflowCurrentPage(r, size, ok) = RebuildPage(InvalidateReadyPrefetch(q), r.current, ok)
  BY <1>1 DEF ReflowCurrentPage
<1>3. q \in {[r EXCEPT !.size = size], [r EXCEPT !.family = r.family]}
  OBVIOUS
<1> HIDE DEF q
<1> QED
  BY <1>1, <1>2, <1>3, IdleRefonted, RebuiltRefonted

(* Both buttons do so, up to the largest and the smallest font. *)
LEMMA FontSizeRefonted ==
  ASSUME NEW r, AtRest(r), Stocked(r), NEW ok
  PROVE  Refonted(r, IncreaseFontSize(r, ok)) /\ Refonted(r, DecreaseFontSize(r, ok))
<1>1. Refonted(r, Idle(r))
  BY IdleRefonted DEF AtRest, Resting
<1> QED
  BY <1>1, ReflowRefonted DEF IncreaseFontSize, DecreaseFontSize

(* cycleFontFamily() *)
LEMMA CycleFontFamilyRefonted ==
  ASSUME NEW r, AtRest(r), Stocked(r), NEW ok
  PROVE  Refonted(r, CycleFontFamily(r, ok))
<1> DEFINE family == (r.family + 1) % 3
<1> DEFINE q == [r EXCEPT !.family = family]
<1>1. r \in Readers /\ r.size \in Sizes /\ family \in Families
  BY DEF AtRest, Resting, Readers, Families
<1>2. \/ CycleFontFamily(r, ok) = Idle(r)
      \/ /\ r.texts # <<>>
         /\ CycleFontFamily(r, ok) = RebuildPage(InvalidateReadyPrefetch(q), r.current, ok)
  BY DEF CycleFontFamily
<1> HIDE DEF family
<1>3. q \in {[r EXCEPT !.size = r.size], [r EXCEPT !.family = family]}
  OBVIOUS
<1> HIDE DEF q
<1> QED
  BY <1>1, <1>2, <1>3, IdleRefonted, RebuiltRefonted DEF q

(* requestPrefetch(): what is prefetched is the page after the last one. *)
LEMMA RequestPrefetchStocked ==
  ASSUME TextEverywhere, NEW r, AtRest(r), Stocked(r), OnScreen(r), NEW ok,
         NEW s, s = RequestPrefetch(r, ok)
  PROVE  Stocked(s) /\ OnScreen(s) /\ s.size = r.size
<1> DEFINE noted == [r EXCEPT !.checkpoint = r.workAnchor]
<1> DEFINE asked == [noted EXCEPT !.prefetching = TRUE, !.prefetch = "ReadingInput"]
<1> DEFINE p == PrepareUncachedPage(asked, "back", ok)
<1> DEFINE m == MoveTo(p, "Ready")
<1> DEFINE ready == [m EXCEPT !.prefetching = FALSE]
<1> DEFINE given == [p EXCEPT !.prefetching = FALSE, !.prefetch = "Idle"]
<1>1. /\ r \in Readers /\ ValidCache(r) /\ ~r.active /\ ~r.prefetching
      /\ r.current \in Nat /\ Len(r.texts) \in Nat
  BY RestingValid, LenProperties DEF AtRest, Resting, Stopped, Readers
<1>2. /\ noted \in Readers /\ noted.checkpoint = r.workAnchor
      /\ SameShelf(r, noted) /\ SameText(r, noted)
      /\ noted.prefetching = r.prefetching /\ noted.prefetch = r.prefetch /\ noted.size = r.size
      /\ noted.target = r.target /\ noted.back = r.back /\ noted.front = r.front
      /\ noted.rebuilding = r.rebuilding /\ noted.work = r.work
      /\ noted.workAnchor = r.workAnchor /\ noted.inputEnded = r.inputEnded
      /\ noted.chapterEnded = r.chapterEnded /\ noted.active = r.active
      /\ noted.entryOpen = r.entryOpen
  BY <1>1 DEF Readers, SameShelf, SameText
<1> HIDE DEF noted
<1>3. CASE PrefetchBlocked(r)
  <2>1. s = Idle(r)
    BY <1>1, <1>3 DEF RequestPrefetch
  <2> QED
    BY <1>1, <2>1, ReturnSame, SameStocked, SameShown DEF SameStock
<1>4. CASE ~PrefetchBlocked(r) /\ ~CanStart(r.prefetch)
  <2>1. s = Idle(noted)
    BY <1>1, <1>4 DEF RequestPrefetch, noted
  <2>2. Flow(noted) /\ Shelf(noted)
    BY <1>2 DEF Stocked, Flow, InPlace, Stuck, Shelf, Showing, SameShelf, SameText
  <2>3. Behind(noted)
    BY <1>1, <1>2 DEF Stocked, Behind, NextReady, NextThere, SameShelf
  <2>4. Stocked(noted) /\ OnScreen(noted)
    BY <1>2, <2>2, <2>3, SameShown DEF Stocked
  <2>5. SameStock(noted, s)
    BY <1>2, <2>1, ReturnSame
  <2> QED
    BY <1>2, <2>4, <2>5, SameStocked, SameShown DEF SameStock
<1>5. CASE ~PrefetchBlocked(r) /\ CanStart(r.prefetch)
  <2>1. s = CASE p.result = "MoreWork"  -> p
              [] p.result = "Completed" -> ready
              [] OTHER -> given
    BY <1>1, <1>5 DEF RequestPrefetch, noted
  <2>2. /\ asked \in Readers /\ SameShelf(noted, asked) /\ SameText(noted, asked)
        /\ asked.checkpoint = noted.checkpoint /\ asked.prefetching = TRUE
        /\ asked.prefetch = "ReadingInput" /\ asked.size = noted.size
        /\ asked.rebuilding = noted.rebuilding /\ asked.work = noted.work
        /\ asked.workAnchor = noted.workAnchor /\ asked.inputEnded = noted.inputEnded
        /\ asked.chapterEnded = noted.chapterEnded /\ asked.active = noted.active
        /\ asked.entryOpen = noted.entryOpen
    BY <1>2 DEF Readers, PrefetchStates, SameShelf, SameText
  <2> HIDE DEF asked
  <2>3. Resting(asked)
    BY <1>2, <2>2 DEF AtRest, Resting, CacheInv, TextInOrder, SameShelf, SameText
  <2>4. Flow(asked) /\ Shelf(asked)
    BY <1>2, <2>2 DEF Stocked, Flow, InPlace, Stuck, Shelf, Showing, SameShelf, SameText
  <2>5. Preparing(asked, "back")
    <3>1. DoubleBuffer /\ r.current + 1 >= Len(r.texts)
      BY <1>1, <1>5 DEF PrefetchBlocked
    <3>2. OnScreen(asked) /\ ~asked.active /\ asked.current + 1 >= Len(asked.texts)
      BY <1>1, <1>2, <2>2, <3>1, SameShown DEF SameShelf
    <3>3. asked.texts = <<>> => Fillable(asked.checkpoint)
      <4>1. r.texts = <<>> => Fillable(r.workAnchor)
        BY DEF Stocked, Shelf, Showing
      <4> QED
        BY <1>2, <2>2, <4>1 DEF SameShelf
    <3> QED
      BY <2>2, <2>3, <2>4, <3>1, <3>2, <3>3 DEF Preparing
  <2>6. /\ Resting(p) /\ p \in Readers /\ (p.result # "MoreWork" => ~p.active)
        /\ p.prefetching \in {TRUE, FALSE}
    <3>1. ~asked.active /\ "back" \in {"front", "back"}
      BY <2>5 DEF Preparing
    <3>2. /\ Resting(p) /\ p \in Readers /\ (p.result # "MoreWork" => ~p.active)
      BY <2>3, <3>1, PrepareUncachedPagePrepares DEF Resting
    <3> QED
      BY <3>2 DEF Readers
  <2>7. Prepared(asked, "back", p)
    BY <2>5, PreparePrepared
  <2>8. DoubleBuffer /\ OnScreen(asked) /\ asked.size = r.size
    BY <1>2, <2>2, <2>5 DEF Preparing
  <2> HIDE DEF p
  <2>9. CASE p.result = "MoreWork"
    <3>1. s = p
      BY <2>1, <2>9
    <3>2. Flow(p) /\ Shelf(p) /\ Prefetches(p) /\ p.size = r.size /\ SameShelf(asked, p)
          /\ p.prefetch = "ReadingInput"
      BY <2>2, <2>7, <2>8, <2>9 DEF Prepared
    <3>3. Stocked(p)
      BY <2>8, <3>2 DEF Stocked, Behind, NextReady
    <3> QED
      BY <2>8, <3>1, <3>2, <3>3, SameShown
  <2>10. CASE p.result = "Completed"
    <3>1. s = ready
      BY <2>1, <2>10
    <3>2. /\ m \in Readers /\ SameShelf(p, m) /\ SameText(p, m) /\ m.size = p.size
          /\ m.back = p.back /\ m.rebuilding = p.rebuilding /\ m.work = p.work
          /\ m.workAnchor = p.workAnchor /\ m.inputEnded = p.inputEnded
          /\ m.chapterEnded = p.chapterEnded /\ m.active = p.active
          /\ m.entryOpen = p.entryOpen
      <4>1. m \in Readers
        BY <2>6, MoveToKeeps DEF PrefetchStates, Keeps
      <4> QED
        BY <2>6, <4>1 DEF MoveTo, Readers, SameShelf, SameText
    <3> HIDE DEF m
    <3>3. /\ SameShelf(m, s) /\ SameText(m, s) /\ s.size = m.size
          /\ s.back = m.back /\ s.rebuilding = m.rebuilding /\ s.work = m.work
          /\ s.workAnchor = m.workAnchor /\ s.inputEnded = m.inputEnded
          /\ s.chapterEnded = m.chapterEnded /\ s.active = m.active
          /\ s.entryOpen = m.entryOpen /\ s.prefetching = FALSE
      BY <3>1, <3>2 DEF Readers, SameShelf, SameText
    <3>4. Flow(p) /\ Shelf(p) /\ Showing(p) /\ NextThere(p) /\ p.size = r.size /\ ~p.active
      BY <2>6, <2>7, <2>8, <2>10 DEF Prepared
    <3>5. Flow(s) /\ Shelf(s)
      BY <3>2, <3>3, <3>4 DEF Flow, InPlace, Stuck, Shelf, Showing, SameShelf, SameText
    <3>6. Showing(s) /\ NextThere(s) /\ ~s.active /\ ~s.prefetching
      BY <3>2, <3>3, <3>4 DEF Showing, NextThere, SameShelf
    <3>7. Behind(s)
      BY <2>8, <3>6 DEF Behind
    <3> QED
      BY <3>2, <3>3, <3>4, <3>5, <3>6, <3>7 DEF Stocked, OnScreen
  <2>11. CASE p.result \notin {"MoreWork", "Completed"}
    <3>1. s = given
      BY <2>1, <2>11
    <3>2. /\ SameShelf(p, s) /\ SameText(p, s) /\ s.size = p.size
          /\ s.rebuilding = p.rebuilding /\ s.work = p.work
          /\ s.workAnchor = p.workAnchor /\ s.inputEnded = p.inputEnded
          /\ s.chapterEnded = p.chapterEnded /\ s.active = p.active
          /\ s.entryOpen = p.entryOpen /\ s.prefetching = FALSE /\ s.prefetch = "Idle"
      BY <2>6, <3>1 DEF Readers, SameShelf, SameText
    <3>3. Flow(p) /\ Shelf(p) /\ p.size = r.size /\ SameShelf(asked, p)
      BY <2>7, <2>8, <2>11 DEF Prepared
    <3>4. Flow(s) /\ Shelf(s)
      BY <3>2, <3>3 DEF Flow, InPlace, Stuck, Shelf, Showing, SameShelf, SameText
    <3>5. Behind(s)
      BY <3>2 DEF Behind, NextReady
    <3>6. OnScreen(s)
      BY <2>8, <3>2, <3>3, SameShown
    <3> QED
      BY <3>2, <3>3, <3>4, <3>5, <3>6 DEF Stocked
  <2> QED
    BY <2>9, <2>10, <2>11
<1> QED
  BY <1>3, <1>4, <1>5
-----------------------------------------------------------------------------
(***************************************************************************)
(* A session that begins has no text cached, only the anchors of a         *)
(* restored history; one that could not begin has none either.             *)
(***************************************************************************)
LEMMA BlankWithinBudget ==
  ASSUME NEW texts, \A i \in DOMAIN texts : texts[i] = NoText
  PROVE  WithinBudget(texts)
<1>1. \A i \in DOMAIN texts : UnitsAt(texts, i) = {}
  <2>1. 0 + 1 .. 0 = {}
    OBVIOUS
  <2> QED
    BY <2>1 DEF UnitsAt, NoText
<1>2. UNION {UnitsAt(texts, i) : i \in DOMAIN texts} = {}
  BY <1>1
<1>3. CachedUnits(texts) = 0
  BY <1>2, FS_EmptySet DEF CachedUnits
<1>4. MaxCached \in Nat
  BY ReaderAssumption
<1>5. SmallPages(texts)
  BY <1>4 DEF SmallPages, Size, NoText
<1> QED
  BY <1>3, <1>4, <1>5 DEF WithinBudget

Begins(s) == Stocked(s) /\ ~NextReady(s) /\ (s.result = "Failed" => s.texts = <<>>)

Emptied(q) ==
  /\ q.texts = <<>> /\ q.anchors = <<>> /\ q.rebuilding = NoPage /\ ~q.active
  /\ ~q.prefetching /\ q.seek = 0 /\ ~q.inputReady /\ ~q.layoutPending /\ ~q.inputEnded
  /\ q.chapterEnded /\ q.workAnchor = StartOf(0) /\ q.prefetch = "Idle"

(* A session that is reset has no page. *)
LEMMA ResetEmpties ==
  ASSUME NEW r \in Readers
  PROVE  Emptied(ResetSession(r))
<1> DEFINE z == ResetSession(r)
<1>1. /\ z.texts = <<>> /\ z.anchors = <<>> /\ z.rebuilding = NoPage
      /\ ~z.active /\ ~z.prefetching
  BY ResetSessionInv DEF Stopped
<1>2. /\ z.seek = 0 /\ z.inputReady = FALSE /\ z.layoutPending = FALSE /\ z.inputEnded = FALSE
      /\ z.chapterEnded = TRUE /\ z.workAnchor = StartOf(0) /\ z.prefetch = "Idle"
  BY DEF ResetSession, Cleared
<1> HIDE DEF z
<1> QED
  BY <1>1, <1>2 DEF Emptied, z

(* Without a page nothing can be out of place. *)
LEMMA EmptiedStocked ==
  ASSUME TextEverywhere, NEW q, Emptied(q)
  PROVE  Stocked(q)
<1>1. Flow(q)
  BY DEF Emptied, Flow
<1>2. Shelf(q)
  <2>1. DOMAIN q.texts = {} /\ DOMAIN q.anchors = {}
    BY EmptySeq DEF Emptied
  <2>2. WithinBudget(q.texts)
    BY <2>1, BlankWithinBudget
  <2>3. Fillable(StartOf(0))
    BY DEF TextEverywhere, Fillable, StartOf
  <2> QED
    BY <2>1, <2>2, <2>3 DEF Emptied, Shelf
<1>3. Behind(q)
  BY DEF Emptied, Behind, NextReady
<1> QED
  BY <1>1, <1>2, <1>3 DEF Stocked

(* What an archive that refused the chapter leaves behind *)
LEMMA RefusedBegins ==
  ASSUME NEW q, Stocked(q), q.texts = <<>>, q.prefetch = "Idle",
         NEW o \in Readers, SameStock(q, o), NEW s, s = [o EXCEPT !.error = TRUE]
  PROVE  Begins(s)
<1>1. SameStock(o, s)
  BY DEF Readers, SameStock, SameShelf, SameBehind, SameText
<1>2. SameStock(q, s)
  BY <1>1, SameTrans
<1>3. Stocked(s)
  BY <1>2, SameStocked
<1> QED
  BY <1>2, <1>3 DEF Begins, NextReady, SameStock, SameShelf, SameBehind

(* A reader that opened a chapter at an anchor has text to lay out there. *)
LEMMA AnchoredBegins ==
  ASSUME NEW t, NEW a \in Anchors, a.spine \in Linear, Fillable(a), Anchored(t, a), t.active,
         ~t.inputEnded, t.rebuilding = NoPage, t.prefetch = "Idle", t.result # "Failed",
         \A i \in DOMAIN t.texts : t.texts[i] = NoText,
         \A i \in DOMAIN t.anchors : Fillable(t.anchors[i])
  PROVE  Begins(t)
<1>1. InPlace(t)
  <2>1. Size(NoText) = 0 /\ a.parserCheckpoint \in Nat
    BY DEF Size, NoText, Anchors
  <2> QED
    BY <2>1 DEF InPlace, Anchored, AtStart
<1>2. Flow(t)
  BY <1>1 DEF Flow, Anchored, AtStart
<1>3. Shelf(t)
  BY BlankWithinBudget DEF Shelf, Anchored
<1>4. Behind(t) /\ ~NextReady(t)
  BY DEF Behind, NextReady, Anchored
<1> QED
  BY <1>2, <1>3, <1>4 DEF Begins, Stocked

(* start() *)
LEMMA StartBegins ==
  ASSUME TextEverywhere, NEW r \in Readers, NEW ok
  PROVE  Begins(Start(r, ok))
<1> DEFINE z == ResetSession(r)
<1> DEFINE o == OpenNextLinearSpine(z, ok)
<1> DEFINE p == BlankPage(o, "front")
<1> DEFINE f == [o EXCEPT !.error = TRUE]
<1> DEFINE s == [p EXCEPT !.active = TRUE]
<1>1. Start(r, ok) = IF o.result = "Failed" THEN f ELSE s
  BY DEF Start
<1>2. /\ Resting(z) /\ Stopped(z) /\ z.texts = <<>> /\ z.anchors = <<>>
      /\ z.rebuilding = NoPage
  BY ResetSessionInv
<1>3. Stocked(z) /\ z.prefetch = "Idle" /\ z.seek = 0
  BY ResetEmpties, EmptiedStocked DEF Emptied
<1> HIDE DEF z
<1>4. /\ Opens(z, o) /\ o \in Readers /\ Apart(z, o)
      /\ IF o.result = "Failed" THEN SameStock(z, o) ELSE ~o.inputEnded
  BY <1>2, OpenNextLinearSpineOpens, OpenNextApart DEF Opens, Resting
<1>5. CASE o.result = "Failed"
  <2> HIDE DEF o
  <2>1. SameStock(z, o) /\ o \in Readers
    BY <1>4, <1>5
  <2>2. Begins(f)
    BY <1>2, <1>3, <2>1, RefusedBegins
  <2> QED
    BY <1>1, <1>5, <2>2
<1>6. CASE o.result # "Failed"
  <2>1. PICK c \in Linear : Fresh(z, o, c)
    BY <1>2, <1>6, OpenNextFresh
  <2> HIDE DEF o
  <2>2. Resting(o) /\ AlikeButWork(o, p) /\ p.work = NoText /\ Resting(p) /\ p \in Readers
    BY <1>4, BlankPageAlike, BlankPageInv DEF Opens, Resting
  <2>3. SameShelf(o, p) /\ p.prefetch = o.prefetch /\ p.inputEnded = o.inputEnded
        /\ p.result = o.result
    <3>1. p.result = o.result
      BY <1>4 DEF BlankPage, OnCanvas, Readers
    <3> HIDE DEF p
    <3> QED
      BY <1>4, <3>1, BlankPageApart DEF p
  <2> HIDE DEF p
  <2>4. /\ s.texts = p.texts /\ s.anchors = p.anchors /\ AlikeButActive(p, s) /\ s.active = TRUE
        /\ s.prefetch = p.prefetch /\ s.inputEnded = p.inputEnded /\ s.result = p.result
    BY <2>2 DEF Readers, AlikeButActive, SamePages, SamePlace, SameText
  <2> HIDE DEF s
  <2>5. StartOf(c) \in Anchors /\ StartOf(c).spine = c /\ StartOf(c).parserCheckpoint = 0
    BY BookFacts DEF StartOf, Anchors
  <2>6. Anchored(s, StartOf(c))
    BY <1>2, <1>3, <2>1, <2>2, <2>4, <2>5
       DEF Anchored, Fresh, AtStart, AlikeButActive, AlikeButWork, SamePlace,
           SameText, GoesOn, Stopped
  <2>7. /\ s.texts = <<>> /\ s.anchors = <<>> /\ s.rebuilding = NoPage /\ s.prefetch = "Idle"
        /\ ~s.inputEnded /\ s.result # "Failed"
    BY <1>2, <1>3, <1>4, <1>6, <2>1, <2>2, <2>3, <2>4
       DEF Fresh, AlikeButActive, AlikeButWork, SamePages, Apart, SameShelf, SameBehind
  <2>8. DOMAIN s.texts = {} /\ DOMAIN s.anchors = {}
    BY <2>7, EmptySeq
  <2>9. Fillable(StartOf(c))
    BY <2>5 DEF TextEverywhere, Fillable
  <2>10. Begins(s)
    BY <2>4, <2>5, <2>6, <2>7, <2>8, <2>9, AnchoredBegins
  <2> QED
    BY <1>1, <1>6, <2>10
<1> QED
  BY <1>5, <1>6

(* startAt() *)
LEMMA StartAtBegins ==
  ASSUME TextEverywhere, NEW r \in Readers, NEW anchor \in Anchors, Fillable(anchor),
         NEW size \in Sizes, NEW family \in Families,
         NEW history \in Seq(Anchors), \A i \in DOMAIN history : Fillable(history[i]), NEW ok
  PROVE  Begins(StartAt(r, anchor, size, family, history, ok))
<1> DEFINE z == ResetSession(r)
<1> DEFINE q == [z EXCEPT !.size = size, !.family = family]
<1> DEFINE o == OpenLinearSpineAt(q, anchor.spine, ok)
<1> DEFINE p == BlankPage(o, "front")
<1> DEFINE t == [i \in DOMAIN history |-> NoText]
<1> DEFINE f == [o EXCEPT !.error = TRUE]
<1> DEFINE s == [p EXCEPT !.workAnchor = anchor, !.seek = anchor.parserCheckpoint,
                          !.anchors = history, !.texts = t, !.active = TRUE]
<1>1. StartAt(r, anchor, size, family, history, ok) = IF o.result = "Failed" THEN f ELSE s
  BY DEF StartAt
<1>2. Resting(q) /\ Stopped(q) /\ q.rebuilding = NoPage
  <2>1. Resting(z) /\ Stopped(z) /\ z.rebuilding = NoPage
    BY ResetSessionInv
  <2> HIDE DEF z
  <2>2. q \in Readers
    BY <2>1 DEF Resting, Readers
  <2>3. /\ q.texts = z.texts /\ q.anchors = z.anchors /\ q.current = z.current
        /\ q.rebuilding = z.rebuilding /\ q.pend = z.pend /\ q.fed = z.fed
        /\ q.offset = z.offset /\ q.chapter = z.chapter /\ q.chapterEnded = z.chapterEnded
        /\ q.active = z.active /\ q.prefetching = z.prefetching
    BY <2>1 DEF Resting, Readers
  <2> HIDE DEF q
  <2> QED
    BY <2>1, <2>2, <2>3 DEF Resting, CacheInv, TextInOrder, Stopped
<1>3. Stocked(q) /\ q.texts = <<>> /\ q.prefetch = "Idle"
  <2>1. z \in Readers /\ Emptied(z)
    BY ResetSessionInv, ResetEmpties DEF Resting
  <2> HIDE DEF z
  <2>2. Emptied(q)
    BY <2>1 DEF Emptied, Readers
  <2> HIDE DEF q
  <2> QED
    BY <2>2, EmptiedStocked DEF Emptied
<1> HIDE DEF q
<1>4. /\ Opens(q, o) /\ o \in Readers /\ Apart(q, o)
      /\ IF o.result = "Failed" THEN SameStock(q, o) ELSE ~o.inputEnded
  BY <1>2, OpenLinearSpineAtOpens, OpenAtApart DEF Opens, Resting
<1>5. CASE o.result = "Failed"
  <2> HIDE DEF o
  <2>1. SameStock(q, o) /\ o \in Readers
    BY <1>4, <1>5
  <2>2. Begins(f)
    BY <1>3, <2>1, RefusedBegins
  <2> QED
    BY <1>1, <1>5, <2>2
<1>6. CASE o.result # "Failed"
  <2>1. anchor.spine \in Linear /\ Fresh(q, o, anchor.spine)
    BY <1>2, <1>6, OpenAtFresh
  <2> HIDE DEF o
  <2>2. Resting(o) /\ AlikeButWork(o, p) /\ p.work = NoText /\ p \in Readers
    BY <1>4, BlankPageAlike, BlankPageInv DEF Opens, Resting
  <2>3. p.prefetch = o.prefetch /\ p.inputEnded = o.inputEnded /\ p.result = o.result
    <3>1. p.result = o.result
      BY <1>4 DEF BlankPage, OnCanvas, Readers
    <3> HIDE DEF p
    <3> QED
      BY <1>4, <3>1, BlankPageApart DEF p
  <2> HIDE DEF p
  <2>4. \A i \in DOMAIN t : t[i] = NoText
    OBVIOUS
  <2> HIDE DEF t
  <2>5. /\ s.texts = t /\ s.anchors = history /\ s.rebuilding = p.rebuilding
        /\ s.workAnchor = anchor /\ s.active = TRUE
        /\ s.seek = anchor.parserCheckpoint /\ s.work = p.work /\ s.prefetching = p.prefetching
        /\ s.chapter = p.chapter /\ s.offset = p.offset /\ s.fed = p.fed /\ s.pend = p.pend
        /\ s.inputReady = p.inputReady /\ s.layoutPending = p.layoutPending
        /\ s.chapterEnded = p.chapterEnded /\ s.entryOpen = p.entryOpen
        /\ s.spineIndex = p.spineIndex /\ s.prefetch = p.prefetch
        /\ s.inputEnded = p.inputEnded /\ s.result = p.result
    BY <2>2 DEF Readers
  <2> HIDE DEF s
  <2>6. Anchored(s, anchor) /\ s.rebuilding = NoPage
    BY <1>2, <2>1, <2>2, <2>5
       DEF Anchored, Fresh, AtStart, AlikeButWork, SamePages, SamePlace, SameText, GoesOn, Stopped
  <2>7. s.prefetch = "Idle" /\ ~s.inputEnded /\ s.result # "Failed"
    BY <1>3, <1>4, <1>6, <2>3, <2>5 DEF Apart, SameBehind
  <2>8. Begins(s)
    BY <2>1, <2>4, <2>5, <2>6, <2>7, AnchoredBegins
  <2> QED
    BY <1>1, <1>6, <2>8
<1> QED
  BY <1>5, <1>6
-----------------------------------------------------------------------------
(***************************************************************************)
(* The loop.  Handlers leave a page, a layout, a dialog or what there was  *)
(* on the screen; another view may be drawn over a page that waits behind  *)
(* the current one only where nothing relies on its canvas.                *)
(***************************************************************************)
LEMMA IdleSame ==
  ASSUME NEW r \in Readers, Stocked(r)
  PROVE  /\ Stocked(Idle(r)) /\ Idle(r) \in Readers
         /\ OnScreen(Idle(r)) <=> OnScreen(r)
         /\ NextReady(Idle(r)) <=> NextReady(r)
         /\ Idle(r).prefetching = r.prefetching /\ Idle(r).active = r.active
         /\ Idle(r).size = r.size /\ Idle(r).workAnchor = r.workAnchor
<1>1. SameStock(r, Idle(r)) /\ Idle(r) \in Readers
  BY ReturnSame, IdleKeeps DEF Keeps
<1>2. Stocked(Idle(r))
  BY <1>1, SameStocked
<1> QED
  BY <1>1, <1>2, SameShown DEF SameStock, SameShelf, SameBehind, NextReady

(* Another view may draw over a canvas where no page waits in it ... *)
LEMMA DrawnOverStocked ==
  ASSUME NEW r \in Readers, Stocked(r), ~r.prefetching, NextReady(r) => ~Undisturbed,
         NEW d, d = DrawnOver(r)
  PROVE  /\ Stocked(d) /\ d \in Readers /\ (OnScreen(d) <=> OnScreen(r))
         /\ (NextReady(d) <=> NextReady(r)) /\ SameShelf(r, d)
         /\ d.size = r.size /\ d.workAnchor = r.workAnchor
<1>1. /\ SameShelf(r, d) /\ SameText(r, d) /\ d.size = r.size
      /\ d.rebuilding = r.rebuilding /\ d.work = r.work
      /\ d.workAnchor = r.workAnchor /\ d.inputEnded = r.inputEnded
      /\ d.chapterEnded = r.chapterEnded /\ d.active = r.active
      /\ d.entryOpen = r.entryOpen /\ ~d.prefetching /\ d.prefetch = r.prefetch
  BY DEF DrawnOver, OnCanvas, Readers, SameShelf, SameText
<1>2. d \in Readers
  BY OnCanvasKeeps, BookFacts DEF DrawnOver, Keeps
<1>3. Flow(d) /\ Shelf(d)
  BY <1>1 DEF Stocked, Flow, InPlace, Stuck, Shelf, Showing, SameShelf, SameText
<1>4. NextReady(d) <=> NextReady(r)
  BY <1>1 DEF NextReady, SameShelf
<1>5. Behind(d)
  BY <1>1, <1>4 DEF Stocked, Behind, NextThere, SameShelf
<1> QED
  BY <1>1, <1>2, <1>3, <1>4, <1>5, SameShown DEF Stocked

(* ... or where a cover has a canvas of its own. *)
LEMMA DrawnOverUnlessCoverStocked ==
  ASSUME NEW r \in Readers, Stocked(r), ~r.prefetching, NextReady(r) => ~Undisturbed \/ Cover,
         NEW d, d = DrawnOverUnlessCover(r)
  PROVE  /\ Stocked(d) /\ d \in Readers /\ (OnScreen(d) <=> OnScreen(r))
         /\ (NextReady(d) <=> NextReady(r)) /\ SameShelf(r, d)
         /\ d.size = r.size /\ d.workAnchor = r.workAnchor
<1>1. CASE Cover
  <2>1. d = r
    BY <1>1 DEF DrawnOverUnlessCover
  <2> QED
    BY <2>1 DEF SameShelf
<1>2. CASE ~Cover
  <2>1. d = DrawnOver(r)
    BY <1>2 DEF DrawnOverUnlessCover
  <2> QED
    BY <1>2, <2>1, DrawnOverStocked
<1> QED
  BY <1>1, <1>2

(* The loop presents a page that is there, *)
LEMMA PresentStocked ==
  ASSUME NEW r \in Readers, Stocked(r), OnScreen(r), Present(r)
  PROVE  StockInv' /\ rd'.size = r.size /\ rd'.workAnchor = r.workAnchor
BY IdleSame DEF Present, StockInv

(* ... or has it laid out first, *)
LEMMA LayOutPageStocked ==
  ASSUME NEW r \in Readers, Stocked(r), ~NextReady(r), LayOutPage(r)
  PROVE  StockInv' /\ rd'.size = r.size /\ rd'.workAnchor = r.workAnchor
BY IdleSame DEF LayOutPage, StockInv

(* ... or stays where it is, *)
LEMMA StayStocked ==
  ASSUME NEW r \in Readers, Stocked(r), app \in {"Reading", "ReaderMenu"} => OnScreen(r),
         app # "Reading" => ~NextReady(r), Stay(r)
  PROVE  StockInv' /\ rd'.size = r.size /\ rd'.workAnchor = r.workAnchor
BY IdleSame DEF Stay, StockInv

(* ... or shows the error of a reader that failed. *)
LEMMA ShowErrorStocked ==
  ASSUME NEW r \in Readers, Stocked(r), ~NextReady(r), ~r.prefetching, ShowError(r)
  PROVE  StockInv' /\ app' = "ErrorDialog"
<1>1. rd' = DrawnOver(Idle(r)) /\ app' = "ErrorDialog"
  BY DEF ShowError
<1>2. /\ Idle(r) \in Readers /\ Stocked(Idle(r)) /\ ~NextReady(Idle(r))
      /\ ~Idle(r).prefetching
  BY IdleSame
<1>3. Stocked(rd') /\ ~NextReady(rd')
  BY <1>1, <1>2, DrawnOverStocked
<1> QED
  BY <1>1, <1>3 DEF StockInv

(* Another size lays the current page out again, from its own anchor. *)
PlaceKept ==
  app = "Reading" /\ InBook' /\ rd'.size # rd.size => rd'.workAnchor = CurrentAnchor(rd)

(* Each reader action keeps the invariant, and the place unless it turns a page. *)
LEMMA ExecuteStocked ==
  ASSUME TextEverywhere, StockInv, AtRest(rd), app = "Reading", NEW a, NEW ok, Execute(a, ok)
  PROVE  StockInv' /\ PlaceKept
<1>0. rd \in Readers /\ Stocked(rd) /\ OnScreen(rd) /\ ~rd.prefetching
  BY DEF AtRest, Resting, Stopped, StockInv
<1>1. CASE a = "OpenMenu"
  <2> DEFINE f == InvalidateReadyPrefetch(rd)
  <2>1. rd' = DrawnOverUnlessCover(f) /\ app' = "ReaderMenu"
    BY <1>1 DEF Execute, ExecuteMenu
  <2>2. f \in Readers /\ Stocked(f) /\ ~NextReady(f) /\ SameShelf(rd, f) /\ ~f.prefetching
    BY <1>0, InvalidateStocked, InvalidateKeeps DEF Keeps, GoesOn
  <2> HIDE DEF f
  <2>3. Stocked(rd') /\ OnScreen(rd') /\ ~NextReady(rd')
    BY <1>0, <2>1, <2>2, DrawnOverUnlessCoverStocked, SameShown
  <2> QED
    BY <2>1, <2>3 DEF StockInv, PlaceKept, InBook
<1>2. CASE a \in {"PreviousPage", "NextPage"}
  <2> DEFINE r == IF a = "NextPage" THEN RequestNextPage(rd, ok) ELSE RequestPreviousPage(rd, ok)
  <2>1. AfterPageTurn(r)
    BY <1>2 DEF Execute
  <2>2. r \in Readers /\ Served(rd, r) /\ r.size = rd.size
    BY <1>0, RequestPreviousPageServes, RequestPreviousPageServed, RequestNextPageServes,
       RequestNextPageServed, ServedReader
  <2> HIDE DEF r
  <2>3. CASE r.result = "Completed"
    <3>1. Present(r) /\ OnScreen(r)
      BY <2>1, <2>2, <2>3 DEF AfterPageTurn, Served, OnScreen
    <3> QED
      BY <2>2, <3>1, PresentStocked DEF Served, PlaceKept
  <2>4. CASE r.result = "MoreWork"
    <3>1. LayOutPage(r) /\ ~NextReady(r)
      BY <2>1, <2>2, <2>4 DEF AfterPageTurn, Served
    <3> QED
      BY <2>2, <3>1, LayOutPageStocked DEF Served, PlaceKept
  <2>5. CASE r.result \notin {"Completed", "MoreWork"}
    <3>1. Stay(r) /\ OnScreen(r)
      BY <1>0, <2>1, <2>2, <2>5 DEF AfterPageTurn, Served
    <3> QED
      BY <2>2, <3>1, StayStocked DEF Served, PlaceKept
  <2> QED
    BY <2>3, <2>4, <2>5
<1>3. CASE a \notin {"OpenMenu", "PreviousPage", "NextPage"}
  <2> DEFINE r == IF a = "IncreaseFont" THEN IncreaseFontSize(rd, ok) ELSE DecreaseFontSize(rd, ok)
  <2>1. \/ Stay(rd)
        \/ r.result = "MoreWork" /\ LayOutPage(r)
        \/ r.result = "Idle" /\ Stay(r)
        \/ r.result = "Failed" /\ ShowError(r)
    BY <1>3 DEF Execute, ExecuteFont
  <2>2. r \in Readers /\ Refonted(rd, r) /\ ~r.prefetching
    <3>1. Serves(r)
      BY FontSizeServes
    <3>2. Refonted(rd, r)
      BY <1>0, FontSizeRefonted
    <3> HIDE DEF r
    <3> QED
      BY <3>1, <3>2, ServedReader DEF Serves
  <2> HIDE DEF r
  <2>3. /\ Stocked(r) /\ OnScreen(r) /\ (r.result \in {"MoreWork", "Failed"} => ~NextReady(r))
        /\ (r.result = "Idle" => r.size = rd.size)
        /\ (r.result # "Failed" /\ r.size # rd.size => r.workAnchor = CurrentAnchor(rd))
    BY <1>0, <2>2 DEF Refonted, Served
  <2>4. CASE Stay(rd)
    BY <1>0, <2>4, StayStocked DEF PlaceKept
  <2>5. CASE r.result = "MoreWork" /\ LayOutPage(r)
    BY <2>2, <2>3, <2>5, LayOutPageStocked DEF PlaceKept
  <2>6. CASE r.result = "Idle" /\ Stay(r)
    BY <2>2, <2>3, <2>6, StayStocked DEF PlaceKept
  <2>7. CASE r.result = "Failed" /\ ShowError(r)
    BY <2>2, <2>3, <2>7, ShowErrorStocked DEF PlaceKept, InBook
  <2> QED
    BY <2>1, <2>4, <2>5, <2>6, <2>7
<1> QED
  BY <1>1, <1>2, <1>3

(* An action that is queued waits: at most it cancels what is laid out ahead. *)
LEMMA QueuedStocked ==
  ASSUME StockInv, rd \in Readers, app = "Reading", NEW a, QueueAction(a)
  PROVE  /\ StockInv' /\ PlaceKept /\ rd'.front = rd.front /\ rd'.current = rd.current
<1>1. rd' \in {rd, CancelPrefetch(rd)} /\ app' = app
  BY DEF QueueAction
<1>2. Stocked(rd) /\ OnScreen(rd)
  BY DEF StockInv
<1>3. /\ Stocked(CancelPrefetch(rd)) /\ SameShelf(rd, CancelPrefetch(rd))
      /\ CancelPrefetch(rd).front = rd.front /\ CancelPrefetch(rd).size = rd.size
  BY <1>2, CancelStocked
<1>4. OnScreen(CancelPrefetch(rd))
  BY <1>2, <1>3, SameShown
<1> QED
  BY <1>1, <1>2, <1>3, <1>4 DEF StockInv, PlaceKept, SameShelf

(* An input is executed at once or queued. *)
LEMMA HandleReaderActionStocked ==
  ASSUME TextEverywhere, StockInv, ScreenInv, app = "Reading", NEW a, NEW ok,
         HandleReaderAction(a, ok)
  PROVE  /\ StockInv' /\ PlaceKept
         /\ rd.prefetching => rd'.front = rd.front /\ rd'.current = rd.current
<1>1. CASE busy \/ rd.prefetching
  <2>1. QueueAction(a) /\ rd \in Readers
    BY <1>1 DEF HandleReaderAction, ScreenInv, ReaderInv, Resting
  <2> QED
    BY <2>1, QueuedStocked
<1>2. CASE ~(busy \/ rd.prefetching)
  <2>1. Execute(a, ok)
    BY <1>2 DEF HandleReaderAction
  <2>2. AtRest(rd)
    BY <1>2, ScreenAtRest
  <2> QED
    BY <1>2, <2>1, <2>2, ExecuteStocked
<1> QED
  BY <1>1, <1>2

(* Asleep, the device may show a cover on the display's canvas. *)
LEMMA SleepStocked ==
  ASSUME StockInv, AtRest(rd), app \in {"Library", "Reading", "ReaderMenu"}, SleepAndWake,
         "Sleep" \in Gestures
  PROVE  StockInv' /\ PlaceKept
<1> DEFINE s == IF app = "Library" THEN DrawnOver(rd) ELSE DrawnOverUnlessCover(rd)
<1> DEFINE w == RedrawCurrentPage(s)
<1>0. rd \in Readers /\ Stocked(rd) /\ ~rd.prefetching
  BY DEF AtRest, Resting, Stopped, StockInv
<1>1. AtRest(s) /\ s \in Readers /\ ~s.prefetching
  BY DrawnOverRests, DrawnOverUnlessCoverRests DEF AtRest, Resting, Stopped
<1>2. /\ Stocked(s) /\ (OnScreen(s) <=> OnScreen(rd)) /\ (NextReady(s) <=> NextReady(rd))
      /\ SameShelf(rd, s) /\ s.size = rd.size
  <2>1. CASE app = "Library"
    <3>1. s = DrawnOver(rd) /\ ~NextReady(rd)
      BY <2>1 DEF StockInv
    <3> HIDE DEF s
    <3> QED
      BY <1>0, <3>1, DrawnOverStocked
  <2>2. CASE app # "Library"
    <3>1. s = DrawnOverUnlessCover(rd) /\ (~Undisturbed \/ Cover)
      BY <2>2 DEF Undisturbed
    <3> HIDE DEF s
    <3> QED
      BY <1>0, <3>1, DrawnOverUnlessCoverStocked
  <2> QED
    BY <2>1, <2>2
<1>3. IF app # "Library" /\ CanRedraw(s)
      THEN rd' = Idle(w) /\ app' = "Reading"
      ELSE rd' = DrawnOver(s) /\ app' = "Library"
  BY DEF SleepAndWake
<1> HIDE DEF s
<1>4. CASE app # "Library" /\ CanRedraw(s)
  <2>1. w \in Readers /\ Stocked(w) /\ Showing(w) /\ w.size = s.size
    BY <1>1, <1>2, <1>4, RedrawRests, RedrawServed DEF AtRest, Resting, Served
  <2> HIDE DEF w
  <2> QED
    BY <1>2, <1>3, <1>4, <2>1, IdleSame DEF StockInv, OnScreen, PlaceKept
<1>5. CASE ~(app # "Library" /\ CanRedraw(s))
  <2>1. ~NextReady(s)
    <3>1. CASE app # "Reading"
      BY <1>2, <3>1 DEF StockInv
    <3>2. CASE app = "Reading"
      <4>1. OnScreen(s) /\ ~CanRedraw(s)
        BY <1>2, <1>5, <3>2 DEF StockInv
      <4>2. ValidCache(s) /\ s.current \in Nat
        BY <1>1, RestingValid DEF AtRest, Resting, Readers
      <4>3. s.texts = <<>>
        BY <4>1, <4>2 DEF OnScreen, Showing, CanRedraw, ValidCache
      <4>4. Len(s.texts) = 0
        BY <4>3, EmptySeq
      <4> QED
        BY <4>2, <4>4 DEF NextReady
    <3> QED
      BY <3>1, <3>2
  <2>2. Stocked(DrawnOver(s)) /\ ~NextReady(DrawnOver(s))
    BY <1>1, <1>2, <2>1, DrawnOverStocked
  <2> QED
    BY <1>3, <1>5, <2>2 DEF StockInv, PlaceKept, InBook
<1> QED
  BY <1>4, <1>5

(* A book begins with its first page, at the saved place, or with an error. *)
LEMMA BegunStocked ==
  ASSUME NEW r, Starts(r), Begins(r),
         \/ r.result = "Failed" /\ ShowError(r)
         \/ r.result = "Failed" /\ Stay(r)
         \/ LayOutPage(r)
  PROVE  StockInv'
<1>1. r \in Readers /\ ~r.prefetching /\ Stocked(r) /\ ~NextReady(r)
  BY DEF Starts, ReaderInv, Resting, Begins
<1>2. r.result = "Failed" => OnScreen(r)
  BY DEF Begins, OnScreen
<1> QED
  BY <1>1, <1>2, ShowErrorStocked, StayStocked, LayOutPageStocked

(* When the book is parsed, its reader begins, saved state or none. *)
LEMMA BookParsedStocked ==
  ASSUME TextEverywhere, ScreenInv, BookParsed
  PROVE  StockInv'
<1>1. rd \in Readers
  BY DEF ScreenInv, ReaderInv, Resting
<1>2. \A r, ok : r \in Readers => Starts(Start(r, ok)) /\ Begins(Start(r, ok))
  BY StartStarts, StartBegins
<1>3. ASSUME NEW s \in SavedStates, NEW okSaved, NEW ok
      PROVE  /\ Starts(StartReaderWithSavedState(rd, s, okSaved, ok))
             /\ Begins(StartReaderWithSavedState(rd, s, okSaved, ok))
  <2> DEFINE restored == StartAt(rd, s.anchor, s.size, s.family, s.history, okSaved)
  <2>1. /\ s.anchor \in Anchors /\ s.size \in Sizes /\ s.family \in Families
        /\ s.history \in Seq(Anchors) /\ Fillable(s.anchor)
        /\ \A i \in DOMAIN s.history : Fillable(s.history[i])
    BY LoopAssumption DEF TextEverywhere
  <2>2. Starts(restored) /\ Begins(restored)
    BY <1>1, <2>1, StartAtStarts, StartAtBegins
  <2>3. StartReaderWithSavedState(rd, s, okSaved, ok) \in {Start(restored, ok), restored}
    BY DEF StartReaderWithSavedState
  <2> HIDE DEF restored
  <2>4. restored \in Readers
    BY <2>2 DEF Starts, ReaderInv, Resting
  <2> QED
    BY <1>2, <2>2, <2>3, <2>4
<1>4. PICK r : /\ Starts(r) /\ Begins(r)
               /\ IF r.result = "Failed" THEN ShowError(r) /\ UNCHANGED layingOut ELSE LayOutPage(r)
  BY <1>1, <1>2, <1>3 DEF BookParsed
<1> QED
  BY <1>4, BegunStocked

(* A page laid out again is laid out while its book is being opened. *)
LEMMA RebuildingOpens ==
  ASSUME LoopInv, StockInv, rd.rebuilding = rd.current
  PROVE  rd.active /\ ~rd.prefetching /\ app = "OpeningBook" /\ layingOut
<1>1. rd \in Readers /\ Shelf(rd) /\ Behind(rd)
  BY DEF LoopInv, ScreenInv, ReaderInv, Resting, StockInv, Stocked
<1>2. rd.rebuilding # NoPage
  BY <1>1 DEF Readers, NoPage
<1>3. rd.active /\ ~rd.prefetching
  BY <1>1, <1>2 DEF Shelf, Behind, Prefetches
<1> QED
  BY <1>3 DEF LoopInv, ScreenInv, RunsWhereExpected, RunsIn, ParsesAtRest

(* While the user reads, whatever runs is a prefetch. *)
LEMMA LayOutStepStocked ==
  ASSUME LoopInv, StockInv, LayOutStep
  PROVE  /\ StockInv'
         /\ InBook' /\ rd.rebuilding = rd.current => CurrentAnchor(rd') = CurrentAnchor(rd)
<1>1. PICK ok : LET r == ProcessNextChunk(rd, ok)
                IN  CASE r.result = "Completed" -> Present(r) /\ UNCHANGED layingOut
                      [] r.result = "Failed"    -> ShowError(r) /\ UNCHANGED layingOut
                      [] OTHER                  -> Stay(r)
  BY DEF LayOutStep
<1> DEFINE r == ProcessNextChunk(rd, ok)
<1>2. /\ app = "OpeningBook" /\ ReaderInv(rd) /\ Stocked(rd) /\ ~NextReady(rd)
      /\ ~rd.prefetching
  BY DEF LayOutStep, LoopInv, ScreenInv, RunsWhereExpected, RunsIn, ReaderInv, StockInv
<1>3. Steps(rd, r) /\ Advances(rd, r)
  BY <1>2, ProcessNextChunkSteps, ProcessNextChunkAdvances
<1>4. /\ r.result = "Completed" => Present(r)
      /\ r.result = "Failed" => ShowError(r)
      /\ r.result \notin {"Completed", "Failed"} => Stay(r)
  BY <1>1
<1> HIDE DEF r
<1>5. /\ r \in Readers /\ Stocked(r) /\ ~NextReady(r) /\ ~r.prefetching
      /\ (r.result = "Completed" => OnScreen(r))
      /\ (rd.rebuilding = rd.current => CurrentAnchor(r) = CurrentAnchor(rd))
  BY <1>2, <1>3 DEF Steps, ReaderInv, Resting, GoesOn, Stopped, Advances, OnScreen
<1>6. StockInv'
  BY <1>2, <1>4, <1>5, PresentStocked, ShowErrorStocked, StayStocked
<1>7. CurrentAnchor(Idle(r)) = CurrentAnchor(r)
  BY <1>5, ReturnSame DEF CurrentAnchor, SameStock, SameShelf
<1>8. InBook' => rd' = Idle(r)
  BY <1>4 DEF Present, ShowError, Stay, InBook
<1> QED
  BY <1>5, <1>6, <1>7, <1>8

(* requestPrefetch() and the first step after it, or the next of a prefetch *)
LEMMA PrefetchStepStocked ==
  ASSUME TextEverywhere, LoopInv, StockInv, PrefetchStep
  PROVE  /\ StockInv' /\ PlaceKept
         /\ rd.prefetching => rd'.front = rd.front /\ rd'.current = rd.current
<1>1. PICK asked, ok :
        LET r == IF rd.prefetching THEN rd ELSE RequestPrefetch(rd, asked)
        IN  rd' = Idle(IF r.prefetching THEN ProcessNextChunk(r, ok) ELSE r)
  BY DEF PrefetchStep
<1> DEFINE r == IF rd.prefetching THEN rd ELSE RequestPrefetch(rd, asked)
<1> DEFINE s == IF r.prefetching THEN ProcessNextChunk(r, ok) ELSE r
<1>2. rd' = Idle(s) /\ app = "Reading" /\ app' = app
  BY <1>1 DEF PrefetchStep
<1>3. ReaderInv(rd) /\ Stocked(rd) /\ OnScreen(rd) /\ ScreenInv
  BY <1>2 DEF LoopInv, ScreenInv, StockInv
<1>4. /\ ReaderInv(r) /\ Stocked(r) /\ OnScreen(r) /\ r.size = rd.size
      /\ (rd.prefetching => r = rd)
  <2>1. CASE rd.prefetching
    BY <1>3, <2>1
  <2>2. CASE ~rd.prefetching
    <3>1. AtRest(rd)
      BY <1>2, <1>3, <2>2, ScreenAtRest
    <3> QED
      BY <1>3, <2>2, <3>1, RequestPrefetchInv, RequestPrefetchStocked
  <2> QED
    BY <2>1, <2>2
<1> HIDE DEF r
<1>5. /\ s \in Readers /\ Stocked(s) /\ OnScreen(s) /\ s.size = r.size
      /\ (r.prefetching => s.front = r.front /\ s.current = r.current)
  <2>1. CASE r.prefetching
    <3>1. s = ProcessNextChunk(r, ok)
      BY <2>1
    <3>2. Steps(r, s) /\ Advances(r, s)
      BY <1>4, <3>1, ProcessNextChunkSteps, ProcessNextChunkAdvances
    <3> HIDE DEF s
    <3> QED
      BY <1>4, <3>2 DEF Steps, ReaderInv, Resting, Advances
  <2>2. CASE ~r.prefetching
    BY <1>4, <2>2 DEF ReaderInv, Resting
  <2> QED
    BY <2>1, <2>2
<1> HIDE DEF s
<1>6. /\ Stocked(rd') /\ OnScreen(rd') /\ rd'.size = rd.size
      /\ rd'.front = s.front /\ rd'.current = s.current
  BY <1>2, <1>4, <1>5, IdleSame, ReturnSame DEF SameStock, SameShelf, SameBehind
<1> QED
  BY <1>2, <1>4, <1>5, <1>6 DEF StockInv, PlaceKept

(* Two slices in one tick advance as one. *)
LEMMA AdvancesTwice ==
  ASSUME NEW r, NEW m, NEW s, Advances(r, m), Advances(m, s), m.active, GoesOn(r, m)
  PROVE  Advances(r, s)
BY DEF Advances, GoesOn

(* The slices done while the panel is busy are the reader's. *)
LEMMA CpuWorkAdvances ==
  ASSUME LoopInv, StockInv, CpuWork
  PROVE  Advances(rd, rd')
<1> DEFINE once == ProcessCpuOnlyWork(rd)
<1>1. ReaderInv(rd) /\ Stocked(rd)
  BY DEF LoopInv, ScreenInv, StockInv
<1>2. /\ ReaderInv(once) /\ Advances(rd, once)
      /\ GoesOn(rd, once) \/ Stopped(once)
  BY <1>1, ProcessCpuOnlyWorkSteps, ProcessCpuOnlyWorkAdvances
<1>3. rd' = once \/ (rd' = ProcessCpuOnlyWork(once) /\ HasCpuOnlyWork(once))
  BY DEF CpuWork
<1> HIDE DEF once
<1>4. CASE rd' = once
  BY <1>2, <1>4
<1>5. CASE rd' = ProcessCpuOnlyWork(once) /\ HasCpuOnlyWork(once)
  <2>1. once.active /\ Stocked(once)
    BY <1>2, <1>5 DEF Advances, Stocked, Flow, HasCpuOnlyWork
  <2>2. GoesOn(rd, once)
    BY <1>2, <2>1 DEF Stopped
  <2>3. Advances(once, rd')
    BY <1>2, <1>5, <2>1, ProcessCpuOnlyWorkAdvances
  <2> QED
    BY <1>2, <2>1, <2>2, <2>3, AdvancesTwice
<1> QED
  BY <1>3, <1>4, <1>5

(* They keep the invariant. *)
LEMMA CpuWorkStocked ==
  ASSUME LoopInv, StockInv, CpuWork
  PROVE  StockInv'
<1>1. Advances(rd, rd') /\ app' = app
  BY CpuWorkAdvances DEF CpuWork
<1>2. rd.active
  BY DEF CpuWork, HasCpuOnlyWork, StockInv, Stocked, Flow
<1>3. (app = "OpeningBook" /\ ~rd.prefetching) \/ app = "Reading"
  BY <1>2 DEF LoopInv, ScreenInv, RunsWhereExpected, RunsIn
<1> QED
  BY <1>1, <1>3 DEF Advances, StockInv

(* So does every step of the loop. *)
LEMMA StockStep ==
  TextEverywhere /\ LoopInv /\ StockInv /\ [Next]_vars => StockInv'
<1> SUFFICES ASSUME TextEverywhere, LoopInv, StockInv, [Next]_vars PROVE StockInv'
  OBVIOUS
<1>0. ScreenInv /\ ReaderInv(rd) /\ rd \in Readers /\ Stocked(rd)
  BY DEF LoopInv, ScreenInv, ReaderInv, Resting, StockInv
<1>1. CASE UNCHANGED <<rd, app>>
  BY <1>1 DEF StockInv
<1>2. CASE Lever \/ TouchPage
  <2>1. app = "Reading" /\ \E a, ok : HandleReaderAction(a, ok)
    BY <1>2 DEF Lever, TouchPage
  <2> QED
    BY <1>0, <2>1, HandleReaderActionStocked
<1>3. CASE PopAction
  <2>1. app = "Reading" /\ \E a, ok : Execute(a, ok)
    BY <1>3 DEF PopAction
  <2>2. AtRest(rd)
    BY <1>0, <1>3, <2>1, ScreenAtRest DEF PopAction
  <2> QED
    BY <2>1, <2>2, ExecuteStocked
<1>4. CASE CloseMenu
  <2>1. /\ app = "ReaderMenu"
        /\ \/ CanRedraw(rd) /\ Present(RedrawCurrentPage(rd))
           \/ rd' = rd /\ app' = "Reading"
    BY <1>4 DEF CloseMenu, TapMenu
  <2>2. AtRest(rd) /\ OnScreen(rd)
    BY <1>0, <2>1, ScreenAtRest DEF StockInv
  <2>3. CASE CanRedraw(rd) /\ Present(RedrawCurrentPage(rd))
    <3> DEFINE w == RedrawCurrentPage(rd)
    <3>1. w \in Readers /\ Stocked(w) /\ OnScreen(w)
      BY <1>0, <2>2, <2>3, RedrawRests, RedrawServed DEF AtRest, Resting, Served, OnScreen
    <3> HIDE DEF w
    <3> QED
      BY <2>3, <3>1, PresentStocked DEF w
  <2>4. CASE rd' = rd /\ app' = "Reading"
    BY <1>0, <2>2, <2>4 DEF StockInv
  <2> QED
    BY <2>1, <2>3, <2>4
<1>5. CASE TurnMenuPage \/ BackToLibrary
  <2>1. /\ app = "ReaderMenu" /\ rd' = DrawnOver(rd) /\ app' \in {"ReaderMenu", "Library"}
    BY <1>5 DEF TurnMenuPage, BackToLibrary, TapMenu
  <2>2. ~rd.prefetching /\ OnScreen(rd) /\ ~NextReady(rd)
    BY <1>0, <2>1, ScreenAtRest DEF AtRest, Stopped, StockInv
  <2>3. Stocked(rd') /\ OnScreen(rd') /\ ~NextReady(rd')
    BY <1>0, <2>1, <2>2, DrawnOverStocked
  <2> QED
    BY <2>1, <2>3 DEF StockInv
<1>6. CASE SelectTocEntry
  <2>0. PICK c \in Chapters : \E ok : LET r == StartAtSpine(rd, c, ok)
                                     IN  IF r.result = "Failed" THEN Stay(r) ELSE LayOutPage(r)
    BY <1>6 DEF SelectTocEntry
  <2>1. PICK ok : LET r == StartAtSpine(rd, c, ok)
                  IN  IF r.result = "Failed" THEN Stay(r) ELSE LayOutPage(r)
    BY <2>0
  <2> DEFINE r == StartAtSpine(rd, c, ok)
  <2>2. Starts(r) /\ Begins(r)
    <3>1. rd.size \in Sizes
      BY <1>0 DEF Readers
    <3>2. /\ StartOf(c) \in Anchors /\ Compact \in Families /\ <<>> \in Seq(Anchors)
          /\ DOMAIN <<>> = {}
      BY BookFacts DEF StartOf, Anchors, Compact, Families
    <3>3. Fillable(StartOf(c))
      BY DEF TextEverywhere, Fillable, StartOf
    <3> QED
      BY <1>0, <3>1, <3>2, <3>3, StartAtStarts, StartAtBegins DEF StartAtSpine
  <2>3. (r.result = "Failed" /\ Stay(r)) \/ LayOutPage(r)
    BY <2>1
  <2> HIDE DEF r
  <2> QED
    BY <2>2, <2>3, BegunStocked
<1>7. CASE TapFontFamily
  <2>1. app = "ReaderMenu"
    BY <1>7 DEF TapFontFamily, TapMenu
  <2>2. AtRest(rd) /\ OnScreen(rd) /\ ~NextReady(rd)
    BY <1>0, <2>1, ScreenAtRest DEF StockInv
  <2>3. PICK ok : LET r == CycleFontFamily(rd, ok)
                  IN  IF r.result = "MoreWork" THEN LayOutPage(r) ELSE Stay(r)
    BY <1>7 DEF TapFontFamily
  <2> DEFINE r == CycleFontFamily(rd, ok)
  <2>4. r \in Readers /\ Refonted(rd, r)
    BY <1>0, <2>2, CycleFontFamilyServes, CycleFontFamilyRefonted, ServedReader
  <2>5. LayOutPage(r) \/ Stay(r)
    BY <2>3
  <2> HIDE DEF r
  <2>6. Stocked(r) /\ OnScreen(r) /\ ~NextReady(r)
    BY <2>2, <2>4 DEF Refonted, Served
  <2> QED
    BY <2>4, <2>5, <2>6, LayOutPageStocked, StayStocked
<1>8. CASE ConfirmRestart
  <2>1. PICK ok : LET r == Start(rd, ok)
                  IN  IF r.result = "Failed" THEN ShowError(r) /\ UNCHANGED layingOut
                      ELSE LayOutPage(r)
    BY <1>8 DEF ConfirmRestart
  <2> DEFINE r == Start(rd, ok)
  <2>2. Starts(r) /\ Begins(r)
    BY <1>0, StartStarts, StartBegins
  <2>3. (r.result = "Failed" /\ ShowError(r)) \/ LayOutPage(r)
    BY <2>1
  <2> HIDE DEF r
  <2> QED
    BY <2>2, <2>3, BegunStocked
<1>9. CASE TapSleep
  <2>1. app = "ReaderMenu" /\ SleepAndWake /\ "Sleep" \in Gestures
    BY <1>9 DEF TapSleep, TapMenu
  <2> QED
    BY <1>0, <2>1, ScreenAtRest, SleepStocked
<1>10. CASE AutomaticSleep
  <2>1. /\ app \in {"Library", "Reading", "ReaderMenu"} /\ ~rd.prefetching /\ SleepAndWake
        /\ "Sleep" \in Gestures
    BY <1>10 DEF AutomaticSleep
  <2> QED
    BY <1>0, <2>1, ScreenAtRest, SleepStocked
<1>11. CASE OpenBook
  <2> DEFINE d == DrawnOver(rd)
  <2>1. rd' = [d EXCEPT !.entryOpen = FALSE] /\ app' = "OpeningBook" /\ app = "Library"
    BY <1>11 DEF OpenBook
  <2>2. ~rd.prefetching /\ ~NextReady(rd)
    BY <1>0, <2>1, ScreenAtRest DEF AtRest, Stopped, StockInv
  <2>3. d \in Readers /\ Stocked(d) /\ ~NextReady(d)
    BY <1>0, <2>2, DrawnOverStocked
  <2> HIDE DEF d
  <2>4. SameStock(d, rd')
    BY <2>1, <2>3 DEF Readers, SameStock, SameShelf, SameBehind, SameText
  <2>5. Stocked(rd') /\ ~NextReady(rd')
    BY <2>3, <2>4, SameStocked DEF NextReady, SameStock, SameShelf, SameBehind
  <2> QED
    BY <2>1, <2>5 DEF StockInv
<1>12. CASE DismissError
  BY <1>12 DEF DismissError, StockInv
<1>13. CASE CpuWork
  BY <1>13, CpuWorkStocked
<1>14. CASE ParseBook \/ ParseFailed
  <2>1. app = "OpeningBook" /\ (Stay(rd) \/ ShowError(rd))
    BY <1>14 DEF ParseBook, ParseFailed, Parsing
  <2>2. ~rd.prefetching /\ ~NextReady(rd)
    BY <1>0, <2>1 DEF ScreenInv, RunsWhereExpected, RunsIn, ReaderInv, StockInv
  <2> QED
    BY <1>0, <2>1, <2>2, StayStocked, ShowErrorStocked
<1>15. CASE BookParsed
  BY <1>0, <1>15, BookParsedStocked
<1>16. CASE LayOutStep \/ PrefetchStep
  BY <1>16, LayOutStepStocked, PrefetchStepStocked
<1>17. CASE PressCenter \/ NoInput \/ NothingToPop \/ PanelNeedsNothing \/ NothingToWorkOn
            \/ ServiceManualRefresh \/ DisplayIdle
  BY <1>1, <1>17 DEF PressCenter, NoInput, NothingToPop, PanelNeedsNothing, NothingToWorkOn,
     ServiceManualRefresh, DisplayIdle
<1>18. CASE UNCHANGED vars
  BY <1>1, <1>18 DEF vars
<1>19. CASE DrawLibrary
  <2>1. app = "Library" /\ app' = "Library" /\ rd' \in {rd, DrawnOver(rd)}
    BY <1>19 DEF DrawLibrary
  <2>2. ~rd.prefetching /\ ~NextReady(rd)
    BY <1>0, <2>1, ScreenAtRest DEF AtRest, Stopped, StockInv
  <2>3. Stocked(rd') /\ ~NextReady(rd')
    BY <1>0, <2>1, <2>2, DrawnOverStocked
  <2> QED
    BY <2>1, <2>3 DEF StockInv
<1> QED
  BY <1>2, <1>3, <1>4, <1>5, <1>6, <1>7, <1>8, <1>9, <1>10, <1>11, <1>12, <1>13, <1>14, <1>15,
     <1>16, <1>17, <1>18, <1>19 DEF Next, Input, Work

(* The initial state satisfies it. *)
LEMMA InitStocked == TextEverywhere /\ Init => StockInv
<1> SUFFICES ASSUME TextEverywhere, Init PROVE StockInv
  OBVIOUS
<1> DEFINE z == NewReader
<1>1. z \in Readers
  BY NewReaderInv DEF ReaderInv, Resting
<1>2. /\ z.texts = <<>> /\ z.anchors = <<>> /\ z.rebuilding = NoPage /\ z.pend = z.fed
      /\ ~z.active /\ ~z.prefetching /\ ~z.inputReady /\ ~z.layoutPending /\ ~z.inputEnded
      /\ ~z.chapterEnded /\ ~z.entryOpen /\ z.workAnchor = StartOf(0) /\ z.prefetch = "Idle"
  BY DEF NewReader, Cleared
<1> HIDE DEF z
<1>3. rd = [z EXCEPT !.front = OtherScreen] /\ app = "Library"
  BY DEF Init, OnCanvas, z
<1>4. /\ rd.texts = <<>> /\ rd.anchors = <<>> /\ rd.rebuilding = NoPage /\ rd.pend = rd.fed
      /\ ~rd.active /\ ~rd.prefetching /\ ~rd.inputReady /\ ~rd.layoutPending /\ ~rd.inputEnded
      /\ ~rd.chapterEnded /\ ~rd.entryOpen /\ rd.workAnchor = StartOf(0) /\ rd.prefetch = "Idle"
  BY <1>1, <1>2, <1>3 DEF Readers
<1>5. Flow(rd)
  BY <1>4 DEF Flow, Stuck
<1>6. Shelf(rd)
  <2>1. DOMAIN rd.texts = {} /\ DOMAIN rd.anchors = {}
    BY <1>4, EmptySeq
  <2>2. WithinBudget(rd.texts)
    BY <2>1, BlankWithinBudget
  <2>3. Fillable(StartOf(0))
    BY DEF TextEverywhere, Fillable, StartOf
  <2> QED
    BY <1>4, <2>1, <2>2, <2>3 DEF Shelf
<1>7. Behind(rd) /\ ~NextReady(rd)
  BY <1>4 DEF Behind, NextReady
<1> QED
  BY <1>3, <1>5, <1>6, <1>7 DEF StockInv, Stocked

(* It holds together with the invariant of types and of the loop. *)
LEMMA StockInvHolds ==
  ASSUME TextEverywhere
  PROVE  Spec => [](LoopInv /\ StockInv)
<1>1. Init => StockInv
  BY InitStocked
<1>2. LoopInv /\ StockInv /\ [Next]_vars => StockInv'
  BY StockStep
<1> QED
  BY <1>1, <1>2, LoopInvHolds, PTL DEF Spec

(* In a book with text in its chapters, old texts are evicted until the    *)
(* cache is within its budget, whatever the fonts, the pages rebuilt and   *)
(* prefetched - but never the text of the page on the screen.              *)
THEOREM EvictionSpares ==
  ASSUME TextEverywhere
  PROVE  Spec => []EvictionSparesCurrentPage
<1>1. StockInv => EvictionSparesCurrentPage
  BY DEF StockInv, Stocked, Shelf, WithinBudget, OnScreen, Showing, EvictionSparesCurrentPage
<1> QED
  BY <1>1, StockInvHolds, PTL

(* ... and unless the device sleeps in a book without a cover, what a      *)
(* prefetch leaves ready behind the current page is the page after it.     *)
THEOREM ReadyBufferIsNext ==
  ASSUME TextEverywhere, Undisturbed
  PROVE  Spec => []ReadyBufferIsNextPage
<1>1. StockInv => ReadyBufferIsNextPage
  BY DEF StockInv, Stocked, Behind, NextReady, NextThere, ReadyBufferIsNextPage
<1> QED
  BY <1>1, StockInvHolds, PTL

(* As long as a prefetch runs, whatever is pressed, cancelled or refused,  *)
(* neither the page on the front canvas nor the current page changes.      *)
THEOREM PrefetchStaysBehind ==
  ASSUME TextEverywhere
  PROVE  Spec => PrefetchIsInvisible
<1> DEFINE Invisible == rd.prefetching => UNCHANGED <<rd.front, rd.current>>
<1>1. LoopInv /\ StockInv /\ [Next]_vars => [Invisible]_vars
  <2> SUFFICES ASSUME LoopInv, StockInv, [Next]_vars, rd.prefetching
               PROVE  rd'.front = rd.front /\ rd'.current = rd.current
    OBVIOUS
  <2>1. app = "Reading"
    BY DEF LoopInv, ScreenInv, ReaderInv, RunsWhereExpected, RunsIn
  <2>2. CASE Lever \/ TouchPage
    BY <2>1, <2>2, HandleReaderActionStocked DEF Lever, TouchPage, LoopInv
  <2>3. CASE CpuWork
    BY <2>3, CpuWorkAdvances DEF Advances
  <2>4. CASE PrefetchStep
    BY <2>4, PrefetchStepStocked
  <2>5. CASE UNCHANGED rd
    BY <2>5
  <2>6. CASE PressCenter \/ NoInput \/ NothingToPop \/ PanelNeedsNothing \/ NothingToWorkOn
              \/ ServiceManualRefresh \/ DisplayIdle \/ UNCHANGED vars
    BY <2>5, <2>6 DEF PressCenter, NoInput, NothingToPop, PanelNeedsNothing, NothingToWorkOn,
       ServiceManualRefresh, DisplayIdle, vars
  <2>7. ~(CloseMenu \/ TurnMenuPage \/ BackToLibrary \/ SelectTocEntry \/ TapFontFamily
          \/ ConfirmRestart \/ TapSleep \/ OpenBook \/ DismissError \/ PopAction \/ ParseBook
          \/ BookParsed \/ ParseFailed \/ LayOutStep \/ DrawLibrary \/ AutomaticSleep)
    BY <2>1 DEF CloseMenu, TurnMenuPage, BackToLibrary, SelectTocEntry, TapFontFamily,
       ConfirmRestart, TapSleep, TapMenu, OpenBook, DismissError, PopAction, ParseBook,
       BookParsed, ParseFailed, Parsing, LayOutStep, DrawLibrary, AutomaticSleep
  <2> QED
    BY <2>2, <2>3, <2>4, <2>6, <2>7 DEF Next, Input, Work
<1> QED
  BY <1>1, StockInvHolds, PTL DEF Spec, PrefetchIsInvisible

(* A change of font lays out the page the reader is at again, from its own *)
(* anchor, and until that page is laid out the reader stays there.         *)
THEOREM ReflowStays ==
  ASSUME TextEverywhere
  PROVE  Spec => ReflowKeepsPlace
<1> DEFINE Stays == /\ PlaceKept
                    /\ InBook /\ InBook' /\ rd.rebuilding = rd.current =>
                         CurrentAnchor(rd') = CurrentAnchor(rd)
<1>1. LoopInv /\ StockInv /\ [Next]_vars => [Stays]_vars
  <2> SUFFICES ASSUME LoopInv, StockInv, [Next]_vars PROVE Stays \/ UNCHANGED vars
    OBVIOUS
  <2>0. ScreenInv
    BY DEF LoopInv
  <2>1. PlaceKept
    <3>1. CASE app # "Reading"
      BY <3>1 DEF PlaceKept
    <3>2. CASE Lever \/ TouchPage
      BY <2>0, <3>2, HandleReaderActionStocked DEF Lever, TouchPage
    <3>3. CASE PopAction
      <4>1. app = "Reading" /\ AtRest(rd) /\ \E a, ok : Execute(a, ok)
        BY <2>0, <3>3, ScreenAtRest DEF PopAction
      <4> QED
        BY <4>1, ExecuteStocked
    <3>4. CASE CpuWork
      BY <3>4, CpuWorkAdvances DEF Advances, PlaceKept
    <3>5. CASE PrefetchStep
      BY <3>5, PrefetchStepStocked
    <3>6. CASE AutomaticSleep
      <4>1. /\ app \in {"Library", "Reading", "ReaderMenu"} /\ ~rd.prefetching /\ SleepAndWake
            /\ "Sleep" \in Gestures
        BY <3>6 DEF AutomaticSleep
      <4> QED
        BY <2>0, <4>1, ScreenAtRest, SleepStocked
    <3>7. CASE PressCenter \/ NoInput \/ NothingToPop \/ PanelNeedsNothing \/ NothingToWorkOn
                \/ ServiceManualRefresh \/ DisplayIdle \/ UNCHANGED vars
      BY <3>7 DEF PressCenter, NoInput, NothingToPop, PanelNeedsNothing, NothingToWorkOn,
         ServiceManualRefresh, DisplayIdle, vars, PlaceKept
    <3>8. CASE CloseMenu \/ TurnMenuPage \/ BackToLibrary \/ SelectTocEntry \/ TapFontFamily
               \/ ConfirmRestart \/ TapSleep \/ OpenBook \/ DismissError \/ ParseBook
               \/ BookParsed \/ ParseFailed \/ LayOutStep \/ DrawLibrary
      BY <3>1, <3>8 DEF CloseMenu, TurnMenuPage, BackToLibrary, SelectTocEntry, TapFontFamily,
         ConfirmRestart, TapSleep, TapMenu, OpenBook, DismissError, ParseBook,
         BookParsed, ParseFailed, Parsing, LayOutStep, DrawLibrary
    <3> QED
      BY <3>2, <3>3, <3>4, <3>5, <3>6, <3>7, <3>8 DEF Next, Input, Work
  <2>2. ASSUME InBook', rd.rebuilding = rd.current
        PROVE  CurrentAnchor(rd') = CurrentAnchor(rd)
    <3>1. app = "OpeningBook" /\ layingOut
      BY <2>2, RebuildingOpens
    <3>2. CASE CpuWork
      BY <2>2, <3>2, CpuWorkAdvances DEF Advances
    <3>3. CASE LayOutStep
      BY <2>2, <3>3, LayOutStepStocked
    <3>4. CASE PressCenter \/ NoInput \/ NothingToPop \/ PanelNeedsNothing \/ NothingToWorkOn
               \/ ServiceManualRefresh \/ DisplayIdle \/ UNCHANGED vars
      BY <3>4 DEF PressCenter, NoInput, NothingToPop, PanelNeedsNothing, NothingToWorkOn,
         ServiceManualRefresh, DisplayIdle, vars
    <3>5. ~(Lever \/ TouchPage \/ CloseMenu \/ TurnMenuPage \/ BackToLibrary \/ SelectTocEntry
            \/ TapFontFamily \/ ConfirmRestart \/ TapSleep \/ OpenBook \/ DismissError
            \/ PopAction \/ ParseBook \/ BookParsed \/ ParseFailed \/ PrefetchStep
            \/ DrawLibrary \/ AutomaticSleep)
      BY <3>1 DEF Lever, TouchPage, CloseMenu, TurnMenuPage, BackToLibrary, SelectTocEntry,
         TapFontFamily, ConfirmRestart, TapSleep, TapMenu, OpenBook, DismissError, PopAction,
         ParseBook, BookParsed, ParseFailed, Parsing, PrefetchStep, DrawLibrary, AutomaticSleep
    <3> QED
      BY <3>2, <3>3, <3>4, <3>5 DEF Next, Input, Work
  <2> QED
    BY <2>1, <2>2
<1> QED
  BY <1>1, StockInvHolds, PTL DEF Spec, ReflowKeepsPlace, PlaceKept
=============================================================================
