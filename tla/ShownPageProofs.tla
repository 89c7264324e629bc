-------------------------- MODULE ShownPageProofs --------------------------
(***************************************************************************)
(* Proofs about what the panel shows while a book is read, for any book    *)
(* with text in its linear chapters: it is the page the reader is at, with *)
(* whatever was laid out, prefetched, swapped, cancelled, evicted, or      *)
(* drawn over before, and though the panel is refreshed only in part.      *)
(***************************************************************************)
EXTENDS PageCacheProofs

(***************************************************************************)
(* What the canvases hold, and the page the reader is at                   *)
(***************************************************************************)
SameView(r, s) ==
  /\ s.front = r.front /\ s.back = r.back /\ s.displayCanvas = r.displayCanvas
  /\ s.target = r.target /\ s.work = r.work
  /\ s.texts = r.texts /\ s.current = r.current

(* The page in progress is on the front canvas unless it is a prefetch.    *)
LaidInFront(r) == r.target = "front" /\ r.front = r.work
InFront(r) == r.active /\ ~r.prefetching => LaidInFront(r)

(* The front canvas has the current page, or as much of it as fits.        *)
PageInFront(r) == IsBlank(r.front) \/ Shows(r.front, r.texts[r.current + 1])

(* No page more than the history holds can be committed (4096 of them).    *)
HistoryFull(r) == Len(r.texts) >= MaxHistory

(* Whatever is cached behind it, the current page stays what it is.        *)
KeepsPage(r, s) ==
  /\ s.current = r.current /\ Len(r.texts) <= Len(s.texts)
  /\ r.current < Len(r.texts) => s.texts[s.current + 1] = r.texts[r.current + 1]

OutOfSight(r, s) ==
  s.front = r.front /\ s.displayCanvas = r.displayCanvas /\ KeepsPage(r, s)
-----------------------------------------------------------------------------
(* Steps that no canvas takes part in *)
LEMMA SameViewTrans ==
  ASSUME NEW r, NEW s, NEW t, SameView(r, s), SameView(s, t)
  PROVE  SameView(r, t)
BY DEF SameView

(* Results, failures and states leave the canvases and the page alone.     *)
LEMMA SameViews ==
  ASSUME NEW r \in Readers
  PROVE  /\ \A w : SameView(r, Return(r, w))
         /\ SameView(r, Idle(r)) /\ SameView(r, FailReader(r))
         /\ \A p : SameView(r, MoveTo(r, p))
         /\ SameView(r, InvalidateReadyPrefetch(r)) /\ SameView(r, CancelPrefetch(r))
         /\ SameView(r, Finish(r))
<1>1. /\ \A w : SameView(r, Return(r, w))
      /\ SameView(r, Idle(r)) /\ SameView(r, FailReader(r))
  BY DEF SameView, Readers, Return, Idle, FailReader
<1>2. /\ \A p : SameView(r, MoveTo(r, p))
      /\ SameView(r, InvalidateReadyPrefetch(r)) /\ SameView(r, CancelPrefetch(r))
  BY DEF SameView, Readers, MoveTo, InvalidateReadyPrefetch, CancelPrefetch
<1>3. MoveTo(r, "Ready") \in Readers
  BY MoveToKeeps DEF Keeps, PrefetchStates
<1>4. SameView(MoveTo(r, "Ready"), Finish(r))
  <2> DEFINE m == MoveTo(r, "Ready")
  <2>1. Finish(r) = [m EXCEPT !.active = FALSE, !.prefetching = FALSE, !.result = "Completed"]
    BY DEF Finish
  <2> HIDE DEF m
  <2> QED
    BY <1>3, <2>1 DEF SameView, Readers, m
<1> QED
  BY <1>1, <1>2, <1>4, SameViewTrans

(* So does opening a chapter.                                              *)
LEMMA OpensSameView ==
  ASSUME NEW r \in Readers, NEW c, NEW ok
  PROVE  SameView(r, OpenLinearSpineAt(r, c, ok)) /\ SameView(r, OpenNextLinearSpine(r, ok))
<1>1. /\ \A w : SameView(r, Return(r, w))
      /\ SameView(r, [r EXCEPT !.error = TRUE, !.result = "Failed"])
  BY SameViews DEF SameView, Readers
<1>2. /\ \A d : SameView(r, Opened(r, d))
      /\ \A d : SameView(r, [Opened(r, d) EXCEPT !.endOfBook = FALSE])
  <2> SUFFICES ASSUME NEW d
               PROVE  /\ SameView(r, Opened(r, d))
                      /\ SameView(r, [Opened(r, d) EXCEPT !.endOfBook = FALSE])
    OBVIOUS
  <2> DEFINE o == Opened(r, d)
  <2>1. SameView(r, o) /\ DOMAIN o = DOMAIN r
    BY DEF Opened, SameView, Readers
  <2> HIDE DEF o
  <2>2. SameView(o, [o EXCEPT !.endOfBook = FALSE])
    <3>1. /\ {"front", "back", "displayCanvas", "target", "work", "texts", "current"} \subseteq DOMAIN o
      BY <2>1 DEF Readers
    <3> QED
      BY <3>1 DEF SameView
  <2> QED
    BY <2>1, <2>2, SameViewTrans DEF o
<1>3. /\ \A i : SameView(r, [r EXCEPT !.spineIndex = i, !.endOfBook = TRUE, !.result = "Failed"])
      /\ \A i : SameView(r, [r EXCEPT !.spineIndex = i, !.error = TRUE, !.result = "Failed"])
  BY DEF SameView, Readers
<1>4. SameView(r, OpenLinearSpineAt(r, c, ok))
  BY <1>1, <1>2 DEF OpenLinearSpineAt
<1>5. SameView(r, OpenNextLinearSpine(r, ok))
  <2>1. OpenNextLinearSpine(r, ok) \in
          {[r EXCEPT !.spineIndex = i, !.endOfBook = TRUE, !.result = "Failed"] : i \in Int}
          \cup {[r EXCEPT !.spineIndex = i, !.error = TRUE, !.result = "Failed"] : i \in Int}
          \cup {Opened(r, d) : d \in Int}
    <3> DEFINE ahead == {d \in Linear : d >= r.spineIndex}
    <3>1. CASE ahead = {}
      <4>1. Max({r.spineIndex, Spine}) \in Int
        <5>1. r.spineIndex \in Int /\ Spine \in Int
          BY BookFacts, BookAssumption DEF Readers
        <5> QED
          BY <5>1, MaxPair
      <4>2. OpenNextLinearSpine(r, ok) =
              [r EXCEPT !.spineIndex = Max({r.spineIndex, Spine}), !.endOfBook = TRUE,
                        !.result = "Failed"]
        BY <3>1 DEF OpenNextLinearSpine
      <4> QED
        BY <4>1, <4>2
    <3>2. CASE ahead # {}
      <4>1. Min(ahead) \in ahead /\ ahead \subseteq Nat
        <5>1. ahead \subseteq Nat
          BY BookFacts, BookAssumption DEF Chapters
        <5> HIDE DEF ahead
        <5> QED
          BY <3>2, <5>1, MinIn
      <4>2. Min(ahead) \in Int /\ Min(ahead) + 1 \in Int
        BY <4>1
      <4> QED
        BY <3>2, <4>2 DEF OpenNextLinearSpine
    <3> QED
      BY <3>1, <3>2
  <2> QED
    BY <1>2, <1>3, <2>1
<1> QED
  BY <1>4, <1>5
-----------------------------------------------------------------------------
(***************************************************************************)
(* Laying out and committing                                               *)
(***************************************************************************)
(* Text goes on to the canvas of the page.                                 *)
LEMMA LayOutInFront ==
  ASSUME NEW r \in Readers, NEW l, l = LayOut(r)
  PROVE  /\ l.displayCanvas = r.displayCanvas /\ l.target = r.target
         /\ l.texts = r.texts /\ l.current = r.current
         /\ l.active = r.active /\ l.prefetching = r.prefetching /\ l.rebuilding = r.rebuilding
         /\ LaidInFront(r) => LaidInFront(l) /\ l.back = r.back
         /\ r.target = "back" => l.front = r.front
<1> DEFINE n == Taken(r)
<1> DEFINE page == IF IsBlank(r.work) THEN [spine |-> r.chapter, from |-> r.pend, to |-> r.pend + n]
                   ELSE [r.work EXCEPT !.to = @ + n]
<1> DEFINE s == OnCanvas([r EXCEPT !.work = page, !.pend = @ + n], r.target, page)
<1>1. LayOut(r) = IF n = 0 THEN r ELSE s
  BY DEF LayOut
<1> HIDE DEF page, n
<1>2. /\ s.displayCanvas = r.displayCanvas /\ s.target = r.target
      /\ s.texts = r.texts /\ s.current = r.current
      /\ s.active = r.active /\ s.prefetching = r.prefetching /\ s.rebuilding = r.rebuilding
      /\ s.work = page
      /\ r.target = "front" => s.front = page /\ s.back = r.back
      /\ r.target = "back" => s.front = r.front
  BY DEF OnCanvas, Readers
<1> HIDE DEF s
<1> QED
  BY <1>1, <1>2 DEF LaidInFront

(* Whatever is evicted, the current page's text is not.                    *)
LEMMA EvictKeepsCurrent ==
  ASSUME NEW texts \in Seq(Texts), NEW current \in Nat, current < Len(texts)
  PROVE  Evict(texts, current)[current + 1] = texts[current + 1]
<1>1. DOMAIN texts = 1 .. Len(texts) /\ Len(texts) \in Nat
  BY LenProperties
<1>2. \A k : [i \in DOMAIN texts |->
                IF i <= k /\ i # current + 1 THEN NoText ELSE texts[i]][current + 1]
             = texts[current + 1]
  BY <1>1
<1> QED
  BY <1>2 DEF Evict

(* A page that is committed in front becomes the current one, and one that *)
(* was prefetched leaves the current one where it is.                      *)
LEMMA CommitInFront ==
  ASSUME NEW r, Resting(r), Fits(r), r.prefetching => r.rebuilding = NoPage,
         NEW c, c = CommitPage(r)
  PROVE  /\ c.front = r.front /\ c.back = r.back /\ c.displayCanvas = r.displayCanvas
         /\ c.active = r.active /\ c.prefetching = r.prefetching /\ c \in Readers
         /\ IF r.prefetching THEN KeepsPage(r, c) ELSE c.texts[c.current + 1] = r.work
<1> DEFINE kept == IF r.rebuilding = NoPage THEN Len(r.texts) ELSE r.rebuilding
<1> DEFINE current == IF r.rebuilding = NoPage /\ r.prefetching THEN r.current ELSE kept
<1> DEFINE all == Append(SubSeq(r.texts, 1, kept), r.work)
<1> DEFINE anchors == Append(SubSeq(r.anchors, 1, kept), r.workAnchor)
<1> DEFINE next == r.workAnchor.parserCheckpoint + Size(r.work)
<1> DEFINE s == [r EXCEPT !.texts = Evict(all, current), !.anchors = anchors,
                          !.current = current, !.rebuilding = NoPage,
                          !.workAnchor.parserCheckpoint = next, !.result = "Completed"]
<1>1. /\ r \in Readers /\ r.texts \in Seq(Texts) /\ r.work \in Texts
      /\ r.rebuilding \in Nat \cup {NoPage} /\ r.current \in Nat /\ Len(r.texts) \in Nat
  BY LenProperties DEF Resting, Readers
<1>2. kept \in Nat /\ kept <= Len(r.texts) /\ (r.prefetching => kept = Len(r.texts))
  BY <1>1 DEF Resting, CacheInv, NoPage
<1>3. /\ current \in Nat /\ current <= kept
      /\ IF r.prefetching THEN current = r.current ELSE current = kept
  BY <1>1, <1>2 DEF Resting, CacheInv, NoPage
<1>4. c = s
  BY DEF CommitPage
<1> HIDE DEF kept, current
<1>5. /\ SubSeq(r.texts, 1, kept) \in Seq(Texts) /\ Len(SubSeq(r.texts, 1, kept)) = kept
      /\ \A i \in 1 .. kept : SubSeq(r.texts, 1, kept)[i] = r.texts[i]
  BY <1>1, <1>2, SubSeqProperties, ElementOfSeq
<1>6. /\ all \in Seq(Texts) /\ Len(all) = kept + 1 /\ all[kept + 1] = r.work
      /\ \A i \in 1 .. kept : all[i] = r.texts[i]
  BY <1>1, <1>5, AppendProperties
<1> HIDE DEF all, anchors, next
<1>7. /\ Evict(all, current)[current + 1] = all[current + 1]
      /\ Len(Evict(all, current)) = kept + 1
  BY <1>2, <1>3, <1>6, EvictKeepsCurrent, EvictTyped
<1>8. c \in Readers
  BY CommitPageResting DEF Resting
<1>9. /\ s.front = r.front /\ s.back = r.back /\ s.displayCanvas = r.displayCanvas
      /\ s.active = r.active /\ s.prefetching = r.prefetching
      /\ s.texts = Evict(all, current) /\ s.current = current
  BY <1>1 DEF Readers
<1> HIDE DEF s
<1>10. CASE r.prefetching
  <2>1. r.current < Len(r.texts) => r.current + 1 \in 1 .. kept
    BY <1>1, <1>2, <1>10
  <2> QED
    BY <1>1, <1>2, <1>3, <1>4, <1>6, <1>7, <1>8, <1>9, <1>10, <2>1 DEF KeepsPage
<1>11. CASE ~r.prefetching
  BY <1>3, <1>4, <1>6, <1>7, <1>8, <1>9, <1>11
<1> QED
  BY <1>10, <1>11

(***************************************************************************)
(* A slice of the layout: in front it draws on the front canvas only, and  *)
(* a prefetch draws behind it.                                             *)
(***************************************************************************)
Draws(r, s) ==
  /\ s.displayCanvas = r.displayCanvas
  /\ s.active => s.prefetching = r.prefetching
  /\ InFront(s)
  /\ IF r.prefetching THEN s.front = r.front /\ KeepsPage(r, s)
     ELSE s.back = r.back /\ (s.result = "Completed" => PageInFront(s))

(* Nothing is drawn by a step that no canvas takes part in.                *)
LEMMA SameViewDraws ==
  ASSUME NEW r \in Readers, InFront(r), NEW s, SameView(r, s), s.result # "Completed",
         s.active => r.active /\ s.prefetching = r.prefetching
  PROVE  Draws(r, s)
<1>1. Len(r.texts) \in Nat
  BY LenProperties DEF Readers
<1> QED
  BY <1>1 DEF Draws, InFront, LaidInFront, SameView, KeepsPage

(* A page that was laid out is shown to its end.                           *)
LEMMA ShowsItself ==
  ASSUME NEW t \in Texts, t.from <= t.to
  PROVE  IsBlank(t) \/ Shows(t, t)
BY DEF Texts, IsBlank, Shows

(* The end of a page: it is committed, or the reader has failed.           *)
LEMMA CommitDraws ==
  ASSUME NEW r \in Readers, InFront(r), r.active,
         NEW x, Resting(x), Fits(x), x.prefetching => x.rebuilding = NoPage,
         x.displayCanvas = r.displayCanvas, x.texts = r.texts, x.current = r.current,
         x.prefetching = r.prefetching,
         IF r.prefetching THEN x.front = r.front ELSE LaidInFront(x) /\ x.back = r.back,
         NEW c, c = Commit(x)
  PROVE  IF c.result = "Failed" THEN Draws(r, c)
         ELSE Draws(r, FailReader(c)) /\ Draws(r, Finish(c))
              /\ Draws(r, Finish([c EXCEPT !.entryOpen = FALSE]))
<1>0. x \in Readers /\ Len(x.texts) \in Nat /\ x.work \in Texts
  BY LenProperties DEF Resting, Readers
<1>1. CASE CommitRefused(x)
  <2>1. c = FailReader(x)
    BY <1>1 DEF Commit
  <2>2. SameView(x, c) /\ c.result = "Failed" /\ ~c.active
    BY <1>0, <2>1, SameViews, FailReaderKeeps DEF Stopped
  <2> QED
    BY <1>0, <2>2 DEF Draws, SameView, KeepsPage, InFront
<1>2. CASE ~CommitRefused(x)
  <2>1. c = CommitPage(x) /\ c.result = "Completed"
    BY <1>2, CommitPageResting DEF Commit
  <2>2. /\ c.front = x.front /\ c.back = x.back /\ c.displayCanvas = x.displayCanvas
        /\ c \in Readers
        /\ IF x.prefetching THEN KeepsPage(x, c) ELSE c.texts[c.current + 1] = x.work
    BY <2>1, CommitInFront
  <2>3. ~r.prefetching => PageInFront(c)
    <3>1. IsBlank(x.work) \/ Shows(x.work, x.work)
      BY <1>0, ShowsItself DEF Fits
    <3> QED
      BY <2>2, <3>1 DEF PageInFront, LaidInFront
  <2> DEFINE d == [c EXCEPT !.entryOpen = FALSE]
  <2>4. d \in Readers /\ SameView(c, d)
    BY <2>2 DEF Readers, SameView
  <2> HIDE DEF d
  <2>5. /\ SameView(c, FailReader(c)) /\ SameView(c, Finish(c)) /\ SameView(c, Finish(d))
    BY <2>2, <2>4, SameViews, SameViewTrans
  <2>6. ASSUME NEW s, SameView(c, s), ~s.active
        PROVE  Draws(r, s)
    BY <1>0, <2>2, <2>3, <2>6
       DEF Draws, SameView, KeepsPage, InFront, PageInFront
  <2>7. ~FailReader(c).active /\ ~Finish(c).active /\ ~Finish(d).active
    <3>1. ~FailReader(c).active
      BY <2>2, FailReaderKeeps DEF Stopped
    <3>2. ASSUME NEW e \in Readers PROVE ~Finish(e).active
      <4>1. MoveTo(e, "Ready") \in Readers
        BY <3>2, MoveToKeeps DEF Keeps, PrefetchStates
      <4> QED
        BY <4>1 DEF Finish, Readers
    <3> QED
      BY <2>2, <2>4, <3>1, <3>2
  <2> QED
    BY <2>1, <2>5, <2>6, <2>7 DEF d
<1> QED
  BY <1>1, <1>2

(* What is laid out before the page ends                                   *)
LEMMA LaidDraws ==
  ASSUME NEW r, ReaderInv(r), Stocked(r), InFront(r), r.active, r.layoutPending
  PROVE  \A x \in {LaidOut(r), ReadOn(r), Ended(r)} :
           /\ Resting(x) /\ Fits(x) /\ x.active
           /\ x.prefetching => x.rebuilding = NoPage
           /\ x.displayCanvas = r.displayCanvas /\ x.texts = r.texts /\ x.current = r.current
           /\ x.prefetching = r.prefetching
           /\ IF r.prefetching THEN x.front = r.front ELSE LaidInFront(x) /\ x.back = r.back
<1> DEFINE m == MoveTo(r, "LayingOut")
<1> DEFINE l == LayOut(m)
<1>1. /\ r \in Readers /\ m \in Readers /\ SameView(r, m) /\ Resting(m) /\ Fits(m)
      /\ m.active = r.active /\ m.prefetching = r.prefetching /\ m.rebuilding = r.rebuilding
  <2>1. r \in Readers
    BY DEF ReaderInv, Resting
  <2>2. Resting(m) /\ Fits(m) /\ m.rebuilding = r.rebuilding /\ m.prefetching = r.prefetching
        /\ m.active
    BY LayingOnPage
  <2> QED
    BY <2>1, <2>2, SameViews DEF Resting
<1>2. r.prefetching => r.target = "back" /\ r.rebuilding = NoPage
  BY DEF Stocked, Behind, Prefetches
<1> HIDE DEF m
<1> HIDE DEF l
<1>3. /\ l.displayCanvas = m.displayCanvas /\ l.target = m.target
      /\ l.texts = m.texts /\ l.current = m.current
      /\ l.active = m.active /\ l.prefetching = m.prefetching /\ l.rebuilding = m.rebuilding
      /\ LaidInFront(m) => LaidInFront(l) /\ l.back = m.back
      /\ m.target = "back" => l.front = m.front
  BY <1>1, LayOutInFront DEF l
<1>4. /\ l.displayCanvas = r.displayCanvas /\ l.texts = r.texts /\ l.current = r.current
      /\ l.prefetching = r.prefetching /\ l.active /\ l.rebuilding = r.rebuilding
      /\ IF r.prefetching THEN l.front = r.front ELSE LaidInFront(l) /\ l.back = r.back
  BY <1>1, <1>2, <1>3 DEF SameView, InFront, LaidInFront
<1>5. l \in Readers
  BY <1>1, LayOutExtends DEF Extends, Resting, l
<1>6. /\ LaidOut(r) = [l EXCEPT !.layoutPending = FALSE]
      /\ ReadOn(r) = [[l EXCEPT !.layoutPending = FALSE] EXCEPT !.inputEnded = FALSE]
      /\ Ended(r) = [[l EXCEPT !.layoutPending = FALSE] EXCEPT !.inputEnded = FALSE,
                                                                !.chapterEnded = TRUE]
  BY DEF LaidOut, ReadOn, Ended, m, l
<1>7. /\ SameView(l, LaidOut(r)) /\ LaidOut(r).active = l.active
      /\ LaidOut(r).prefetching = l.prefetching /\ LaidOut(r).rebuilding = l.rebuilding
  BY <1>5, <1>6 DEF Readers, SameView
<1>8. /\ SameView(l, ReadOn(r)) /\ ReadOn(r).active = l.active
      /\ ReadOn(r).prefetching = l.prefetching /\ ReadOn(r).rebuilding = l.rebuilding
  BY <1>5, <1>6 DEF Readers, SameView
<1>9. /\ SameView(l, Ended(r)) /\ Ended(r).active = l.active
      /\ Ended(r).prefetching = l.prefetching /\ Ended(r).rebuilding = l.rebuilding
  BY <1>5, <1>6 DEF Readers, SameView
<1>10. \A x \in {LaidOut(r), ReadOn(r), Ended(r)} : Resting(x) /\ Fits(x)
  BY LaidPages
<1>11. ASSUME NEW x \in {LaidOut(r), ReadOn(r), Ended(r)}
       PROVE  /\ SameView(l, x) /\ x.active = l.active /\ x.prefetching = l.prefetching
              /\ x.rebuilding = l.rebuilding
  BY <1>7, <1>8, <1>9
<1> QED
  BY <1>2, <1>4, <1>10, <1>11 DEF SameView, LaidInFront

(* Each slice of layout draws where its page is.                           *)
LEMMA ContinueLayoutDraws ==
  ASSUME NEW r, ReaderInv(r), Stocked(r), InFront(r), NEW ok
  PROVE  Draws(r, ContinueLayout(r, ok))
<1>0. r \in Readers
  BY DEF ReaderInv, Resting
<1>1. CASE ~(r.active /\ r.layoutPending)
  <2>1. ContinueLayout(r, ok) = Idle(r)
    BY <1>1 DEF ContinueLayout
  <2>2. SameView(r, Idle(r)) /\ Idle(r).result = "Idle" /\ GoesOn(r, Idle(r))
    BY <1>0, SameViews, IdleKeeps
  <2> QED
    BY <1>0, <2>1, <2>2, SameViewDraws DEF GoesOn
<1>2. CASE r.active /\ r.layoutPending
  <2> DEFINE x == Ended(r)
  <2> DEFINE c == Commit(x)
  <2> DEFINE b == Return(x, "Completed")
  <2> DEFINE last == IF IsBlank(x.work) /\ x.texts # <<>> THEN b ELSE c
  <2> DEFINE full == Commit(ReadOn(r))
  <2> DEFINE n == MoveTo(LaidOut(r), "ReadingInput")
  <2>1. ContinueLayout(r, ok) =
          IF PageFull(r) THEN (IF full.result = "Failed" THEN full ELSE Finish(full))
          ELSE IF r.inputEnded
               THEN (IF last.result = "Failed" THEN last
                     ELSE IF ~ok \/ r.offset # TextLength[r.chapter] THEN FailReader(last)
                     ELSE Finish([last EXCEPT !.entryOpen = FALSE]))
               ELSE Return(n, "MoreWork")
    BY <1>2 DEF ContinueLayout, LaidOut, ReadOn, Ended
  <2>2. Draws(r, IF full.result = "Failed" THEN full ELSE Finish(full))
    BY <1>0, <1>2, LaidDraws, CommitDraws
  <2>3. IF c.result = "Failed" THEN Draws(r, c)
        ELSE Draws(r, FailReader(c)) /\ Draws(r, Finish([c EXCEPT !.entryOpen = FALSE]))
    BY <1>0, <1>2, LaidDraws, CommitDraws
  <2>4. /\ x \in Readers /\ x.displayCanvas = r.displayCanvas /\ x.texts = r.texts
        /\ x.current = r.current /\ x.prefetching = r.prefetching
        /\ IF r.prefetching THEN x.front = r.front ELSE LaidInFront(x) /\ x.back = r.back
    BY <1>2, LaidDraws DEF Resting
  <2>5. Draws(r, Return(n, "MoreWork"))
    <3> DEFINE l == LaidOut(r)
    <3>1. /\ l \in Readers /\ l.displayCanvas = r.displayCanvas /\ l.texts = r.texts
          /\ l.current = r.current /\ l.prefetching = r.prefetching
          /\ IF r.prefetching THEN l.front = r.front ELSE LaidInFront(l) /\ l.back = r.back
      BY <1>2, LaidDraws DEF Resting
    <3> HIDE DEF l
    <3>2. n \in Readers /\ SameView(l, n) /\ GoesOn(l, n)
      BY <3>1, SameViews, MoveToKeeps DEF Keeps, PrefetchStates, l
    <3> HIDE DEF n
    <3>3. /\ SameView(n, Return(n, "MoreWork")) /\ GoesOn(n, Return(n, "MoreWork"))
          /\ Return(n, "MoreWork").result = "MoreWork"
      BY <3>2, SameViews, ReturnKeeps DEF WorkResults
    <3> DEFINE s == Return(n, "MoreWork")
    <3> HIDE DEF s
    <3>4. Len(r.texts) \in Nat
      BY <1>0, LenProperties DEF Readers
    <3> QED
      BY <3>1, <3>2, <3>3, <3>4
         DEF Draws, SameView, GoesOn, KeepsPage, InFront, LaidInFront, s
  <2> HIDE DEF x, c, full, n
  <2>6. ASSUME IsBlank(x.work)
        PROVE  /\ b.result # "Failed" /\ Draws(r, FailReader(b))
               /\ Draws(r, Finish([b EXCEPT !.entryOpen = FALSE]))
    <3> DEFINE d == [b EXCEPT !.entryOpen = FALSE]
    <3>1. b \in Readers /\ SameView(x, b) /\ b.result = "Completed"
      BY <2>4, SameViews, ReturnKeeps DEF Keeps, WorkResults
    <3> HIDE DEF b
    <3>2. d \in Readers /\ SameView(b, d)
      BY <3>1 DEF Readers, SameView
    <3> HIDE DEF d
    <3>3. SameView(x, FailReader(b)) /\ SameView(x, Finish(d))
      BY <3>1, <3>2, SameViews, SameViewTrans
    <3>4. ~FailReader(b).active /\ ~Finish(d).active
      <4>1. ~FailReader(b).active
        BY <3>1, FailReaderKeeps DEF Stopped
      <4>2. MoveTo(d, "Ready") \in Readers
        BY <3>2, MoveToKeeps DEF Keeps, PrefetchStates
      <4> QED
        BY <4>1, <4>2 DEF Finish, Readers
    <3>5. Len(r.texts) \in Nat
      BY <1>0, LenProperties DEF Readers
    <3>6. ASSUME NEW s, SameView(x, s), ~s.active
          PROVE  Draws(r, s)
      BY <2>4, <2>6, <3>5, <3>6
         DEF Draws, SameView, KeepsPage, InFront, PageInFront, LaidInFront
    <3> QED
      BY <3>1, <3>3, <3>4, <3>6 DEF d
  <2>7. Draws(r, IF last.result = "Failed" THEN last
                 ELSE IF ~ok \/ r.offset # TextLength[r.chapter] THEN FailReader(last)
                 ELSE Finish([last EXCEPT !.entryOpen = FALSE]))
    <3>1. CASE IsBlank(x.work) /\ x.texts # <<>>
      <4>1. last = b
        BY <3>1
      <4> HIDE DEF last, b
      <4> QED
        BY <2>6, <3>1, <4>1
    <3>2. CASE ~(IsBlank(x.work) /\ x.texts # <<>>)
      <4>1. last = c
        BY <3>2
      <4> HIDE DEF last
      <4> QED
        BY <2>3, <4>1
    <3> QED
      BY <3>1, <3>2
  <2> HIDE DEF last
  <2> QED
    BY <2>1, <2>2, <2>5, <2>7
<1> QED
  BY <1>1, <1>2

(* Nothing is drawn while the chapter is read ...                          *)
LEMMA ReadInputChunkDraws ==
  ASSUME NEW r \in Readers, InFront(r), NEW ok
  PROVE  Draws(r, ReadInputChunk(r, ok))
<1> DEFINE m == MoveTo(r, "ReadingInput")
<1> DEFINE count == Min({ChunkUnits, TextLength[r.chapter] - r.offset})
<1> DEFINE read == [m EXCEPT !.offset = @ + count, !.inputEnded = count = 0,
                             !.inputReady = TRUE, !.result = "MoreWork"]
<1>1. m \in Readers /\ SameView(r, m) /\ GoesOn(r, m)
  BY SameViews, MoveToKeeps DEF Keeps, PrefetchStates
<1>2. ReadInputChunk(r, ok) \in {Idle(r), FailReader(m), read}
  BY DEF ReadInputChunk
<1> HIDE DEF m, count
<1>3. SameView(m, read) /\ GoesOn(m, read) /\ read.result = "MoreWork"
  BY <1>1 DEF Readers, SameView, GoesOn
<1> HIDE DEF read
<1>4. /\ SameView(r, Idle(r)) /\ GoesOn(r, Idle(r)) /\ Idle(r).result = "Idle"
      /\ SameView(m, FailReader(m)) /\ Stopped(FailReader(m)) /\ FailReader(m).result = "Failed"
  BY <1>1, SameViews, IdleKeeps, FailReaderKeeps
<1>5. \A s \in {Idle(r), FailReader(m), read} :
        /\ SameView(r, s) /\ s.result # "Completed"
        /\ s.active => r.active /\ s.prefetching = r.prefetching
  BY <1>1, <1>3, <1>4, SameViewTrans DEF GoesOn, Stopped
<1> QED
  BY <1>2, <1>5, SameViewDraws

(* ... and tokenized.                                                      *)
LEMMA ProcessBufferedInputDraws ==
  ASSUME NEW r \in Readers, InFront(r)
  PROVE  Draws(r, ProcessBufferedInput(r))
<1> DEFINE m == MoveTo(r, "Parsing")
<1> DEFINE skipped == Min({r.offset - r.pend, r.seek})
<1> DEFINE fed == [m EXCEPT !.fed = r.offset, !.inputReady = FALSE, !.pend = @ + skipped,
                            !.seek = @ - skipped, !.result = "MoreWork"]
<1> DEFINE laying == [m EXCEPT !.fed = r.offset, !.inputReady = FALSE, !.pend = @ + skipped,
                               !.seek = @ - skipped, !.result = "MoreWork",
                               !.layoutPending = TRUE]
<1> DEFINE failed == [m EXCEPT !.fed = r.offset, !.inputReady = FALSE, !.pend = @ + skipped,
                               !.seek = @ - skipped, !.error = TRUE, !.active = FALSE,
                               !.prefetching = FALSE, !.rebuilding = NoPage,
                               !.entryOpen = FALSE, !.result = "Failed"]
<1>1. m \in Readers /\ SameView(r, m) /\ GoesOn(r, m)
  BY SameViews, MoveToKeeps DEF Keeps, PrefetchStates
<1>2. ProcessBufferedInput(r) \in {Idle(r), fed, FailReader(fed), [fed EXCEPT !.layoutPending = TRUE]}
  BY DEF ProcessBufferedInput
<1>3. [fed EXCEPT !.layoutPending = TRUE] = laying /\ FailReader(fed) = failed
  BY <1>1 DEF Readers, FailReader
<1> HIDE DEF m, skipped
<1>4. /\ SameView(m, fed) /\ GoesOn(m, fed) /\ fed.result = "MoreWork"
      /\ SameView(m, laying) /\ GoesOn(m, laying) /\ laying.result = "MoreWork"
      /\ SameView(m, failed) /\ Stopped(failed) /\ failed.result = "Failed"
  BY <1>1 DEF Readers, SameView, GoesOn, Stopped
<1>5. SameView(r, Idle(r)) /\ GoesOn(r, Idle(r)) /\ Idle(r).result = "Idle"
  BY SameViews, IdleKeeps
<1>6. \A s \in {Idle(r), fed, laying, failed} :
        /\ SameView(r, s) /\ s.result # "Completed"
        /\ s.active => r.active /\ s.prefetching = r.prefetching
  BY <1>1, <1>4, <1>5, SameViewTrans DEF GoesOn, Stopped
<1>7. ProcessBufferedInput(r) \in {Idle(r), fed, laying, failed}
  BY <1>2, <1>3
<1> HIDE DEF fed, laying, failed
<1> QED
  BY <1>6, <1>7, SameViewDraws

(* A cancelled prefetch leaves what is in front of it as it is.            *)
LEMMA RestoreDraws ==
  ASSUME NEW r, ReaderInv(r), r.prefetching, NEW ok
  PROVE  Draws(r, RestorePrefetchCheckpoint(r, ok))
<1> DEFINE prefetch == Transition(r.prefetch, "Restoring")
<1> DEFINE stopped == [r EXCEPT !.prefetch = prefetch, !.entryOpen = FALSE,
                           !.active = FALSE, !.prefetching = FALSE, !.pend = r.fed,
                           !.work = NoText, !.inputReady = FALSE, !.inputEnded = FALSE,
                           !.layoutPending = FALSE]
<1> DEFINE o == OpenLinearSpineAt(stopped, r.checkpoint.spine, ok)
<1> DEFINE failed == [o EXCEPT !.prefetch = "Failed"]
<1> DEFINE restored == [o EXCEPT !.workAnchor = r.checkpoint,
                                 !.seek = r.checkpoint.parserCheckpoint,
                                 !.prefetch = "Idle", !.result = "Idle"]
<1> DEFINE s == RestorePrefetchCheckpoint(r, ok)
<1> DEFINE Unseen(t) == /\ t.front = r.front /\ t.displayCanvas = r.displayCanvas
                        /\ t.texts = r.texts /\ t.current = r.current
<1>0. prefetch \in PrefetchStates /\ NoText \in Texts /\ r.fed \in Nat /\ r \in Readers
  BY BookFacts DEF Transition, PrefetchStates, ReaderInv, Resting, Readers
<1>1. s = IF o.result = "Failed" THEN FailReader(failed) ELSE restored
  BY DEF RestorePrefetchCheckpoint
<1>2. GoesOn(r, s) \/ Stopped(s)
  BY RestoreSteps DEF Steps
<1> HIDE DEF prefetch, s
<1>3. stopped \in Readers /\ Unseen(stopped)
  <2>1. ASSUME NEW f \in Nat, NEW n \in Texts
        PROVE  [r EXCEPT !.prefetch = prefetch, !.entryOpen = FALSE,
                         !.active = FALSE, !.prefetching = FALSE, !.pend = f,
                         !.work = n, !.inputReady = FALSE, !.inputEnded = FALSE,
                         !.layoutPending = FALSE] \in Readers
    BY <1>0 DEF Readers
  <2>2. Unseen(stopped)
    BY <1>0 DEF Readers
  <2> QED
    BY <1>0, <2>1, <2>2
<1>4. Resting(stopped)
  <2>1. /\ stopped.anchors = r.anchors /\ stopped.rebuilding = r.rebuilding
        /\ stopped.offset = r.offset /\ stopped.fed = r.fed /\ stopped.pend = r.fed
        /\ stopped.chapter = r.chapter /\ stopped.chapterEnded = r.chapterEnded
    BY <1>0 DEF Readers
  <2> HIDE DEF stopped
  <2> QED
    BY <1>0, <1>3, <2>1 DEF ReaderInv, Resting, CacheInv, TextInOrder
<1> HIDE DEF stopped
<1>5. o \in Readers /\ Unseen(o)
  <2>1. SameView(stopped, o) /\ o \in Readers
    BY <1>3, <1>4, OpensSameView, OpenLinearSpineAtOpens DEF Opens, Resting
  <2> HIDE DEF o
  <2> QED
    BY <1>3, <2>1 DEF SameView
<1> HIDE DEF o
<1>6. failed \in Readers /\ Unseen(failed) /\ Unseen(restored)
  BY <1>5 DEF Readers, PrefetchStates
<1> HIDE DEF failed, restored
<1>7. Unseen(FailReader(failed))
  BY <1>6, SameViews DEF SameView
<1>8. Unseen(s)
  BY <1>1, <1>6, <1>7
<1>9. Len(r.texts) \in Nat
  BY <1>0, LenProperties DEF Readers
<1>10. /\ s.active => s.prefetching = r.prefetching
       /\ InFront(s)
  BY <1>2 DEF InFront, GoesOn, Stopped
<1>11. s.front = r.front /\ s.displayCanvas = r.displayCanvas /\ KeepsPage(r, s)
  BY <1>8, <1>9 DEF KeepsPage
<1>12. Draws(r, s)
  BY <1>10, <1>11 DEF Draws
<1> QED
  BY <1>12 DEF s

(* processNextChunk() *)
LEMMA ProcessNextChunkDraws ==
  ASSUME NEW r, ReaderInv(r), Stocked(r), InFront(r), NEW ok
  PROVE  Draws(r, ProcessNextChunk(r, ok))
<1>0. r \in Readers
  BY DEF ReaderInv, Resting
<1>1. CASE r.prefetching /\ r.prefetch = "CancelRequested"
  BY <1>1, RestoreDraws DEF ProcessNextChunk
<1>2. CASE ~(r.prefetching /\ r.prefetch = "CancelRequested") /\ ~r.active
  <2> DEFINE w == IF r.error THEN "Failed" ELSE "Idle"
  <2> DEFINE s == Return(r, w)
  <2>1. ProcessNextChunk(r, ok) = s /\ w # "Completed"
    BY <1>2 DEF ProcessNextChunk
  <2> HIDE DEF w
  <2>2. SameView(r, s) /\ s.result = w /\ ~s.active
    BY <1>0, <1>2, SameViews DEF Return, Readers
  <2> HIDE DEF s
  <2> QED
    BY <1>0, <2>1, <2>2, SameViewDraws
<1>3. CASE ~(r.prefetching /\ r.prefetch = "CancelRequested") /\ r.active
  <2>1. ProcessNextChunk(r, ok) \in {ProcessBufferedInput(r), ContinueLayout(r, ok),
                                     ReadInputChunk(r, ok)}
    BY <1>3 DEF ProcessNextChunk
  <2> QED
    BY <1>0, <2>1, ProcessBufferedInputDraws, ContinueLayoutDraws, ReadInputChunkDraws
<1> QED
  BY <1>1, <1>2, <1>3

(* What a step returns has no part in it ... *)
LEMMA IdleDraws ==
  ASSUME NEW r, NEW s \in Readers, Draws(r, s)
  PROVE  Draws(r, Idle(s)) /\ Idle(s).active = s.active
<1>1. /\ SameView(s, Idle(s)) /\ GoesOn(s, Idle(s)) /\ Idle(s).result = "Idle"
  BY SameViews, IdleKeeps
<1> QED
  BY <1>1 DEF Draws, SameView, GoesOn, InFront, LaidInFront, KeepsPage

(* ... nor that there are two.                                             *)
LEMMA DrawsTwice ==
  ASSUME NEW r, NEW s, NEW t, Draws(r, s), s.active, Draws(s, t), t.result # "Completed",
         r.current \in Nat,
         Len(r.texts) \in Nat, Len(s.texts) \in Nat, Len(t.texts) \in Nat
  PROVE  Draws(r, t)
<1>1. s.prefetching = r.prefetching
  BY DEF Draws
<1>2. CASE r.prefetching
  <2>1. KeepsPage(r, s) /\ KeepsPage(s, t) /\ t.front = r.front
    BY <1>1, <1>2 DEF Draws
  <2>2. KeepsPage(r, t)
    BY <2>1 DEF KeepsPage
  <2> QED
    BY <1>1, <1>2, <2>1, <2>2 DEF Draws
<1>3. CASE ~r.prefetching
  BY <1>1, <1>3 DEF Draws
<1> QED
  BY <1>2, <1>3

(* processCpuOnlyWork() *)
LEMMA ProcessCpuOnlyWorkDraws ==
  ASSUME NEW r, ReaderInv(r), Stocked(r), InFront(r)
  PROVE  Draws(r, ProcessCpuOnlyWork(r))
<1>1. PICK s : ProcessCpuOnlyWork(r) = Idle(s) /\ s \in Readers /\ Draws(r, s)
  BY ProcessBufferedInputDraws, ContinueLayoutDraws, ProcessBufferedInputSteps,
     ContinueLayoutSteps DEF ProcessCpuOnlyWork, Steps, ReaderInv, Resting
<1> QED
  BY <1>1, IdleDraws
-----------------------------------------------------------------------------
(***************************************************************************)
(* Page requests of a reader at rest.  A page that is there at once is on  *)
(* the front canvas; the canvases change roles only for the page that was  *)
(* ready behind the one in front.  A request that comes to nothing leaves  *)
(* the page, unless there is no room in the history for the one that was   *)
(* drawn over it.                                                          *)
(***************************************************************************)
Turns(r, s) ==
  /\ InFront(s)
  /\ IF s.result = "Completed"
     THEN /\ PageInFront(s)
          /\ s.displayCanvas = r.displayCanvas \/ (s.back = r.front /\ s.texts = r.texts)
     ELSE s.displayCanvas = r.displayCanvas /\ s.back = r.back
  /\ s.result \notin {"Completed", "MoreWork"} =>
       /\ s.texts = r.texts /\ s.current = r.current
       /\ s.front = r.front \/ HistoryFull(s)

(* A request with nothing to do leaves everything as it is. *)
LEMMA SameViewTurns ==
  ASSUME NEW r, NEW s, SameView(r, s), ~s.active, s.result \notin {"Completed", "MoreWork"}
  PROVE  Turns(r, s)
BY DEF Turns, InFront, SameView

(* beginBlankPage() *)
LEMMA BlankOnCanvas ==
  ASSUME NEW o \in Readers, NEW canvas \in {"front", "back"}, NEW p, p = BlankPage(o, canvas)
  PROVE  /\ p.displayCanvas = o.displayCanvas /\ p.target = canvas
         /\ p.texts = o.texts /\ p.current = o.current
         /\ p.active = o.active /\ p.prefetching = o.prefetching /\ p.rebuilding = o.rebuilding
         /\ IF canvas = "front" THEN LaidInFront(p) /\ p.back = o.back ELSE p.front = o.front
<1> DEFINE s == [o EXCEPT !.work = NoText, !.target = canvas]
<1>1. p = OnCanvas(s, canvas, NoText)
  BY DEF BlankPage
<1>2. /\ s.displayCanvas = o.displayCanvas /\ s.target = canvas /\ s.work = NoText
      /\ s.texts = o.texts /\ s.current = o.current /\ s.front = o.front /\ s.back = o.back
      /\ s.active = o.active /\ s.prefetching = o.prefetching /\ s.rebuilding = o.rebuilding
      /\ DOMAIN s = DOMAIN o
  BY DEF Readers
<1> HIDE DEF s
<1> QED
  BY <1>1, <1>2 DEF OnCanvas, LaidInFront, Readers

(* rebuildPage() *)
LEMMA RebuildTurns ==
  ASSUME NEW r, AtRest(r), NEW index \in Nat, NEW ok, NEW s, s = RebuildPage(r, index, ok)
  PROVE  Turns(r, s)
<1> DEFINE anchor == r.anchors[index + 1]
<1> DEFINE entry == r.entryOpen /\ r.chapterEnded
<1> DEFINE closed == [r EXCEPT !.entryOpen = entry]
<1> DEFINE o == OpenLinearSpineAt(closed, anchor.spine, ok)
<1> DEFINE p == BlankPage(o, "front")
<1> DEFINE failed == [o EXCEPT !.error = TRUE]
<1> DEFINE t == [p EXCEPT !.rebuilding = index, !.seek = anchor.parserCheckpoint,
                          !.workAnchor = anchor, !.active = TRUE, !.result = "MoreWork"]
<1>1. r \in Readers /\ ~r.active /\ ~r.prefetching
  BY DEF AtRest, Resting, Stopped
<1>2. s \in {Idle(r), failed, t} /\ (s = failed => o.result = "Failed" \/ s \in {Idle(r), t})
  BY DEF RebuildPage
<1>3. Turns(r, Idle(r))
  BY <1>1, SameViews, IdleKeeps, SameViewTurns DEF GoesOn
<1>4. closed \in Readers /\ SameView(r, closed) /\ GoesOn(r, closed)
  <2>1. entry \in BOOLEAN
    OBVIOUS
  <2> HIDE DEF entry
  <2> QED
    BY <1>1, <2>1 DEF Readers, SameView, GoesOn
<1>5. Resting(closed)
  <2>1. /\ closed.texts = r.texts /\ closed.anchors = r.anchors /\ closed.current = r.current
        /\ closed.rebuilding = r.rebuilding /\ closed.pend = r.pend /\ closed.fed = r.fed
        /\ closed.offset = r.offset /\ closed.chapter = r.chapter
        /\ closed.chapterEnded = r.chapterEnded
    BY <1>1 DEF Readers
  <2> HIDE DEF closed
  <2> QED
    BY <1>4, <2>1 DEF AtRest, Resting, CacheInv, TextInOrder
<1> HIDE DEF closed, anchor
<1>6. o \in Readers /\ SameView(closed, o) /\ GoesOn(closed, o)
  BY <1>4, <1>5, OpenLinearSpineAtOpens, OpensSameView DEF Opens, Resting
<1> HIDE DEF o
<1>7. SameView(r, o) /\ ~o.active /\ ~o.prefetching
  BY <1>1, <1>4, <1>6, SameViewTrans DEF GoesOn
<1>8. ASSUME o.result = "Failed" PROVE Turns(r, failed)
  <2>1. SameView(o, failed) /\ failed.result = "Failed" /\ ~failed.active
    BY <1>6, <1>7, <1>8 DEF Readers, SameView
  <2> HIDE DEF failed
  <2> QED
    BY <1>7, <2>1, SameViewTrans, SameViewTurns
<1>9. Turns(r, t)
  <2>1. /\ p.displayCanvas = o.displayCanvas /\ LaidInFront(p) /\ p.back = o.back
        /\ DOMAIN p = DOMAIN o
    <3>1. DOMAIN p = DOMAIN o
      BY <1>6 DEF BlankPage, OnCanvas, Readers
    <3> HIDE DEF p
    <3> QED
      BY <1>6, <3>1, BlankOnCanvas DEF p
  <2> HIDE DEF p
  <2>2. /\ t.displayCanvas = p.displayCanvas /\ t.back = p.back /\ t.result = "MoreWork"
        /\ t.target = p.target /\ t.front = p.front /\ t.work = p.work
    BY <1>6, <2>1 DEF Readers
  <2> HIDE DEF t
  <2> QED
    BY <1>7, <2>1, <2>2 DEF Turns, InFront, LaidInFront, SameView
<1> HIDE DEF failed, t
<1> QED
  BY <1>2, <1>3, <1>8, <1>9

(* A cached text is drawn from its first line on. *)
LEMMA DrawnShows ==
  ASSUME NEW r \in Readers, NEW t \in Texts, t.from <= t.to
  PROVE  IsBlank(Drawn(r, t)) \/ Shows(Drawn(r, t), t)
<1> DEFINE fit == Min({Size(t), Lines[r.size][r.family]})
<1> DEFINE d == [t EXCEPT !.to = t.from + fit]
<1>1. t.from \in Nat /\ t.to \in Nat /\ Size(t) \in Int
  BY DEF Texts, Size
<1>2. Lines[r.size][r.family] \in Nat \ {0}
  BY BookFacts DEF Readers
<1>3. IsBlank(NoText)
  BY DEF IsBlank, NoText
<1>4. CASE IsBlank(t)
  BY <1>3, <1>4 DEF Drawn
<1>5. CASE ~IsBlank(t)
  <2>1. Size(t) > 0 /\ Size(t) = t.to - t.from
    BY <1>1, <1>5 DEF Size, IsBlank
  <2>2. fit \in Nat /\ fit > 0 /\ t.from + fit <= t.to
    <3>1. Lines[r.size][r.family] \in Int
      BY <1>2
    <3>2. fit \in {Size(t), Lines[r.size][r.family]} /\ fit <= Size(t)
      BY <1>1, <3>1, MinPair
    <3> HIDE DEF fit
    <3> QED
      BY <1>1, <1>2, <2>1, <3>2
  <2>3. Drawn(r, t) = d
    BY <1>5 DEF Drawn
  <2> HIDE DEF fit
  <2>4. d.spine = t.spine /\ d.from = t.from /\ d.to = t.from + fit
    BY DEF Texts
  <2> HIDE DEF d
  <2> QED
    BY <1>1, <2>2, <2>3, <2>4 DEF Shows
<1> QED
  BY <1>4, <1>5

(* renderCachedPage() *)
LEMMA RenderTurns ==
  ASSUME NEW r, AtRest(r), Stocked(r), NEW index \in Nat, index < Len(r.texts),
         NEW s, s = RenderCachedPage(r, index)
  PROVE  /\ PageInFront(s) /\ s.displayCanvas = r.displayCanvas /\ s.back = r.back
         /\ ~s.active /\ s.result = "Completed"
<1> DEFINE t == r.texts[index + 1]
<1> DEFINE d == Drawn(r, t)
<1> DEFINE p == BlankPage(r, "front")
<1>1. r \in Readers /\ ~r.active /\ r.texts \in Seq(Texts) /\ Len(r.texts) \in Nat
  BY DEF AtRest, Resting, Stopped, Readers
<1>2. t \in Texts /\ t.from <= t.to
  <2>1. index + 1 \in DOMAIN r.texts
    BY <1>1, LenProperties
  <2>2. t.from <= t.to
    BY <2>1 DEF Stocked, Shelf, WithinBudget, SmallPages
  <2> QED
    BY <1>1, <2>1, <2>2, ElementOfSeq
<1>3. IsBlank(d) \/ Shows(d, t)
  <2> HIDE DEF t
  <2> QED
    BY <1>1, <1>2, DrawnShows
<1>4. s = [p EXCEPT !.work = t, !.front = d, !.current = index, !.result = "Completed"]
  BY DEF RenderCachedPage
<1>5. /\ p.displayCanvas = r.displayCanvas /\ p.back = r.back /\ p.texts = r.texts
      /\ ~p.active /\ DOMAIN p = DOMAIN r
  <2>1. DOMAIN p = DOMAIN r
    BY <1>1 DEF BlankPage, OnCanvas, Readers
  <2> HIDE DEF p
  <2> QED
    BY <1>1, <2>1, BlankOnCanvas DEF p
<1> HIDE DEF p, d
<1>6. /\ s.front = d /\ s.current = index /\ s.texts = p.texts /\ s.active = p.active
      /\ s.displayCanvas = p.displayCanvas /\ s.back = p.back /\ s.result = "Completed"
  BY <1>1, <1>4, <1>5 DEF Readers
<1> QED
  BY <1>3, <1>5, <1>6 DEF PageInFront

(* redrawCurrentPage() *)
LEMMA RedrawTurns ==
  ASSUME NEW r, AtRest(r), Stocked(r), CanRedraw(r), NEW s, s = RedrawCurrentPage(r)
  PROVE  /\ PageInFront(s) /\ s.displayCanvas = r.displayCanvas /\ s.back = r.back
         /\ ~s.active /\ s.result = "Completed"
<1>1. r.current \in Nat
  BY DEF AtRest, Resting, Readers
<1> QED
  BY <1>1, RenderTurns DEF RedrawCurrentPage, CanRedraw

(* swapCanvases() *)
LEMMA SwapTurns ==
  ASSUME Undisturbed, NEW r, AtRest(r), Stocked(r), NextReady(r), NEW s, s = SwapCanvases(r)
  PROVE  Turns(r, s)
<1> DEFINE d == IF r.displayCanvas = "front" THEN "back" ELSE "front"
<1> DEFINE c == r.current + 1
<1>1. /\ r \in Readers /\ ~r.active /\ r.texts \in Seq(Texts) /\ Len(r.texts) \in Nat
      /\ r.current \in Nat
  BY DEF AtRest, Resting, Stopped, Readers
<1>2. c + 1 \in DOMAIN r.texts /\ r.back = r.texts[c + 1]
  <2>1. c + 1 = r.current + 2 /\ c < Len(r.texts)
    BY <1>1 DEF NextReady
  <2>2. r.back = r.texts[c + 1]
    BY <2>1 DEF Stocked, Behind, NextReady, NextThere
  <2> QED
    BY <1>1, <2>1, <2>2, LenProperties
<1>3. IsBlank(r.back) \/ Shows(r.back, r.texts[c + 1])
  <2>1. r.back.from <= r.back.to /\ r.back \in Texts
    BY <1>1, <1>2 DEF Stocked, Shelf, WithinBudget, SmallPages, Readers
  <2> QED
    BY <1>2, <2>1, ShowsItself
<1>4. s = [r EXCEPT !.front = r.back, !.back = r.front, !.current = c,
                    !.prefetch = "Idle", !.displayCanvas = d, !.result = "Completed"]
  BY DEF SwapCanvases
<1> HIDE DEF c, d
<1>5. /\ s.front = r.back /\ s.back = r.front /\ s.current = c /\ s.texts = r.texts
      /\ s.active = r.active /\ s.result = "Completed"
  BY <1>1, <1>4 DEF Readers
<1> QED
  BY <1>1, <1>3, <1>5 DEF Turns, InFront, PageInFront

(* prepareUncachedPage(): in front the page is turned, behind it nothing of *)
(* it is seen.                                                              *)
PreparedOn(r, canvas, s) ==
  /\ s.displayCanvas = r.displayCanvas
  /\ IF canvas = "front" THEN Turns(r, s) ELSE OutOfSight(r, s)

(* What no canvas takes part in is done on both. *)
LEMMA SameViewPrepared ==
  ASSUME NEW r \in Readers, NEW canvas, NEW s, SameView(r, s), ~s.active,
         s.result \notin {"Completed", "MoreWork"}
  PROVE  PreparedOn(r, canvas, s)
<1>1. Len(r.texts) \in Nat
  BY LenProperties DEF Readers
<1> QED
  BY <1>1, SameViewTurns DEF PreparedOn, OutOfSight, KeepsPage, SameView

(* The page that was laid out from the text at hand is committed. *)
LEMMA CommitPrepared ==
  ASSUME NEW r \in Readers, NEW canvas \in {"front", "back"}, r.prefetching <=> canvas = "back",
         NEW x, Resting(x), Fits(x), x.rebuilding = NoPage, ~x.active,
         x.prefetching = r.prefetching, x.displayCanvas = r.displayCanvas,
         x.texts = r.texts, x.current = r.current,
         IF canvas = "front" THEN LaidInFront(x) /\ x.back = r.back ELSE x.front = r.front,
         NEW s, s = Commit(x)
  PROVE  PreparedOn(r, canvas, s)
<1>1. x \in Readers /\ x.work \in Texts /\ Len(r.texts) \in Nat
  BY LenProperties DEF Resting, Readers
<1>2. CASE CommitRefused(x)
  <2>1. s = FailReader(x)
    BY <1>2 DEF Commit
  <2>2. SameView(x, s) /\ s.result = "Failed" /\ ~s.active
    BY <1>1, <2>1, SameViews, FailReaderKeeps DEF Stopped
  <2>3. HistoryFull(x)
    BY <1>2, RestingValid DEF CommitRefused, HistoryFull
  <2> QED
    BY <1>1, <2>2, <2>3
       DEF PreparedOn, Turns, OutOfSight, KeepsPage, InFront, SameView, HistoryFull
<1>3. CASE ~CommitRefused(x)
  <2>1. s = CommitPage(x) /\ s.result = "Completed"
    BY <1>3, CommitPageResting DEF Commit
  <2>2. /\ s.front = x.front /\ s.back = x.back /\ s.displayCanvas = x.displayCanvas
        /\ s.active = x.active
        /\ IF x.prefetching THEN KeepsPage(x, s) ELSE s.texts[s.current + 1] = x.work
    BY <2>1, CommitInFront
  <2>3. CASE canvas = "front"
    <3>1. IsBlank(x.work) \/ Shows(x.work, x.work)
      BY <1>1, ShowsItself DEF Fits
    <3> QED
      BY <2>1, <2>2, <2>3, <3>1 DEF PreparedOn, Turns, InFront, PageInFront, LaidInFront
  <2>4. CASE canvas = "back"
    BY <2>2, <2>4 DEF PreparedOn, OutOfSight, KeepsPage
  <2> QED
    BY <2>3, <2>4
<1> QED
  BY <1>2, <1>3

(* prepareUncachedPage() *)
LEMMA PrepareTurns ==
  ASSUME NEW r, NEW canvas \in {"front", "back"}, Preparing(r, canvas),
         r.prefetching <=> canvas = "back",
         NEW ok, NEW s, s = PrepareUncachedPage(r, canvas, ok)
  PROVE  PreparedOn(r, canvas, s)
<1> DEFINE o == IF r.chapterEnded THEN OpenNextLinearSpine(r, ok) ELSE Return(r, "Completed")
<1> DEFINE p == BlankPage(o, canvas)
<1> DEFINE laid == LayOut(p)
<1> DEFINE w == IF o.error THEN "Failed" ELSE "Idle"
<1> DEFINE started == [laid EXCEPT !.active = TRUE, !.result = "MoreWork"]
<1>1. /\ r \in Readers /\ ValidCache(r) /\ Resting(r) /\ ~r.active /\ r.rebuilding = NoPage
      /\ Len(r.texts) \in Nat
  BY RestingValid, LenProperties DEF Preparing, Resting, Shelf, Readers
<1>2. \/ s = Idle(r)
      \/ o.result = "Failed" /\ s = Return(o, w)
      \/ o.result # "Failed" /\ s = Commit(laid)
      \/ o.result # "Failed" /\ s = started
  BY <1>1 DEF PrepareUncachedPage
<1>3. CASE s = Idle(r)
  BY <1>1, <1>3, SameViews, IdleKeeps, SameViewPrepared DEF GoesOn
<1>4. Resting(o) /\ o \in Readers /\ SameView(r, o) /\ GoesOn(r, o) /\ o.rebuilding = NoPage
  <2>1. CASE r.chapterEnded
    <3>1. o = OpenNextLinearSpine(r, ok)
      BY <2>1
    <3> QED
      BY <1>1, <3>1, OpenNextLinearSpineOpens, OpensSameView DEF Opens, Resting
  <2>2. CASE ~r.chapterEnded
    <3>1. o = Return(r, "Completed")
      BY <2>2
    <3>2. Keeps(r, o) /\ GoesOn(r, o) /\ SameView(r, o)
      BY <1>1, <3>1, ReturnKeeps, SameViews DEF WorkResults
    <3> HIDE DEF o
    <3> QED
      BY <1>1, <3>2, KeepsResting DEF Resting, Keeps
  <2> QED
    BY <2>1, <2>2
<1> HIDE DEF o
<1>5. CASE o.result = "Failed" /\ s = Return(o, w)
  <2>1. w \in WorkResults /\ w \notin {"Completed", "MoreWork"}
    BY DEF WorkResults
  <2> HIDE DEF w
  <2>2. SameView(o, s) /\ GoesOn(o, s) /\ s.result = w
    BY <1>4, <1>5, <2>1, ReturnKeeps, SameViews
  <2>3. SameView(r, s) /\ ~s.active
    BY <1>1, <1>4, <2>2, SameViewTrans DEF GoesOn
  <2> QED
    BY <1>1, <2>1, <2>2, <2>3, SameViewPrepared
<1>6. /\ p \in Readers /\ Resting(p) /\ Fits(p)
      /\ p.displayCanvas = o.displayCanvas /\ p.target = canvas
      /\ p.texts = o.texts /\ p.current = o.current
      /\ p.active = o.active /\ p.prefetching = o.prefetching /\ p.rebuilding = o.rebuilding
      /\ IF canvas = "front" THEN LaidInFront(p) /\ p.back = o.back ELSE p.front = o.front
  <2>1. p \in Readers /\ Resting(p) /\ Fits(p)
    BY <1>4, BlankPageInv DEF Resting
  <2> HIDE DEF p
  <2> QED
    BY <1>4, <2>1, BlankOnCanvas DEF p
<1> HIDE DEF p
<1>7. /\ laid \in Readers /\ Resting(laid) /\ Fits(laid)
      /\ laid.displayCanvas = p.displayCanvas /\ laid.target = p.target
      /\ laid.texts = p.texts /\ laid.current = p.current
      /\ laid.active = p.active /\ laid.prefetching = p.prefetching
      /\ laid.rebuilding = p.rebuilding
      /\ LaidInFront(p) => LaidInFront(laid) /\ laid.back = p.back
      /\ p.target = "back" => laid.front = p.front
  <2>1. laid \in Readers /\ Resting(laid) /\ Fits(laid)
    BY <1>6, LayOutExtends DEF Extends, Resting
  <2> HIDE DEF laid
  <2> QED
    BY <1>6, <2>1, LayOutInFront DEF laid
<1> HIDE DEF laid
<1>8. /\ laid.rebuilding = NoPage /\ ~laid.active /\ laid.prefetching = r.prefetching
      /\ laid.displayCanvas = r.displayCanvas /\ laid.texts = r.texts
      /\ laid.current = r.current
      /\ IF canvas = "front" THEN LaidInFront(laid) /\ laid.back = r.back
         ELSE laid.front = r.front
  BY <1>1, <1>4, <1>6, <1>7 DEF SameView, GoesOn
<1>9. CASE s = Commit(laid)
  BY <1>1, <1>7, <1>8, <1>9, CommitPrepared
<1>10. CASE s = started
  <2>1. SameView(laid, s) /\ s.result = "MoreWork"
    BY <1>7, <1>10 DEF Readers, SameView
  <2> QED
    BY <1>1, <1>8, <2>1
       DEF PreparedOn, Turns, OutOfSight, KeepsPage, InFront, LaidInFront, SameView
<1> QED
  BY <1>2, <1>3, <1>5, <1>9, <1>10

(* What a request does to a view like the reader's it does to the reader's. *)
LEMMA SameViewThenTurns ==
  ASSUME NEW r, NEW f, NEW s, SameView(r, f), Turns(f, s)
  PROVE  Turns(r, s)
BY DEF Turns, SameView

(* requestNextPage() *)
LEMMA RequestNextPageTurns ==
  ASSUME Undisturbed, NEW r, AtRest(r), Stocked(r), NEW ok, NEW s, s = RequestNextPage(r, ok)
  PROVE  Turns(r, s)
<1>1. /\ ValidCache(r) /\ ~r.active /\ ~r.prefetching /\ r.current + 1 \in Nat
      /\ Resting(r) /\ Len(r.texts) \in Nat /\ r \in Readers /\ r.current \in Nat
      /\ (r.prefetch = "Ready" => DoubleBuffer)
  BY RestingValid DEF AtRest, Stopped, Resting, Readers, Stocked, Behind
<1>2. CASE r.current + 1 >= Len(r.texts)
  <2>1. s = PrepareUncachedPage(r, "front", ok)
    BY <1>1, <1>2 DEF RequestNextPage
  <2>2. Preparing(r, "front")
    BY <1>1, <1>2 DEF Preparing, Stocked
  <2> QED
    BY <1>1, <2>1, <2>2, PrepareTurns DEF PreparedOn
<1>3. CASE r.current + 1 < Len(r.texts) /\ r.prefetch = "Ready"
  <2>1. s = SwapCanvases(r)
    BY <1>1, <1>3 DEF RequestNextPage
  <2> QED
    BY <1>3, <2>1, SwapTurns DEF NextReady
<1>4. CASE r.current + 1 < Len(r.texts) /\ r.prefetch # "Ready"
  <2> DEFINE c == RenderCachedPage(r, r.current + 1)
  <2>1. CASE IsBlank(r.texts[r.current + 2])
    <3>1. s = RebuildPage(r, r.current + 1, ok)
      BY <1>1, <1>4, <2>1 DEF RequestNextPage
    <3> QED
      BY <1>1, <3>1, RebuildTurns
  <2>2. CASE ~IsBlank(r.texts[r.current + 2])
    <3>1. s = [c EXCEPT !.prefetch = "Idle"]
      BY <1>1, <1>4, <2>2 DEF RequestNextPage
    <3>2. /\ PageInFront(c) /\ c.displayCanvas = r.displayCanvas /\ c.back = r.back
          /\ ~c.active /\ c.result = "Completed" /\ c \in Readers
      <4>1. r.current + 1 + 1 = r.current + 2
        BY <1>1
      <4> QED
        BY <1>1, <1>4, <2>2, <4>1, RenderTurns, RenderCachedPageRests DEF AtRest, Resting
    <3> HIDE DEF c
    <3>3. SameView(c, s) /\ s.active = c.active /\ s.result = c.result
      BY <3>1, <3>2 DEF SameView, Readers
    <3> QED
      BY <3>2, <3>3 DEF Turns, InFront, PageInFront, SameView
  <2> QED
    BY <2>1, <2>2
<1> QED
  BY <1>1, <1>2, <1>3, <1>4

(* requestPreviousPage() *)
LEMMA RequestPreviousPageTurns ==
  ASSUME NEW r, AtRest(r), Stocked(r), NEW ok, NEW s, s = RequestPreviousPage(r, ok)
  PROVE  Turns(r, s)
<1> DEFINE f == InvalidateReadyPrefetch(r)
<1>1. ValidCache(r) /\ r.current \in Nat /\ r \in Readers /\ ~r.active /\ Len(r.texts) \in Nat
  BY RestingValid DEF AtRest, Resting, Readers, Stopped
<1>2. AtRest(f) /\ Stocked(f) /\ SameView(r, f)
  <2>1. Keeps(r, f) /\ GoesOn(r, f) /\ Stocked(f) /\ SameView(r, f)
    BY <1>1, InvalidateKeeps, InvalidateStocked, SameViews
  <2> HIDE DEF f
  <2> QED
    BY <2>1, AtRestKeeps
<1> HIDE DEF f
<1>3. CASE r.active \/ r.current = 0 \/ r.texts = <<>>
  <2>1. s = Idle(r)
    BY <1>1, <1>3 DEF RequestPreviousPage
  <2> QED
    BY <1>1, <2>1, SameViews, IdleKeeps, SameViewTurns DEF GoesOn
<1>4. CASE ~(r.active \/ r.current = 0 \/ r.texts = <<>>)
  <2>1. r.current - 1 \in Nat /\ r.current - 1 < Len(f.texts) /\ r.current - 1 + 1 = r.current
    BY <1>1, <1>2, <1>4 DEF ValidCache, SameView
  <2>2. Turns(f, s)
    <3>1. CASE IsBlank(r.texts[r.current])
      <4>1. s = RebuildPage(f, r.current - 1, ok)
        BY <1>1, <1>4, <3>1 DEF RequestPreviousPage, f
      <4> QED
        BY <1>2, <2>1, <4>1, RebuildTurns
    <3>2. CASE ~IsBlank(r.texts[r.current])
      <4>1. s = RenderCachedPage(f, r.current - 1)
        BY <1>1, <1>4, <3>2 DEF RequestPreviousPage, f
      <4>2. /\ PageInFront(s) /\ s.displayCanvas = f.displayCanvas /\ s.back = f.back
            /\ ~s.active /\ s.result = "Completed"
        BY <1>2, <2>1, <4>1, RenderTurns
      <4> QED
        BY <4>2 DEF Turns, InFront
    <3> QED
      BY <3>1, <3>2
  <2> QED
    BY <1>2, <2>2, SameViewThenTurns
<1> QED
  BY <1>3, <1>4

(* A page laid out again with another font is on the front canvas, too. *)
LEMMA RefontTurns ==
  ASSUME NEW r, AtRest(r), Stocked(r), NEW size \in Sizes, NEW family \in Families,
         NEW q, q \in {[r EXCEPT !.size = size], [r EXCEPT !.family = family]}, NEW ok,
         NEW s, s = RebuildPage(InvalidateReadyPrefetch(q), r.current, ok)
  PROVE  Turns(r, s)
<1> DEFINE f == InvalidateReadyPrefetch(q)
<1>1. AtRest(f)
  BY FontStocked
<1>2. r \in Readers /\ r.current \in Nat
  BY DEF AtRest, Resting, Readers
<1>3. q \in Readers /\ SameView(r, q)
  <2>1. [r EXCEPT !.size = size] \in Readers /\ SameView(r, [r EXCEPT !.size = size])
    BY <1>2 DEF Readers, SameView
  <2>2. [r EXCEPT !.family = family] \in Readers /\ SameView(r, [r EXCEPT !.family = family])
    BY <1>2 DEF Readers, SameView
  <2> QED
    BY <2>1, <2>2
<1>4. SameView(r, f)
  BY <1>3, SameViews, SameViewTrans
<1> HIDE DEF f
<1>5. Turns(f, s)
  BY <1>1, <1>2, RebuildTurns DEF f
<1> QED
  BY <1>4, <1>5, SameViewThenTurns

(* reflowCurrentPage() *)
LEMMA ReflowTurns ==
  ASSUME NEW r, AtRest(r), Stocked(r), NEW size \in Sizes, NEW ok
  PROVE  Turns(r, ReflowCurrentPage(r, size, ok))
<1> DEFINE q == [r EXCEPT !.size = size]
<1>1. ValidCache(r) /\ r \in Readers /\ r.family \in Families /\ ~r.active
  BY RestingValid DEF AtRest, Resting, Readers, Stopped
<1>2. Turns(r, Idle(r))
  BY <1>1, SameViews, IdleKeeps, SameViewTurns DEF GoesOn
<1>3. \/ ReflowCurrentPage(r, size, ok) = Idle(r)
      \/ ReflowCurrentPage(r, size, ok) = RebuildPage(InvalidateReadyPrefetch(q), r.current, ok)
  BY <1>1 DEF ReflowCurrentPage
<1>4. q \in {[r EXCEPT !.size = size], [r EXCEPT !.family = r.family]}
  OBVIOUS
<1> HIDE DEF q
<1> QED
  BY <1>1, <1>2, <1>3, <1>4, RefontTurns

(* changeFontSize() and cycleFontFamily() *)
LEMMA FontTurns ==
  ASSUME NEW r, AtRest(r), Stocked(r), NEW ok
  PROVE  /\ Turns(r, IncreaseFontSize(r, ok)) /\ Turns(r, DecreaseFontSize(r, ok))
         /\ Turns(r, CycleFontFamily(r, ok))
<1> DEFINE family == (r.family + 1) % 3
<1> DEFINE q == [r EXCEPT !.family = family]
<1>1. r \in Readers /\ r.size \in Sizes /\ family \in Families /\ ~r.active
  BY DEF AtRest, Resting, Readers, Families, Stopped
<1>2. Turns(r, Idle(r))
  BY <1>1, SameViews, IdleKeeps, SameViewTurns DEF GoesOn
<1>3. Turns(r, IncreaseFontSize(r, ok)) /\ Turns(r, DecreaseFontSize(r, ok))
  BY <1>2, ReflowTurns DEF IncreaseFontSize, DecreaseFontSize
<1>4. \/ CycleFontFamily(r, ok) = Idle(r)
      \/ CycleFontFamily(r, ok) = RebuildPage(InvalidateReadyPrefetch(q), r.current, ok)
  BY DEF CycleFontFamily
<1> HIDE DEF family
<1>5. q \in {[r EXCEPT !.size = r.size], [r EXCEPT !.family = family]}
  OBVIOUS
<1> HIDE DEF q
<1>6. Turns(r, CycleFontFamily(r, ok))
  BY <1>1, <1>2, <1>4, <1>5, RefontTurns
<1> QED
  BY <1>3, <1>6

(* requestPrefetch(): nothing of it is seen in front. *)
LEMMA RequestPrefetchUnseen ==
  ASSUME NEW r, AtRest(r), Stocked(r), OnScreen(r), NEW ok, NEW s, s = RequestPrefetch(r, ok)
  PROVE  OutOfSight(r, s)
<1> DEFINE noted == [r EXCEPT !.checkpoint = r.workAnchor]
<1> DEFINE asked == [noted EXCEPT !.prefetching = TRUE, !.prefetch = "ReadingInput"]
<1> DEFINE p == PrepareUncachedPage(asked, "back", ok)
<1> DEFINE m == MoveTo(p, "Ready")
<1> DEFINE ready == [m EXCEPT !.prefetching = FALSE]
<1> DEFINE given == [p EXCEPT !.prefetching = FALSE, !.prefetch = "Idle"]
<1>1. /\ r \in Readers /\ ValidCache(r) /\ ~r.active /\ Len(r.texts) \in Nat
  BY RestingValid, LenProperties DEF AtRest, Resting, Stopped, Readers
<1>2. ASSUME NEW t, SameView(r, t) PROVE OutOfSight(r, t)
  BY <1>1, <1>2 DEF OutOfSight, KeepsPage, SameView
<1>3. /\ noted \in Readers /\ SameView(r, noted) /\ noted.checkpoint = r.workAnchor
      /\ SameShelf(r, noted) /\ SameText(r, noted) /\ noted.rebuilding = r.rebuilding
      /\ noted.workAnchor = r.workAnchor /\ noted.inputEnded = r.inputEnded
      /\ noted.chapterEnded = r.chapterEnded /\ noted.active = r.active
      /\ noted.entryOpen = r.entryOpen
  BY <1>1 DEF Readers, SameView, SameShelf, SameText
<1> HIDE DEF noted
<1>4. CASE PrefetchBlocked(r) \/ ~CanStart(r.prefetch)
  <2>1. s \in {Idle(r), Idle(noted)}
    BY <1>1, <1>4 DEF RequestPrefetch, noted
  <2>2. SameView(r, Idle(r)) /\ SameView(r, Idle(noted))
    BY <1>1, <1>3, SameViews, SameViewTrans
  <2> QED
    BY <1>2, <2>1, <2>2
<1>5. CASE ~PrefetchBlocked(r) /\ CanStart(r.prefetch)
  <2>1. s \in {p, ready, given}
    BY <1>1, <1>5 DEF RequestPrefetch, noted
  <2>2. /\ asked \in Readers /\ SameView(noted, asked) /\ SameShelf(noted, asked)
        /\ SameText(noted, asked) /\ asked.checkpoint = noted.checkpoint
        /\ asked.prefetching = TRUE /\ asked.prefetch = "ReadingInput"
        /\ asked.rebuilding = noted.rebuilding
        /\ asked.workAnchor = noted.workAnchor /\ asked.inputEnded = noted.inputEnded
        /\ asked.chapterEnded = noted.chapterEnded /\ asked.active = noted.active
        /\ asked.entryOpen = noted.entryOpen
    BY <1>3 DEF Readers, PrefetchStates, SameView, SameShelf, SameText
  <2> HIDE DEF asked
  <2>3. SameView(r, asked)
    BY <1>3, <2>2, SameViewTrans
  <2>4. Preparing(asked, "back")
    <3>1. Resting(asked)
      BY <1>3, <2>2 DEF AtRest, Resting, CacheInv, TextInOrder, SameShelf, SameText
    <3>2. Flow(asked) /\ Shelf(asked)
      BY <1>3, <2>2, <2>3 DEF Stocked, Flow, InPlace, Stuck, Shelf, Showing,
                              SameView, SameShelf, SameText
    <3>3. DoubleBuffer /\ r.current + 1 >= Len(r.texts)
      <4>1. r.current \in Nat
        BY <1>1 DEF Readers
      <4> QED
        BY <1>1, <1>5, <4>1 DEF PrefetchBlocked
    <3>4. OnScreen(asked) /\ ~asked.active /\ asked.current + 1 >= Len(asked.texts)
      BY <1>1, <1>3, <2>2, <2>3, <3>3, SameShown DEF SameView, SameShelf, OnScreen, Showing
    <3>5. asked.texts = <<>> => Fillable(asked.checkpoint)
      <4>1. r.texts = <<>> => Fillable(r.workAnchor)
        BY DEF Stocked, Shelf, Showing
      <4> QED
        BY <1>3, <2>2, <2>3, <4>1 DEF SameView
    <3> QED
      BY <2>2, <3>1, <3>2, <3>3, <3>4, <3>5 DEF Preparing
  <2>5. p \in Readers /\ OutOfSight(asked, p)
    <3>1. Resting(p)
      BY <2>4, PrepareUncachedPagePrepares DEF Preparing
    <3>2. PreparedOn(asked, "back", p)
      BY <2>2, <2>4, PrepareTurns
    <3> QED
      BY <3>1, <3>2 DEF Resting, PreparedOn
  <2> HIDE DEF p
  <2>6. OutOfSight(r, p)
    BY <2>3, <2>5 DEF OutOfSight, KeepsPage, SameView
  <2>7. ASSUME NEW t, SameView(p, t) PROVE OutOfSight(r, t)
    BY <2>6, <2>7 DEF OutOfSight, KeepsPage, SameView
  <2>8. SameView(p, given) /\ SameView(p, ready)
    <3>1. m \in Readers /\ SameView(p, m)
      BY <2>5, SameViews, MoveToKeeps DEF Keeps, PrefetchStates
    <3> HIDE DEF m
    <3>2. SameView(m, ready) /\ SameView(p, given)
      BY <2>5, <3>1 DEF Readers, SameView
    <3> QED
      BY <3>1, <3>2, SameViewTrans
  <2> QED
    BY <2>1, <2>6, <2>7, <2>8
<1> QED
  BY <1>4, <1>5

(* A session begins, or fails to, on the display's own canvas. *)
InOwnCanvas(s) == s.displayCanvas = "front" /\ InFront(s)

LEMMA BeginsInOwnCanvas ==
  ASSUME NEW o \in Readers, o.displayCanvas = "front", ~o.active
  PROVE  /\ InOwnCanvas([o EXCEPT !.error = TRUE])
         /\ InOwnCanvas([BlankPage(o, "front") EXCEPT !.active = TRUE])
         /\ \A a, n, h, t : InOwnCanvas([BlankPage(o, "front") EXCEPT
              !.workAnchor = a, !.seek = n, !.anchors = h, !.texts = t, !.active = TRUE])
<1> DEFINE p == BlankPage(o, "front")
<1>1. InOwnCanvas([o EXCEPT !.error = TRUE])
  BY DEF Readers, InOwnCanvas, InFront
<1>2. p.displayCanvas = "front" /\ LaidInFront(p) /\ DOMAIN p = DOMAIN o
  <2>1. DOMAIN p = DOMAIN o
    BY DEF BlankPage, OnCanvas, Readers
  <2> HIDE DEF p
  <2> QED
    BY <2>1, BlankOnCanvas DEF p
<1> HIDE DEF p
<1>3. InOwnCanvas([p EXCEPT !.active = TRUE])
  BY <1>2 DEF Readers, InOwnCanvas, InFront, LaidInFront
<1>4. ASSUME NEW a, NEW n, NEW h, NEW t
      PROVE  InOwnCanvas([p EXCEPT !.workAnchor = a, !.seek = n, !.anchors = h, !.texts = t,
                                   !.active = TRUE])
  BY <1>2 DEF Readers, InOwnCanvas, InFront, LaidInFront
<1> QED
  BY <1>1, <1>3, <1>4 DEF p

(* start() *)
LEMMA StartInOwnCanvas ==
  ASSUME NEW r \in Readers, NEW ok
  PROVE  InOwnCanvas(Start(r, ok))
<1> DEFINE z == ResetSession(r)
<1> DEFINE o == OpenNextLinearSpine(z, ok)
<1>1. Resting(z) /\ Stopped(z) /\ z.displayCanvas = "front"
  BY ResetSessionInv DEF ResetSession, Cleared
<1> HIDE DEF z
<1>2. o \in Readers /\ o.displayCanvas = "front" /\ ~o.active
  BY <1>1, OpenNextLinearSpineOpens, OpensSameView
     DEF Opens, Resting, GoesOn, Stopped, SameView
<1>3. Start(r, ok) = IF o.result = "Failed" THEN [o EXCEPT !.error = TRUE]
                     ELSE [BlankPage(o, "front") EXCEPT !.active = TRUE]
  BY DEF Start, z
<1> HIDE DEF o
<1> QED
  BY <1>2, <1>3, BeginsInOwnCanvas

(* startAt() *)
LEMMA StartAtInOwnCanvas ==
  ASSUME NEW r \in Readers, NEW anchor, NEW size \in Sizes, NEW family \in Families,
         NEW history, NEW ok
  PROVE  InOwnCanvas(StartAt(r, anchor, size, family, history, ok))
<1> DEFINE z == ResetSession(r)
<1> DEFINE q == [z EXCEPT !.size = size, !.family = family]
<1> DEFINE o == OpenLinearSpineAt(q, anchor.spine, ok)
<1>1. Resting(z) /\ Stopped(z) /\ z.displayCanvas = "front"
  BY ResetSessionInv DEF ResetSession, Cleared
<1> DEFINE t == [i \in DOMAIN history |-> NoText]
<1> DEFINE n == anchor.parserCheckpoint
<1> DEFINE begun == [BlankPage(o, "front") EXCEPT
                       !.workAnchor = anchor, !.seek = n, !.anchors = history, !.texts = t,
                       !.active = TRUE]
<1>2. StartAt(r, anchor, size, family, history, ok) =
        IF o.result = "Failed" THEN [o EXCEPT !.error = TRUE] ELSE begun
  BY DEF StartAt
<1> HIDE DEF z
<1>3. Resting(q) /\ ~q.active /\ q.displayCanvas = "front"
  <2>1. q \in Readers
    BY <1>1 DEF Resting, Readers
  <2>2. /\ q.texts = z.texts /\ q.anchors = z.anchors /\ q.current = z.current
        /\ q.rebuilding = z.rebuilding /\ q.pend = z.pend /\ q.fed = z.fed
        /\ q.offset = z.offset /\ q.chapter = z.chapter /\ q.chapterEnded = z.chapterEnded
        /\ q.active = z.active /\ q.displayCanvas = z.displayCanvas
    BY <1>1 DEF Resting, Readers
  <2> HIDE DEF q
  <2> QED
    BY <1>1, <2>1, <2>2 DEF Resting, CacheInv, TextInOrder, Stopped
<1> HIDE DEF q
<1>4. o \in Readers /\ o.displayCanvas = "front" /\ ~o.active
  BY <1>3, OpenLinearSpineAtOpens, OpensSameView DEF Opens, Resting, GoesOn, SameView
<1> HIDE DEF o, t, n
<1>5. InOwnCanvas(begun) /\ InOwnCanvas([o EXCEPT !.error = TRUE])
  BY <1>4, BeginsInOwnCanvas
<1> HIDE DEF begun
<1> QED
  BY <1>2, <1>5
-----------------------------------------------------------------------------
(***************************************************************************)
(* The loop.  A page is refreshed in part only from a canvas the panel     *)
(* still shows, so nothing of another page stays: the canvas submitted     *)
(* last is the reader's front one, or the one behind it shows what the     *)
(* panel does.                                                             *)
(***************************************************************************)
BehindShown(r) == submitted \in {"image", FrontCanvas(r)} \/ r.back = shown

(* Before a session starts, its canvas is the display's own. *)
OwnCanvasLast == submitted \in {"image", "display"}

(* A page request that failed for want of room in the history has drawn    *)
(* over the page in front, and the panel shows what was there before.      *)
PageOnPanel(r) ==
  /\ submitted = FrontCanvas(r)
  /\ HistoryFull(r) \/ (shown = r.front /\ PageInFront(r))

Panel(r) ==
  /\ InFront(r)
  /\ app \in {"Reading", "ReaderMenu"} => Showing(r)
  /\ app = "Reading" => PageOnPanel(r)
  /\ app = "OpeningBook" /\ layingOut => BehindShown(r)
  /\ app = "ReaderMenu" => BehindShown(r)
  /\ app # "Reading" /\ ~(app = "OpeningBook" /\ layingOut) => OwnCanvasLast

PanelInv == Panel(rd)

(* A reader that looks the same is as well on the panel. *)
LEMMA SamePanel ==
  ASSUME NEW r, NEW s, Panel(r), SameView(r, s),
         s.active => r.active /\ s.prefetching = r.prefetching
  PROVE  Panel(s)
BY DEF Panel, SameView, InFront, LaidInFront, Showing, PageOnPanel, PageInFront, HistoryFull,
       BehindShown, FrontCanvas

LEMMA IdlePanel ==
  ASSUME NEW r \in Readers
  PROVE  SameView(r, Idle(r)) /\ Idle(r).active = r.active /\ Idle(r).prefetching = r.prefetching
BY SameViews, IdleKeeps DEF GoesOn

(* renderCurrentReaderPage() *)
LEMMA PresentPanel ==
  ASSUME NEW r \in Readers, InFront(r), Showing(r), PageInFront(r),
         BehindShown(r) \/ HistoryFull(r), Present(r)
  PROVE  PanelInv'
<1>1. /\ SameView(r, rd') /\ rd'.active = r.active /\ rd'.prefetching = r.prefetching
      /\ app' = "Reading" /\ submitted' = FrontCanvas(r)
      /\ shown' = r.front \/ HistoryFull(r)
  BY IdlePanel DEF Present, SubmitPage, Submit, BehindShown
<1>2. InFront(rd') /\ Showing(rd')
  BY <1>1 DEF SameView, InFront, LaidInFront, Showing
<1>3. /\ FrontCanvas(rd') = FrontCanvas(r) /\ rd'.front = r.front
      /\ HistoryFull(rd') <=> HistoryFull(r)
      /\ PageInFront(rd')
  BY <1>1 DEF SameView, FrontCanvas, HistoryFull, PageInFront
<1>4. PageOnPanel(rd)'
  BY <1>1, <1>3 DEF PageOnPanel
<1> QED
  BY <1>1, <1>2, <1>4 DEF PanelInv, Panel

(* A page is laid out before it is presented. *)
LEMMA LayOutPagePanel ==
  ASSUME NEW r \in Readers, InFront(r), BehindShown(r), LayOutPage(r)
  PROVE  PanelInv'
<1>1. SameView(r, rd') /\ rd'.active = r.active /\ rd'.prefetching = r.prefetching
      /\ app' = "OpeningBook" /\ layingOut' = TRUE /\ submitted' = submitted /\ shown' = shown
  BY IdlePanel DEF LayOutPage, NoSubmit
<1> QED
  BY <1>1 DEF PanelInv, Panel, SameView, InFront, LaidInFront, BehindShown, FrontCanvas

(* Nothing is shown. *)
LEMMA StayPanel ==
  ASSUME NEW r \in Readers, Panel(r), Stay(r)
  PROVE  PanelInv'
<1>1. SameView(r, rd') /\ rd'.active = r.active /\ rd'.prefetching = r.prefetching
      /\ app' = app /\ layingOut' = layingOut /\ submitted' = submitted /\ shown' = shown
  BY IdlePanel DEF Stay, NoSubmit
<1>2. Panel(rd')
  BY <1>1, SamePanel
<1> QED
  BY <1>1, <1>2 DEF PanelInv, Panel, PageOnPanel, BehindShown, OwnCanvasLast

(* Another view is on the panel, and on the canvas it was drawn on. *)
LEMMA DrawnOverView ==
  ASSUME NEW r \in Readers, NEW d, d = DrawnOver(r)
  PROVE  /\ d.displayCanvas = r.displayCanvas /\ d.active = r.active
         /\ d.prefetching = r.prefetching /\ d.texts = r.texts /\ d.current = r.current
         /\ r.displayCanvas = "back" => d.back = OtherScreen
BY DEF DrawnOver, OnCanvas, Readers

LEMMA OtherScreenPanel ==
  ASSUME ~rd'.active, SubmitScreen,
         \/ app' \in {"Library", "ErrorDialog"}
         \/ app' = "OpeningBook" /\ ~layingOut'
  PROVE  PanelInv'
BY DEF PanelInv, Panel, InFront, SubmitScreen, Submit, OwnCanvasLast

(* The error dialog *)
LEMMA ShowErrorPanel ==
  ASSUME NEW r \in Readers, ~r.active, ShowError(r)
  PROVE  PanelInv'
<1>1. Idle(r) \in Readers /\ ~Idle(r).active
  BY IdleKeeps DEF Keeps, GoesOn
<1>2. ~rd'.active /\ SubmitScreen /\ app' = "ErrorDialog"
  BY <1>1, DrawnOverView DEF ShowError
<1> QED
  BY <1>2, OtherScreenPanel

(* The reader's menu and what is opened from it *)
LEMMA MenuPanel ==
  ASSUME NEW r \in Readers, ~r.active, Showing(r), app' \in {"ReaderMenu", "Library"},
         \/ rd' = DrawnOver(r) /\ SubmitScreen
         \/ rd' = DrawnOverUnlessCover(r) /\ SubmitCover
  PROVE  PanelInv'
<1>1. CASE Cover /\ rd' = DrawnOverUnlessCover(r) /\ SubmitCover
  <2>1. rd' = r /\ submitted' = "image"
    BY <1>1 DEF DrawnOverUnlessCover, SubmitCover, Submit
  <2> QED
    BY <2>1 DEF PanelInv, Panel, InFront, BehindShown, OwnCanvasLast, Showing
<1>2. CASE rd' = DrawnOver(r) /\ SubmitScreen
  <2>1. submitted' = "display" /\ shown' = OtherScreen
    BY <1>2 DEF SubmitScreen, Submit
  <2>2. /\ rd'.displayCanvas = r.displayCanvas /\ ~rd'.active
        /\ rd'.texts = r.texts /\ rd'.current = r.current
        /\ r.displayCanvas = "back" => rd'.back = OtherScreen
    BY <1>2, DrawnOverView
  <2>3. r.displayCanvas \in {"front", "back"}
    BY DEF Readers
  <2>4. Showing(rd')
    BY <2>2 DEF Showing
  <2> QED
    BY <2>1, <2>2, <2>3, <2>4
       DEF PanelInv, Panel, InFront, BehindShown, OwnCanvasLast, FrontCanvas, Showing
<1>3. \/ Cover /\ rd' = DrawnOverUnlessCover(r) /\ SubmitCover
      \/ rd' = DrawnOver(r) /\ SubmitScreen
  BY DEF DrawnOverUnlessCover, SubmitCover, SubmitScreen
<1> QED
  BY <1>1, <1>2, <1>3

(* A page request that stays where it is *)
LEMMA StayTurned ==
  ASSUME PanelInv, app \in {"Reading", "ReaderMenu"}, NEW r \in Readers, Turns(rd, r), ~r.active,
         r.result \notin {"Completed", "MoreWork"}, Stay(r)
  PROVE  PanelInv'
<1>1. /\ r.displayCanvas = rd.displayCanvas /\ r.back = rd.back
      /\ r.texts = rd.texts /\ r.current = rd.current
      /\ r.front = rd.front \/ HistoryFull(r)
  BY DEF Turns
<1>2. Panel(r)
  BY <1>1 DEF PanelInv, Panel, InFront, Showing, PageOnPanel, PageInFront, HistoryFull,
              BehindShown, OwnCanvasLast, FrontCanvas
<1> QED
  BY <1>2, StayPanel

(* ... or has the page laid out first *)
LEMMA LayOutTurned ==
  ASSUME PanelInv, app \in {"Reading", "ReaderMenu"}, NEW r \in Readers, Turns(rd, r),
         r.result = "MoreWork", LayOutPage(r)
  PROVE  PanelInv'
<1>1. /\ r.displayCanvas = rd.displayCanvas /\ r.back = rd.back /\ InFront(r)
  BY DEF Turns
<1>2. BehindShown(r)
  BY <1>1 DEF PanelInv, Panel, PageOnPanel, BehindShown, FrontCanvas
<1> QED
  BY <1>1, <1>2, LayOutPagePanel

(* A page turn *)
LEMMA AfterPageTurnPanel ==
  ASSUME PanelInv, app = "Reading", NEW r, Serves(r), Turns(rd, r),
         r.result = "Completed" => Showing(r), AfterPageTurn(r)
  PROVE  PanelInv'
<1>0. r \in Readers /\ (r.result # "MoreWork" => ~r.active)
  BY ServedReader DEF Serves, Stopped
<1>1. CASE r.result = "Completed"
  <2>1. PageInFront(r) /\ InFront(r) /\ Showing(r) /\ Present(r)
    BY <1>1 DEF Turns, AfterPageTurn
  <2>2. BehindShown(r) \/ HistoryFull(r)
    <3>1. r.displayCanvas = rd.displayCanvas \/ (r.back = rd.front /\ r.texts = rd.texts)
      BY <1>1 DEF Turns
    <3> QED
      BY <3>1 DEF PanelInv, Panel, PageOnPanel, BehindShown, FrontCanvas, HistoryFull
  <2> QED
    BY <1>0, <2>1, <2>2, PresentPanel
<1>2. CASE r.result = "MoreWork"
  BY <1>0, <1>2, LayOutTurned DEF AfterPageTurn
<1>3. CASE r.result \notin {"Completed", "MoreWork"}
  BY <1>0, <1>3, StayTurned DEF AfterPageTurn
<1> QED
  BY <1>1, <1>2, <1>3

(* The reader's actions ... *)
LEMMA ExecutePanel ==
  ASSUME TextEverywhere, Undisturbed, PanelInv, StockInv, AtRest(rd), app = "Reading",
         NEW a, NEW ok, Execute(a, ok)
  PROVE  PanelInv'
<1>0. rd \in Readers /\ Stocked(rd) /\ ~rd.active /\ Showing(rd)
  BY DEF AtRest, Resting, Stopped, StockInv, PanelInv, Panel
<1>1. CASE a = "OpenMenu"
  <2> DEFINE f == InvalidateReadyPrefetch(rd)
  <2>1. rd' = DrawnOverUnlessCover(f) /\ app' = "ReaderMenu" /\ SubmitCover
    BY <1>1 DEF Execute, ExecuteMenu
  <2>2. f \in Readers /\ ~f.active /\ SameView(rd, f)
    BY <1>0, InvalidateKeeps, SameViews DEF Keeps, GoesOn
  <2> HIDE DEF f
  <2>3. Showing(f)
    BY <1>0, <2>2 DEF Showing, SameView
  <2> QED
    BY <2>1, <2>2, <2>3, MenuPanel
<1>2. CASE a \in {"PreviousPage", "NextPage"}
  <2> DEFINE r == IF a = "NextPage" THEN RequestNextPage(rd, ok) ELSE RequestPreviousPage(rd, ok)
  <2>1. AfterPageTurn(r)
    BY <1>2 DEF Execute
  <2>2. Serves(r) /\ Served(rd, r) /\ Turns(rd, r)
    BY <1>0, RequestPreviousPageServes, RequestPreviousPageServed, RequestPreviousPageTurns,
       RequestNextPageServes, RequestNextPageServed, RequestNextPageTurns
  <2> HIDE DEF r
  <2> QED
    BY <2>1, <2>2, AfterPageTurnPanel DEF Served
<1>3. CASE a \notin {"OpenMenu", "PreviousPage", "NextPage"}
  <2> DEFINE r == IF a = "IncreaseFont" THEN IncreaseFontSize(rd, ok) ELSE DecreaseFontSize(rd, ok)
  <2>1. \/ Stay(rd)
        \/ r.result = "MoreWork" /\ LayOutPage(r)
        \/ r.result = "Idle" /\ Stay(r)
        \/ r.result = "Failed" /\ ShowError(r)
    BY <1>3 DEF Execute, ExecuteFont
  <2>2. Serves(r) /\ Turns(rd, r)
    BY <1>0, FontSizeServes, FontTurns
  <2> HIDE DEF r
  <2>3. r \in Readers /\ (r.result # "MoreWork" => ~r.active)
    BY <2>2, ServedReader DEF Serves, Stopped
  <2>4. CASE Stay(rd)
    BY <1>0, <2>4, StayPanel DEF PanelInv
  <2>5. CASE r.result = "MoreWork" /\ LayOutPage(r)
    BY <2>2, <2>3, <2>5, LayOutTurned
  <2>6. CASE r.result = "Idle" /\ Stay(r)
    BY <2>2, <2>3, <2>6, StayTurned
  <2>7. CASE r.result = "Failed" /\ ShowError(r)
    BY <2>3, <2>7, ShowErrorPanel
  <2> QED
    BY <2>1, <2>4, <2>5, <2>6, <2>7
<1> QED
  BY <1>1, <1>2, <1>3

(* ... at once or queued *)
LEMMA HandleReaderActionPanel ==
  ASSUME TextEverywhere, Undisturbed, PanelInv, StockInv, ScreenInv, app = "Reading",
         NEW a, NEW ok, HandleReaderAction(a, ok)
  PROVE  PanelInv'
<1>1. CASE busy \/ rd.prefetching
  <2>1. /\ rd' \in {rd, CancelPrefetch(rd)} /\ app' = app /\ layingOut' = layingOut
        /\ submitted' = submitted /\ shown' = shown
    BY <1>1 DEF HandleReaderAction, QueueAction, NoSubmit
  <2>2. rd \in Readers
    BY DEF ScreenInv, ReaderInv, Resting
  <2>3. /\ SameView(rd, rd') /\ rd'.active = rd.active /\ rd'.prefetching = rd.prefetching
    <3>1. SameView(rd, CancelPrefetch(rd)) /\ SameView(rd, rd)
      BY <2>2, SameViews DEF SameView
    <3>2. /\ CancelPrefetch(rd).active = rd.active
          /\ CancelPrefetch(rd).prefetching = rd.prefetching
      BY <2>2 DEF CancelPrefetch, Readers
    <3> QED
      BY <2>1, <3>1, <3>2
  <2>4. Panel(rd')
    BY <2>3, SamePanel DEF PanelInv
  <2> QED
    BY <2>1, <2>4 DEF PanelInv, Panel, PageOnPanel, BehindShown, OwnCanvasLast
<1>2. CASE ~(busy \/ rd.prefetching)
  <2>1. Execute(a, ok) /\ AtRest(rd)
    BY <1>2, ScreenAtRest DEF HandleReaderAction
  <2> QED
    BY <2>1, ExecutePanel
<1> QED
  BY <1>1, <1>2

(* Closing the menu draws the page again. *)
LEMMA CloseMenuPanel ==
  ASSUME PanelInv, StockInv, ScreenInv, CloseMenu
  PROVE  PanelInv'
<1> DEFINE w == RedrawCurrentPage(rd)
<1>1. /\ app = "ReaderMenu"
      /\ CanRedraw(rd) => Present(w)
  BY DEF CloseMenu, TapMenu
<1>2. AtRest(rd) /\ Stocked(rd) /\ Showing(rd) /\ BehindShown(rd)
  BY <1>1, ScreenAtRest DEF StockInv, PanelInv, Panel
<1>3. CanRedraw(rd)
  BY <1>2, RestingValid DEF AtRest, ValidCache, Showing, CanRedraw
<1>4. /\ w \in Readers /\ PageInFront(w) /\ w.displayCanvas = rd.displayCanvas /\ w.back = rd.back
      /\ ~w.active /\ Showing(w)
  BY <1>2, <1>3, RedrawTurns, RedrawServed, RedrawRests DEF AtRest, Resting
<1> HIDE DEF w
<1>5. InFront(w) /\ BehindShown(w)
  BY <1>2, <1>4 DEF InFront, BehindShown, FrontCanvas
<1> QED
  BY <1>1, <1>3, <1>4, <1>5, PresentPanel

(* So does waking up. *)
LEMMA SleepPanel ==
  ASSUME Undisturbed, PanelInv, StockInv, AtRest(rd), app \in {"Library", "Reading", "ReaderMenu"},
         SleepAndWake, "Sleep" \in Gestures
  PROVE  PanelInv'
<1> DEFINE s == IF app = "Library" THEN DrawnOver(rd) ELSE DrawnOverUnlessCover(rd)
<1> DEFINE w == RedrawCurrentPage(s)
<1>0. rd \in Readers /\ Stocked(rd) /\ ~rd.prefetching
  BY DEF AtRest, Resting, Stopped, StockInv
<1>1. AtRest(s) /\ s \in Readers /\ ~s.active
  BY DrawnOverRests, DrawnOverUnlessCoverRests DEF AtRest, Resting, Stopped
<1>2. IF app # "Library" /\ CanRedraw(s)
      THEN rd' = Idle(w) /\ app' = "Reading" /\ Submit(FrontCanvas(w), w.front)
      ELSE rd' = DrawnOver(s) /\ app' = "Library" /\ SubmitScreen
  BY DEF SleepAndWake
<1>3. CASE app # "Library" /\ CanRedraw(s)
  <2>1. s = DrawnOverUnlessCover(rd) /\ Cover
    BY <1>3 DEF Undisturbed
  <2> HIDE DEF s
  <2>2. Stocked(s)
    BY <1>0, <2>1, DrawnOverUnlessCoverStocked
  <2>3. w \in Readers /\ PageInFront(w) /\ ~w.active /\ Showing(w)
    BY <1>1, <1>3, <2>2, RedrawTurns, RedrawServed, RedrawRests DEF AtRest, Resting
  <2>4. /\ rd' = Idle(w) /\ app' = "Reading"
        /\ shown' = w.front /\ submitted' = FrontCanvas(w)
    BY <1>2, <1>3 DEF Submit
  <2> HIDE DEF w
  <2>5. SameView(w, rd') /\ ~rd'.active
    BY <2>3, <2>4, IdlePanel
  <2>6. InFront(rd') /\ Showing(rd') /\ PageInFront(rd') /\ FrontCanvas(rd') = FrontCanvas(w)
        /\ rd'.front = w.front
    BY <2>3, <2>5 DEF SameView, InFront, Showing, PageInFront, FrontCanvas
  <2> QED
    BY <2>4, <2>6 DEF PanelInv, Panel, PageOnPanel
<1>4. CASE ~(app # "Library" /\ CanRedraw(s))
  <2>1. rd' = DrawnOver(s) /\ app' = "Library" /\ SubmitScreen
    BY <1>2, <1>4
  <2> HIDE DEF s
  <2>2. ~rd'.active
    BY <1>1, <2>1, DrawnOverView
  <2> QED
    BY <2>1, <2>2, OtherScreenPanel
<1> QED
  BY <1>3, <1>4

(* A session that begins, or could not *)
LEMMA BegunPanel ==
  ASSUME OwnCanvasLast, NEW r, Starts(r), InOwnCanvas(r),
         \/ r.result = "Failed" /\ ShowError(r)
         \/ LayOutPage(r)
  PROVE  PanelInv'
<1>1. r \in Readers /\ InFront(r) /\ BehindShown(r) /\ (r.result = "Failed" => ~r.active)
  BY DEF Starts, ReaderInv, Resting, Stopped, InOwnCanvas, OwnCanvasLast, BehindShown, FrontCanvas
<1> QED
  BY <1>1, ShowErrorPanel, LayOutPagePanel

(* The parsed book's reader *)
LEMMA ParsedStarts ==
  ASSUME rd \in Readers, BookParsed
  PROVE  \E r : /\ Starts(r) /\ InOwnCanvas(r)
                /\ IF r.result = "Failed" THEN ShowError(r) /\ UNCHANGED layingOut
                   ELSE LayOutPage(r)
<1>1. \A r, ok : r \in Readers => Starts(Start(r, ok)) /\ InOwnCanvas(Start(r, ok))
  BY StartStarts, StartInOwnCanvas
<1>2. ASSUME NEW s \in SavedStates, NEW okSaved, NEW ok
      PROVE  /\ Starts(StartReaderWithSavedState(rd, s, okSaved, ok))
             /\ InOwnCanvas(StartReaderWithSavedState(rd, s, okSaved, ok))
  <2> DEFINE restored == StartAt(rd, s.anchor, s.size, s.family, s.history, okSaved)
  <2>1. /\ s.anchor \in Anchors /\ s.size \in Sizes /\ s.family \in Families
        /\ s.history \in Seq(Anchors)
    BY LoopAssumption
  <2>2. Starts(restored) /\ InOwnCanvas(restored)
    BY <1>1, <2>1, StartAtStarts, StartAtInOwnCanvas
  <2>3. StartReaderWithSavedState(rd, s, okSaved, ok) \in {Start(restored, ok), restored}
    BY DEF StartReaderWithSavedState
  <2> HIDE DEF restored
  <2>4. restored \in Readers
    BY <2>2 DEF Starts, ReaderInv, Resting
  <2> QED
    BY <1>1, <2>2, <2>3, <2>4
<1> QED
  BY <1>1, <1>2 DEF BookParsed

LEMMA BookParsedPanel ==
  ASSUME PanelInv, ScreenInv, BookParsed
  PROVE  PanelInv'
<1>1. rd \in Readers /\ OwnCanvasLast
  BY DEF ScreenInv, ReaderInv, Resting, PanelInv, Panel, BookParsed, Parsing
<1> QED
  BY <1>1, ParsedStarts, BegunPanel

(* The next slice of the page that is opened *)
LEMMA LayOutStepPanel ==
  ASSUME PanelInv, LoopInv, StockInv, LayOutStep
  PROVE  PanelInv'
<1>1. PICK ok : LET r == ProcessNextChunk(rd, ok)
                IN  CASE r.result = "Completed" -> Present(r) /\ UNCHANGED layingOut
                      [] r.result = "Failed"    -> ShowError(r) /\ UNCHANGED layingOut
                      [] OTHER                  -> Stay(r)
  BY DEF LayOutStep
<1> DEFINE r == ProcessNextChunk(rd, ok)
<1>2. /\ app = "OpeningBook" /\ layingOut /\ ReaderInv(rd) /\ Stocked(rd) /\ ~rd.prefetching
      /\ InFront(rd) /\ BehindShown(rd)
  BY DEF LayOutStep, LoopInv, ScreenInv, RunsWhereExpected, RunsIn, ReaderInv, StockInv,
         PanelInv, Panel
<1>3. Steps(rd, r) /\ Advances(rd, r) /\ Draws(rd, r)
  BY <1>2, ProcessNextChunkSteps, ProcessNextChunkAdvances, ProcessNextChunkDraws
<1>4. /\ r.result = "Completed" => Present(r)
      /\ r.result = "Failed" => ShowError(r)
      /\ r.result \notin {"Completed", "Failed"} => Stay(r)
  BY <1>1
<1> HIDE DEF r
<1>5. /\ r \in Readers /\ InFront(r) /\ BehindShown(r)
      /\ r.result = "Completed" => Showing(r) /\ PageInFront(r)
      /\ r.result = "Failed" => ~r.active
  BY <1>2, <1>3 DEF Steps, ReaderInv, Resting, Stopped, Advances, Draws, BehindShown, FrontCanvas
<1>6. Panel(r)
  BY <1>2, <1>5 DEF Panel
<1> QED
  BY <1>4, <1>5, <1>6, PresentPanel, ShowErrorPanel, StayPanel

(* What is done behind the page leaves it on the panel. *)
LEMMA UnseenPanel ==
  ASSUME PanelInv, app = "Reading", rd.current \in Nat, rd.current < Len(rd.texts),
         Len(rd.texts) \in Nat, Len(rd'.texts) \in Nat, OutOfSight(rd, rd'), InFront(rd'),
         UNCHANGED <<app, shown, submitted>>
  PROVE  PanelInv'
<1>1. /\ rd'.front = rd.front /\ rd'.displayCanvas = rd.displayCanvas /\ rd'.current = rd.current
      /\ Len(rd.texts) <= Len(rd'.texts)
      /\ rd'.texts[rd'.current + 1] = rd.texts[rd.current + 1]
  BY DEF OutOfSight, KeepsPage
<1>2. rd'.texts # <<>>
  <2>1. Len(rd'.texts) # 0
    BY <1>1
  <2> QED
    BY <2>1, EmptySeq
<1>3. Showing(rd)'
  BY <1>1, <1>2 DEF PanelInv, Panel, Showing
<1>4. PageOnPanel(rd)'
  <2>1. MaxHistory \in Nat
    BY ReaderAssumption
  <2> QED
    BY <1>1, <2>1 DEF PanelInv, Panel, PageOnPanel, PageInFront, HistoryFull, FrontCanvas
<1> QED
  BY <1>3, <1>4 DEF PanelInv, Panel

(* So does the prefetch, with what it starts from. *)
LEMMA PrefetchStepPanel ==
  ASSUME TextEverywhere, PanelInv, LoopInv, StockInv, PrefetchStep
  PROVE  PanelInv'
<1>1. PICK asked, ok :
        LET r == IF rd.prefetching THEN rd ELSE RequestPrefetch(rd, asked)
        IN  rd' = Idle(IF r.prefetching THEN ProcessNextChunk(r, ok) ELSE r)
  BY DEF PrefetchStep
<1> DEFINE r == IF rd.prefetching THEN rd ELSE RequestPrefetch(rd, asked)
<1> DEFINE s == IF r.prefetching THEN ProcessNextChunk(r, ok) ELSE r
<1>2. rd' = Idle(s) /\ app = "Reading" /\ UNCHANGED <<app, shown, submitted>>
  BY <1>1 DEF PrefetchStep, NoSubmit
<1>3. ReaderInv(rd) /\ rd \in Readers /\ Stocked(rd) /\ OnScreen(rd) /\ ScreenInv
      /\ InFront(rd) /\ Showing(rd)
  BY <1>2 DEF LoopInv, ScreenInv, StockInv, ReaderInv, Resting, PanelInv, Panel
<1>4. rd.current \in Nat /\ Len(rd.texts) \in Nat /\ rd.current < Len(rd.texts)
  BY <1>3, RestingValid, LenProperties DEF ReaderInv, ValidCache, Showing, Readers
<1>5. /\ ReaderInv(r) /\ r \in Readers /\ Stocked(r) /\ OutOfSight(rd, r) /\ InFront(r)
  <2>1. CASE rd.prefetching
    BY <1>3, <1>4, <2>1 DEF OutOfSight, KeepsPage
  <2>2. CASE ~rd.prefetching
    <3>1. AtRest(rd) /\ r = RequestPrefetch(rd, asked)
      BY <1>2, <1>3, <2>2, ScreenAtRest
    <3> HIDE DEF r
    <3>2. ReaderInv(r) /\ (r.active => r.prefetching) /\ Stocked(r) /\ OutOfSight(rd, r)
      BY <1>3, <3>1, RequestPrefetchInv, RequestPrefetchStocked, RequestPrefetchUnseen
    <3> QED
      BY <3>2 DEF InFront, ReaderInv, Resting
  <2> QED
    BY <2>1, <2>2
<1> HIDE DEF r
<1>6. s \in Readers /\ OutOfSight(r, s) /\ InFront(s)
  <2>1. CASE r.prefetching
    <3>1. s = ProcessNextChunk(r, ok)
      BY <2>1
    <3>2. Steps(r, s) /\ Draws(r, s)
      BY <1>5, <3>1, ProcessNextChunkSteps, ProcessNextChunkDraws
    <3> HIDE DEF s
    <3> QED
      BY <2>1, <3>2 DEF Steps, ReaderInv, Resting, Draws, OutOfSight
  <2>2. CASE ~r.prefetching
    <3>1. Len(r.texts) \in Nat
      BY <1>5, LenProperties DEF Readers
    <3> QED
      BY <1>5, <2>2, <3>1 DEF OutOfSight, KeepsPage
  <2> QED
    BY <2>1, <2>2
<1> HIDE DEF s
<1>7. SameView(s, rd') /\ rd'.active = s.active /\ rd'.prefetching = s.prefetching
  BY <1>2, <1>6, IdlePanel
<1>8. Len(r.texts) \in Nat /\ Len(s.texts) \in Nat
  BY <1>5, <1>6, LenProperties DEF Readers
<1>9. OutOfSight(rd, rd') /\ InFront(rd') /\ Len(rd'.texts) \in Nat
  <2>1. OutOfSight(rd, s)
    BY <1>4, <1>5, <1>6, <1>8 DEF OutOfSight, KeepsPage
  <2> QED
    BY <1>6, <1>7, <1>8, <2>1 DEF OutOfSight, KeepsPage, SameView, InFront, LaidInFront
<1> QED
  BY <1>2, <1>4, <1>9, UnseenPanel

(* The slices done while the panel is busy draw where their page is. *)
LEMMA CpuWorkDraws ==
  ASSUME LoopInv, StockInv, InFront(rd), CpuWork
  PROVE  Draws(rd, rd') /\ rd' \in Readers
<1> DEFINE once == ProcessCpuOnlyWork(rd)
<1> DEFINE twice == ProcessCpuOnlyWork(once)
<1>1. ReaderInv(rd) /\ Stocked(rd) /\ rd \in Readers
  BY DEF LoopInv, ScreenInv, StockInv, ReaderInv, Resting
<1>2. ReaderInv(once) /\ Stocked(once) /\ Draws(rd, once) /\ once \in Readers
  <2>1. ReaderInv(once) /\ Advances(rd, once) /\ Draws(rd, once)
    BY <1>1, ProcessCpuOnlyWorkSteps, ProcessCpuOnlyWorkAdvances, ProcessCpuOnlyWorkDraws
  <2> HIDE DEF once
  <2> QED
    BY <2>1 DEF ReaderInv, Resting, Advances
<1>3. rd' = once \/ (rd' = twice /\ HasCpuOnlyWork(once))
  BY DEF CpuWork
<1> HIDE DEF once
<1>4. CASE rd' = once
  BY <1>2, <1>4
<1>5. CASE rd' = twice /\ HasCpuOnlyWork(once)
  <2>1. once.active /\ InFront(once)
    BY <1>2, <1>5 DEF Stocked, Flow, HasCpuOnlyWork, Draws
  <2>2. Draws(once, twice) /\ ReaderInv(twice) /\ twice.result # "Completed"
    <3>1. Draws(once, twice) /\ ReaderInv(twice)
      BY <1>2, <2>1, ProcessCpuOnlyWorkSteps, ProcessCpuOnlyWorkDraws
    <3>2. twice.result = "Idle"
      <4>1. PICK t : twice = Idle(t) /\ t \in Readers
        BY <1>2, ProcessBufferedInputSteps, ContinueLayoutSteps
           DEF ProcessCpuOnlyWork, Steps, ReaderInv, Resting
      <4> QED
        BY <4>1, IdleKeeps
    <3> QED
      BY <3>1, <3>2
  <2> HIDE DEF twice
  <2>3. /\ twice \in Readers /\ rd.current \in Nat
        /\ Len(rd.texts) \in Nat /\ Len(once.texts) \in Nat /\ Len(twice.texts) \in Nat
    BY <1>1, <1>2, <2>2, LenProperties DEF ReaderInv, Resting, Readers
  <2> QED
    BY <1>2, <1>5, <2>1, <2>2, <2>3, DrawsTwice
<1> QED
  BY <1>3, <1>4, <1>5

LEMMA CpuWorkPanel ==
  ASSUME PanelInv, LoopInv, StockInv, CpuWork
  PROVE  PanelInv'
<1>1. /\ rd \in Readers /\ ReaderInv(rd) /\ InFront(rd) /\ rd.active
      /\ UNCHANGED <<app, layingOut, shown, submitted>>
  BY DEF CpuWork, NoSubmit, HasCpuOnlyWork, StockInv, Stocked, Flow, LoopInv, ScreenInv,
         ReaderInv, Resting, PanelInv, Panel
<1>2. Draws(rd, rd') /\ rd' \in Readers
  BY <1>1, CpuWorkDraws
<1>3. CASE app = "OpeningBook" /\ layingOut /\ ~rd.prefetching
  BY <1>1, <1>2, <1>3 DEF Draws, PanelInv, Panel, BehindShown, FrontCanvas
<1>4. CASE app = "Reading" /\ rd.prefetching
  <2>1. Showing(rd) /\ ValidCache(rd)
    BY <1>1, <1>4, RestingValid DEF ReaderInv, PanelInv, Panel
  <2>2. /\ rd.current \in Nat /\ Len(rd.texts) \in Nat /\ Len(rd'.texts) \in Nat
        /\ rd.current < Len(rd.texts)
    BY <1>1, <1>2, <2>1, LenProperties DEF Readers, ValidCache, Showing
  <2>3. OutOfSight(rd, rd') /\ InFront(rd')
    BY <1>2, <1>4 DEF Draws, OutOfSight
  <2> QED
    BY <1>1, <1>4, <2>2, <2>3, UnseenPanel
<1>5. (app = "OpeningBook" /\ layingOut /\ ~rd.prefetching) \/ (app = "Reading" /\ rd.prefetching)
  BY <1>1 DEF LoopInv, ScreenInv, RunsWhereExpected, RunsIn, ParsesAtRest
<1> QED
  BY <1>3, <1>4, <1>5

(* A manual refresh shows again what is on the canvas it submits. *)
LEMMA RefreshPanel ==
  ASSUME PanelInv, rd \in Readers, ServiceManualRefresh
  PROVE  PanelInv'
<1>1. UNCHANGED <<rd, app, layingOut>> /\ app # "OpeningBook"
  BY DEF ServiceManualRefresh, CanRefresh
<1>2. CASE app = "Reading"
  <2>1. shown' = rd.front /\ submitted' = FrontCanvas(rd)
    BY <1>2 DEF ServiceManualRefresh, Submit
  <2> QED
    BY <1>1, <1>2, <2>1 DEF PanelInv, Panel, PageOnPanel
<1>3. CASE app # "Reading"
  <2>1. /\ submitted' = "display"
        /\ shown' = IF rd.displayCanvas = "back" THEN rd.back ELSE rd.front
    BY <1>3 DEF ServiceManualRefresh, Submit
  <2>2. rd.displayCanvas \in {"front", "back"}
    BY DEF Readers
  <2> QED
    BY <1>1, <1>3, <2>1, <2>2 DEF PanelInv, Panel, BehindShown, OwnCanvasLast, FrontCanvas
<1> QED
  BY <1>2, <1>3

(* Every step of the loop keeps the page on the panel. *)
LEMMA PanelStep ==
  ASSUME TextEverywhere, Undisturbed, "Toc" \notin Gestures
  PROVE  LoopInv /\ StockInv /\ PanelInv /\ [Next]_vars => PanelInv'
<1> SUFFICES ASSUME LoopInv, StockInv, PanelInv, [Next]_vars PROVE PanelInv'
  OBVIOUS
<1>0. /\ ScreenInv /\ ReaderInv(rd) /\ rd \in Readers /\ Stocked(rd)
      /\ InFront(rd) /\ Panel(rd)
  BY DEF LoopInv, ScreenInv, ReaderInv, Resting, StockInv, PanelInv, Panel
<1>1. CASE UNCHANGED <<rd, app, layingOut, shown, submitted>>
  BY <1>1 DEF PanelInv, Panel, PageOnPanel, BehindShown, OwnCanvasLast
<1>2. CASE Lever \/ TouchPage
  <2>1. app = "Reading" /\ \E a, ok : HandleReaderAction(a, ok)
    BY <1>2 DEF Lever, TouchPage
  <2> QED
    BY <1>0, <2>1, HandleReaderActionPanel
<1>3. CASE PopAction
  <2>1. app = "Reading" /\ \E a, ok : Execute(a, ok)
    BY <1>3 DEF PopAction
  <2>2. AtRest(rd)
    BY <1>0, <1>3, <2>1, ScreenAtRest DEF PopAction
  <2> QED
    BY <2>1, <2>2, ExecutePanel
<1>4. CASE CloseMenu
  BY <1>0, <1>4, CloseMenuPanel
<1>5. CASE TurnMenuPage \/ BackToLibrary
  <2>1. /\ app = "ReaderMenu" /\ rd' = DrawnOver(rd) /\ app' \in {"ReaderMenu", "Library"}
        /\ SubmitScreen
    BY <1>5 DEF TurnMenuPage, BackToLibrary, TapMenu
  <2>2. ~rd.active /\ Showing(rd)
    BY <1>0, <2>1, ScreenAtRest DEF AtRest, Stopped, Panel
  <2> QED
    BY <1>0, <2>1, <2>2, MenuPanel
<1>6. ~SelectTocEntry
  BY DEF SelectTocEntry, TapMenu
<1>7. CASE TapFontFamily
  <2>1. app = "ReaderMenu"
    BY <1>7 DEF TapFontFamily, TapMenu
  <2>2. AtRest(rd)
    BY <1>0, <2>1, ScreenAtRest
  <2>3. PICK ok : LET r == CycleFontFamily(rd, ok)
                  IN  IF r.result = "MoreWork" THEN LayOutPage(r) ELSE Stay(r)
    BY <1>7 DEF TapFontFamily
  <2> DEFINE r == CycleFontFamily(rd, ok)
  <2>4. /\ r \in Readers /\ Turns(rd, r) /\ r.result # "Completed"
        /\ r.result # "MoreWork" => ~r.active
    <3>1. Serves(r) /\ Turns(rd, r) /\ Refonted(rd, r)
      BY <1>0, <2>2, CycleFontFamilyServes, CycleFontFamilyRefonted, FontTurns
    <3> HIDE DEF r
    <3> QED
      BY <3>1, ServedReader DEF Serves, Stopped, Refonted
  <2>5. IF r.result = "MoreWork" THEN LayOutPage(r) ELSE Stay(r)
    BY <2>3
  <2> HIDE DEF r
  <2> QED
    BY <2>1, <2>4, <2>5, LayOutTurned, StayTurned
<1>8. CASE ConfirmRestart
  <2>1. PICK ok : LET r == Start(rd, ok)
                  IN  IF r.result = "Failed" THEN ShowError(r) /\ UNCHANGED layingOut
                      ELSE LayOutPage(r)
    BY <1>8 DEF ConfirmRestart
  <2> DEFINE r == Start(rd, ok)
  <2>2. Starts(r) /\ InOwnCanvas(r)
    BY <1>0, StartStarts, StartInOwnCanvas
  <2>3. (r.result = "Failed" /\ ShowError(r)) \/ LayOutPage(r)
    BY <2>1
  <2> HIDE DEF r
  <2>4. OwnCanvasLast
    BY <1>0, <1>8 DEF ConfirmRestart, TapMenu, Panel
  <2> QED
    BY <2>2, <2>3, <2>4, BegunPanel
<1>9. CASE TapSleep
  <2>1. app = "ReaderMenu" /\ SleepAndWake /\ "Sleep" \in Gestures
    BY <1>9 DEF TapSleep, TapMenu
  <2> QED
    BY <1>0, <2>1, ScreenAtRest, SleepPanel
<1>10. CASE AutomaticSleep
  <2>1. /\ app \in {"Library", "Reading", "ReaderMenu"} /\ ~rd.prefetching /\ SleepAndWake
        /\ "Sleep" \in Gestures
    BY <1>10 DEF AutomaticSleep
  <2> QED
    BY <1>0, <2>1, ScreenAtRest, SleepPanel
<1>11. CASE OpenBook
  <2> DEFINE d == DrawnOver(rd)
  <2>1. /\ rd' = [d EXCEPT !.entryOpen = FALSE] /\ app' = "OpeningBook" /\ ~layingOut'
        /\ app = "Library" /\ SubmitScreen
    BY <1>11 DEF OpenBook
  <2>2. d \in Readers /\ ~d.active
    <3>1. AtRest(rd)
      BY <1>0, <2>1, ScreenAtRest
    <3> QED
      BY <3>1, DrawnOverRests DEF AtRest, Resting, Stopped
  <2> HIDE DEF d
  <2>3. ~rd'.active
    BY <2>1, <2>2 DEF Readers
  <2> QED
    BY <2>1, <2>3, OtherScreenPanel
<1>12. CASE DismissError
  <2>1. app = "ErrorDialog" /\ app' = "Library" /\ rd' = rd /\ SubmitScreen
    BY <1>12 DEF DismissError
  <2>2. ~rd.active
    BY <1>0, <2>1, ScreenAtRest DEF AtRest, Stopped
  <2> QED
    BY <2>1, <2>2, OtherScreenPanel
<1>13. CASE CpuWork
  BY <1>13, CpuWorkPanel
<1>14. CASE ParseBook \/ ParseFailed
  <2>1. app = "OpeningBook" /\ ~layingOut /\ (Stay(rd) \/ ShowError(rd))
    BY <1>14 DEF ParseBook, ParseFailed, Parsing
  <2>2. ~rd.active
    BY <2>1 DEF LoopInv, ParsesAtRest
  <2> QED
    BY <1>0, <2>1, <2>2, StayPanel, ShowErrorPanel
<1>15. CASE BookParsed
  BY <1>0, <1>15, BookParsedPanel
<1>16. CASE LayOutStep \/ PrefetchStep
  BY <1>16, LayOutStepPanel, PrefetchStepPanel
<1>17. CASE ServiceManualRefresh
  BY <1>0, <1>17, RefreshPanel
<1>18. CASE PressCenter \/ NoInput \/ NothingToPop \/ PanelNeedsNothing \/ NothingToWorkOn
            \/ DisplayIdle
  BY <1>1, <1>18 DEF PressCenter, NoInput, NothingToPop, PanelNeedsNothing, NothingToWorkOn,
     DisplayIdle, NoSubmit
<1>19. CASE UNCHANGED vars
  BY <1>1, <1>19 DEF vars
<1>20. CASE DrawLibrary
  <2>1. /\ app = "Library" /\ app' = "Library"
        /\ \/ rd' = DrawnOver(rd) /\ SubmitScreen
           \/ rd' = rd /\ submitted' = "image"
    BY <1>20 DEF DrawLibrary, Submit
  <2>2. ~rd.active
    BY <1>0, <2>1, ScreenAtRest DEF AtRest, Stopped
  <2>3. CASE rd' = DrawnOver(rd) /\ SubmitScreen
    BY <1>0, <2>1, <2>2, <2>3, DrawnOverView, OtherScreenPanel
  <2>4. CASE rd' = rd /\ submitted' = "image"
    BY <2>1, <2>2, <2>4 DEF PanelInv, Panel, InFront, OwnCanvasLast
  <2> QED
    BY <2>1, <2>3, <2>4
<1> QED
  BY <1>2, <1>3, <1>4, <1>5, <1>6, <1>7, <1>8, <1>9, <1>10, <1>11, <1>12, <1>13, <1>14, <1>15,
     <1>16, <1>17, <1>18, <1>19, <1>20 DEF Next, Input, Work

(* At first the library is shown. *)
LEMMA InitPanel == Init => PanelInv
<1> SUFFICES ASSUME Init PROVE PanelInv
  OBVIOUS
<1>1. NewReader \in Readers /\ ~NewReader.active
  BY NewReaderInv DEF ReaderInv, Resting, Stopped
<1>2. ~rd.active
  BY <1>1, BookFacts, OnCanvasKeeps DEF Init, GoesOn, OtherScreen, Texts
<1> QED
  BY <1>2 DEF Init, PanelInv, Panel, InFront, OwnCanvasLast

(* While the user reads, the panel shows the current page and nothing of   *)
(* another one: whatever was laid out, prefetched behind it, swapped in,   *)
(* cancelled or evicted, whichever views were drawn over the canvases, and *)
(* though the panel is refreshed where the canvases differ.  For any book  *)
(* with text in its chapters, with a cover or without sleep, and until the *)
(* history is full; without the table of contents, whose refused entries   *)
(* leave a session without a page.                                         *)
THEOREM PanelShowsPage ==
  ASSUME TextEverywhere, Undisturbed, "Toc" \notin Gestures
  PROVE  Spec => [](Len(rd.texts) < MaxHistory => PanelShowsCurrentPage)
<1>1. Init => PanelInv
  BY InitPanel
<1>2. LoopInv /\ StockInv /\ PanelInv /\ [Next]_vars => PanelInv'
  BY PanelStep
<1>3. LoopInv /\ PanelInv => (Len(rd.texts) < MaxHistory => PanelShowsCurrentPage)
  <2> SUFFICES ASSUME LoopInv, PanelInv, Len(rd.texts) < MaxHistory, app = "Reading"
               PROVE  /\ shown = rd.front
                      /\ IsBlank(shown) \/ Shows(shown, rd.texts[rd.current + 1])
    BY DEF PanelShowsCurrentPage
  <2>1. ~HistoryFull(rd)
    <3>1. Len(rd.texts) \in Nat /\ MaxHistory \in Nat
      BY ReaderAssumption, LenProperties DEF LoopInv, ScreenInv, ReaderInv, Resting, Readers
    <3> QED
      BY <3>1 DEF HistoryFull
  <2> QED
    BY <2>1 DEF PanelInv, Panel, PageOnPanel, PageInFront
<1>4. Spec => [](LoopInv /\ StockInv)
  BY StockInvHolds
<1> QED
  BY <1>1, <1>2, <1>3, <1>4, PTL DEF Spec
-----------------------------------------------------------------------------
(***************************************************************************)
(* Manual refreshes.  Outside the book the display's own canvas is         *)
(* submitted, which has the screen that is shown, unless that is on the    *)
(* image canvas; a font family that was refused for want of room in the    *)
(* history may have drawn over it.                                         *)
(***************************************************************************)
OwnScreen(r) == IF r.displayCanvas = "back" THEN r.back ELSE r.front
ScreenInPlace(r) ==
  /\ submitted = "image" \/ shown = OwnScreen(r)
  /\ app = "ErrorDialog" => OwnScreen(r) = OtherScreen
OtherScreens == {"Library", "ReaderMenu", "ErrorDialog"}
ScreenShown == app \in OtherScreens => HistoryFull(rd) \/ ScreenInPlace(rd)

(* Another screen is drawn on the canvas that is submitted. *)
LEMMA DrawnOverShown ==
  ASSUME NEW r \in Readers, rd' = DrawnOver(r), SubmitScreen
  PROVE  ScreenShown'
<1>1. OwnScreen(DrawnOver(r)) = OtherScreen
  BY DEF OwnScreen, DrawnOver, OnCanvas, Readers
<1>2. OwnScreen(rd') = OtherScreen /\ shown' = OtherScreen
  BY <1>1 DEF SubmitScreen, Submit
<1> QED
  BY <1>2 DEF ScreenShown, ScreenInPlace, OwnScreen

LEMMA ErrorShown ==
  ASSUME NEW r \in Readers, ShowError(r)
  PROVE  ScreenShown'
<1>1. Idle(r) \in Readers
  BY IdleKeeps DEF Keeps
<1> QED
  BY <1>1, DrawnOverShown DEF ShowError

(* The reader's actions show the menu, an error, or the page. *)
LEMMA ExecuteShown ==
  ASSUME AtRest(rd), app = "Reading", NEW a, NEW ok, Execute(a, ok)
  PROVE  ScreenShown'
<1>0. rd \in Readers
  BY DEF AtRest, Resting
<1>1. CASE a = "OpenMenu"
  <2>1. /\ app' = "ReaderMenu"
        /\ \/ rd' = DrawnOver(InvalidateReadyPrefetch(rd)) /\ SubmitScreen
           \/ submitted' = "image"
    BY <1>1 DEF Execute, ExecuteMenu, DrawnOverUnlessCover, SubmitCover, SubmitScreen, Submit
  <2>2. InvalidateReadyPrefetch(rd) \in Readers
    BY <1>0, InvalidateKeeps DEF Keeps
  <2>3. CASE submitted' = "image"
    BY <2>1, <2>3 DEF ScreenShown, ScreenInPlace
  <2> QED
    BY <2>1, <2>2, <2>3, DrawnOverShown
<1>2. CASE a \in {"PreviousPage", "NextPage"}
  <2>1. app' \in {"Reading", "OpeningBook"}
    BY <1>2 DEF Execute, AfterPageTurn, Present, LayOutPage, Stay
  <2> QED
    BY <2>1 DEF ScreenShown, OtherScreens
<1>3. CASE a \notin {"OpenMenu", "PreviousPage", "NextPage"}
  <2> DEFINE r == IF a = "IncreaseFont" THEN IncreaseFontSize(rd, ok) ELSE DecreaseFontSize(rd, ok)
  <2>1. app' \in {"Reading", "OpeningBook"} \/ ShowError(r)
    BY <1>3 DEF Execute, ExecuteFont, LayOutPage, Stay
  <2>2. Serves(r)
    BY FontSizeServes
  <2> HIDE DEF r
  <2>3. r \in Readers
    BY <2>2, ServedReader
  <2> QED
    BY <2>1, <2>3, ErrorShown DEF ScreenShown, OtherScreens
<1> QED
  BY <1>1, <1>2, <1>3

LEMMA HandleReaderActionShown ==
  ASSUME ScreenInv, app = "Reading", NEW a, NEW ok, HandleReaderAction(a, ok)
  PROVE  ScreenShown'
<1>1. CASE busy \/ rd.prefetching
  BY <1>1 DEF HandleReaderAction, QueueAction, ScreenShown, OtherScreens
<1>2. CASE ~(busy \/ rd.prefetching)
  <2>1. Execute(a, ok) /\ AtRest(rd)
    BY <1>2, ScreenAtRest DEF HandleReaderAction
  <2> QED
    BY <2>1, ExecuteShown
<1> QED
  BY <1>1, <1>2

(* A manual refresh shows what was shown, unless on the image canvas. *)
LEMMA RefreshShown ==
  ASSUME ScreenShown, PanelInv, ScreenInv, ServiceManualRefresh
  PROVE  /\ ScreenShown'
         /\ HistoryFull(rd) \/ submitted = "image" \/ shown' = shown
<1>1. app \in OtherScreens \cup {"Reading"} /\ UNCHANGED <<rd, app>>
  BY DEF ScreenInv, AppStates, OtherScreens, ServiceManualRefresh, CanRefresh
<1>2. CASE app = "Reading"
  <2>1. shown' = rd.front
    BY <1>2 DEF ServiceManualRefresh, Submit
  <2> QED
    BY <1>1, <1>2, <2>1 DEF PanelInv, Panel, PageOnPanel, ScreenShown, OtherScreens
<1>3. CASE app # "Reading"
  <2>1. shown' = OwnScreen(rd)
    BY <1>3 DEF ServiceManualRefresh, Submit, OwnScreen
  <2> QED
    BY <1>1, <1>3, <2>1 DEF ScreenShown, ScreenInPlace, OwnScreen
<1> QED
  BY <1>2, <1>3

LEMMA ShownStep ==
  ASSUME "Toc" \notin Gestures
  PROVE  LoopInv /\ StockInv /\ PanelInv /\ ScreenShown /\ [Next]_vars => ScreenShown'
<1> SUFFICES ASSUME LoopInv, StockInv, PanelInv, ScreenShown, [Next]_vars PROVE ScreenShown'
  OBVIOUS
<1>0. /\ ScreenInv /\ ReaderInv(rd) /\ rd \in Readers /\ Stocked(rd)
  BY DEF LoopInv, ScreenInv, ReaderInv, Resting, StockInv
<1>1. CASE UNCHANGED <<rd, app, shown, submitted>>
  BY <1>1 DEF ScreenShown, ScreenInPlace
<1>2. CASE app' \in {"Reading", "OpeningBook"}
  BY <1>2 DEF ScreenShown, OtherScreens
<1>3. CASE Lever \/ TouchPage
  BY <1>0, <1>3, HandleReaderActionShown DEF Lever, TouchPage
<1>4. CASE PopAction
  <2>1. AtRest(rd)
    BY <1>0, <1>4, ScreenAtRest DEF PopAction
  <2> QED
    BY <1>4, <2>1, ExecuteShown DEF PopAction
<1>5. CASE CloseMenu
  BY <1>2, <1>5 DEF CloseMenu, Present
<1>6. CASE TurnMenuPage \/ BackToLibrary
  BY <1>0, <1>6, DrawnOverShown DEF TurnMenuPage, BackToLibrary
<1>7. ~SelectTocEntry
  BY DEF SelectTocEntry, TapMenu
<1>8. CASE TapFontFamily
  <2>1. app = "ReaderMenu"
    BY <1>8 DEF TapFontFamily, TapMenu
  <2>2. AtRest(rd)
    BY <1>0, <2>1, ScreenAtRest
  <2>3. PICK ok : LET r == CycleFontFamily(rd, ok)
                  IN  IF r.result = "MoreWork" THEN LayOutPage(r) ELSE Stay(r)
    BY <1>8 DEF TapFontFamily
  <2> DEFINE r == CycleFontFamily(rd, ok)
  <2>4. /\ r \in Readers /\ Turns(rd, r) /\ r.result # "Completed"
    <3>1. Serves(r) /\ Turns(rd, r) /\ Refonted(rd, r)
      BY <1>0, <2>2, CycleFontFamilyServes, CycleFontFamilyRefonted, FontTurns
    <3> HIDE DEF r
    <3> QED
      BY <3>1, ServedReader DEF Refonted
  <2>5. IF r.result = "MoreWork" THEN LayOutPage(r) ELSE Stay(r)
    BY <2>3
  <2> HIDE DEF r
  <2>6. CASE r.result = "MoreWork"
    BY <1>2, <2>5, <2>6 DEF LayOutPage
  <2>7. CASE r.result # "MoreWork"
    <3>1. SameView(r, rd') /\ UNCHANGED <<shown, submitted, app>>
      BY <2>4, <2>5, <2>7, IdlePanel DEF Stay, NoSubmit
    <3>2. /\ rd'.displayCanvas = rd.displayCanvas /\ rd'.back = rd.back
          /\ rd'.texts = rd.texts
          /\ rd'.front = rd.front \/ HistoryFull(rd)
      <4>1. /\ r.displayCanvas = rd.displayCanvas /\ r.back = rd.back /\ r.texts = rd.texts
            /\ r.front = rd.front \/ HistoryFull(r)
        BY <2>4, <2>7 DEF Turns
      <4> QED
        BY <3>1, <4>1 DEF SameView, HistoryFull
    <3> QED
      BY <2>1, <3>1, <3>2 DEF ScreenShown, ScreenInPlace, OwnScreen, HistoryFull, OtherScreens
  <2> QED
    BY <2>6, <2>7
<1>9. CASE ConfirmRestart \/ BookParsed
  <2>1. app' = "OpeningBook" \/ \E r : Starts(r) /\ ShowError(r)
    <3>1. CASE ConfirmRestart
      <4>1. \A ok : Starts(Start(rd, ok))
        BY <1>0, StartStarts
      <4> QED
        BY <3>1, <4>1 DEF ConfirmRestart, LayOutPage
    <3>2. CASE BookParsed
      BY <1>0, <3>2, ParsedStarts DEF LayOutPage
    <3> QED
      BY <1>9, <3>1, <3>2
  <2>2. \A r : Starts(r) => r \in Readers
    BY DEF Starts, ReaderInv, Resting
  <2> QED
    BY <1>2, <2>1, <2>2, ErrorShown
<1>10. CASE OpenBook
  BY <1>2, <1>10 DEF OpenBook
<1>11. CASE DismissError
  <2>1. app = "ErrorDialog" /\ app' = "Library" /\ rd' = rd /\ shown' = OtherScreen
    BY <1>11 DEF DismissError, SubmitScreen, Submit
  <2> QED
    BY <2>1 DEF ScreenShown, ScreenInPlace, OtherScreens, OwnScreen
<1>12. CASE CpuWork
  <2>1. rd.active /\ UNCHANGED app
    BY <1>12 DEF CpuWork, HasCpuOnlyWork, StockInv, Stocked, Flow
  <2>2. app \notin OtherScreens
    BY <1>0, <2>1, ScreenAtRest DEF OtherScreens, AtRest, Stopped
  <2> QED
    BY <2>1, <2>2 DEF ScreenShown
<1>13. CASE ParseBook \/ ParseFailed
  <2>1. app' = "OpeningBook" \/ ShowError(rd)
    BY <1>13 DEF ParseBook, ParseFailed, Parsing, Stay
  <2> QED
    BY <1>0, <1>2, <2>1, ErrorShown
<1>14. CASE LayOutStep
  <2>1. app' \in {"Reading", "OpeningBook"} \/ \E ok : ShowError(ProcessNextChunk(rd, ok))
    BY <1>14 DEF LayOutStep, Present, Stay
  <2>2. \A ok : ProcessNextChunk(rd, ok) \in Readers
    BY <1>0, ProcessNextChunkSteps DEF Steps, ReaderInv, Resting
  <2> QED
    BY <1>2, <2>1, <2>2, ErrorShown
<1>15. CASE PrefetchStep
  BY <1>2, <1>15 DEF PrefetchStep
<1>16. CASE ServiceManualRefresh
  BY <1>0, <1>16, RefreshShown
<1>17. CASE PressCenter \/ NoInput \/ NothingToPop \/ PanelNeedsNothing \/ NothingToWorkOn
            \/ DisplayIdle
  BY <1>1, <1>17 DEF PressCenter, NoInput, NothingToPop, PanelNeedsNothing, NothingToWorkOn,
     DisplayIdle, NoSubmit
<1>18. CASE UNCHANGED vars
  BY <1>1, <1>18 DEF vars
<1>19. CASE DrawLibrary
  <2>1. /\ app' = "Library"
        /\ \/ rd' = DrawnOver(rd) /\ SubmitScreen
           \/ submitted' = "image"
    BY <1>19 DEF DrawLibrary, Submit
  <2>2. CASE submitted' = "image"
    BY <2>1, <2>2 DEF ScreenShown, ScreenInPlace
  <2> QED
    BY <1>0, <2>1, <2>2, DrawnOverShown
<1>20. CASE TapSleep \/ AutomaticSleep
  <2> DEFINE s == IF app = "Library" THEN DrawnOver(rd) ELSE DrawnOverUnlessCover(rd)
  <2>1. app' = "Reading" \/ (rd' = DrawnOver(s) /\ SubmitScreen)
    BY <1>20 DEF TapSleep, AutomaticSleep, SleepAndWake
  <2>2. s \in Readers
    BY <1>0, OnCanvasKeeps, BookFacts DEF DrawnOver, DrawnOverUnlessCover, Keeps
  <2> HIDE DEF s
  <2> QED
    BY <1>2, <2>1, <2>2, DrawnOverShown
<1> QED
  BY <1>3, <1>4, <1>5, <1>6, <1>7, <1>8, <1>9, <1>10, <1>11, <1>12, <1>13, <1>14, <1>15,
     <1>16, <1>17, <1>18, <1>19, <1>20 DEF Next, Input, Work

(* Nothing else answers a request for a manual refresh. *)
LEMMA OnlyServed ==
  ASSUME [Next]_vars, manual, ~manual'
  PROVE  ServiceManualRefresh
<1>1. Lever \/ PressCenter \/ TouchPage \/ NoInput => manual' = manual \/ manual'
  BY DEF Lever, PressCenter, TouchPage, NoInput
<1>2. CloseMenu \/ TurnMenuPage \/ BackToLibrary \/ SelectTocEntry \/ TapFontFamily
        \/ ConfirmRestart \/ TapSleep => manual' = manual
  BY DEF TapMenu, CloseMenu, TurnMenuPage, BackToLibrary, SelectTocEntry, TapFontFamily,
         ConfirmRestart, TapSleep
<1>3. OpenBook \/ DismissError \/ AutomaticSleep \/ DisplayIdle => manual' = manual
  BY DEF OpenBook, DismissError, AutomaticSleep, DisplayIdle
<1>4. PopAction \/ NothingToPop \/ CpuWork \/ PanelNeedsNothing \/ DrawLibrary
        \/ NothingToWorkOn => manual' = manual
  BY DEF PopAction, NothingToPop, CpuWork, PanelNeedsNothing, DrawLibrary, NothingToWorkOn
<1>5. ParseBook \/ BookParsed \/ ParseFailed \/ LayOutStep \/ PrefetchStep => manual' = manual
  <2>1. ParseBook \/ ParseFailed \/ PrefetchStep => manual' = manual
    BY DEF ParseBook, ParseFailed, PrefetchStep
  <2>2. BookParsed => manual' = manual
    BY DEF BookParsed
  <2>3. LayOutStep => manual' = manual
    BY DEF LayOutStep
  <2> QED
    BY <2>1, <2>2, <2>3
<1>6. UNCHANGED vars => manual' = manual
  BY DEF vars
<1> QED
  BY <1>1, <1>2, <1>3, <1>4, <1>5, <1>6 DEF Next, Input, Work

(***************************************************************************)
(* A manual refresh shows again what the panel shows, of a page or of any  *)
(* other screen that is not on the image canvas, whatever was turned,      *)
(* swapped, prefetched and drawn over before.  For any book with text in   *)
(* its chapters, with a cover or without sleep, and a history with room.   *)
(* The menu over a cover and a library with covers are on the image        *)
(* canvas, which a refresh never submits: there the content changes.       *)
(***************************************************************************)
THEOREM RefreshKeepsContent ==
  ASSUME TextEverywhere, Undisturbed, "Toc" \notin Gestures
  PROVE  Spec /\ [](Len(rd.texts) < MaxHistory) => ManualRefreshKeepsContent
<1> DEFINE HasRoom == Len(rd.texts) < MaxHistory
<1>1. Init => PanelInv /\ ScreenShown
  <2>1. NewReader \in Readers
    BY NewReaderInv DEF ReaderInv, Resting
  <2>2. Init => rd = OnCanvas(NewReader, NewReader.displayCanvas, OtherScreen)
    BY DEF Init, NewReader, Cleared
  <2>3. Init => OwnScreen(rd) = OtherScreen /\ shown = OtherScreen
    BY <2>1, <2>2 DEF Init, OwnScreen, OnCanvas, Readers
  <2> QED
    BY <2>3, InitPanel DEF ScreenShown, ScreenInPlace
<1>2. LoopInv /\ StockInv /\ PanelInv /\ ScreenShown /\ [Next]_vars => (PanelInv /\ ScreenShown)'
  BY PanelStep, ShownStep
<1>3. Spec => [](LoopInv /\ StockInv)
  BY StockInvHolds
<1>4. LoopInv /\ PanelInv /\ ScreenShown /\ HasRoom /\ [Next]_vars
        => [manual /\ ~manual' /\ submitted # "image" => shown' = shown]_vars
  <2> SUFFICES ASSUME LoopInv, PanelInv, ScreenShown, HasRoom, [Next]_vars, manual, ~manual',
                      submitted # "image"
               PROVE  shown' = shown
    OBVIOUS
  <2>1. HistoryFull(rd) \/ shown' = shown
    BY OnlyServed, RefreshShown DEF LoopInv
  <2>2. ~HistoryFull(rd)
    <3>1. Len(rd.texts) \in Nat /\ MaxHistory \in Nat
      BY ReaderAssumption, LenProperties DEF LoopInv, ScreenInv, ReaderInv, Resting, Readers
    <3> QED
      BY <3>1 DEF HistoryFull
  <2> QED
    BY <2>1, <2>2
<1> QED
  BY <1>1, <1>2, <1>3, <1>4, PTL DEF Spec, ManualRefreshKeepsContent
=============================================================================
