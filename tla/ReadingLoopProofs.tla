------------------------- MODULE ReadingLoopProofs -------------------------
(***************************************************************************)
(* Proofs about the reader and the loop around it, for any book, fonts,    *)
(* budget of the cache and gestures.                                       *)
(***************************************************************************)
EXTENDS ReadingLoop, SequenceTheorems, WellFoundedInduction, TLAPS

(***************************************************************************)
(* What every method of the reader preserves: the types of its fields, the *)
(* agreement of the two vectors of visited pages, the order of what was    *)
(* read, tokenized and laid out, and that a page being laid out has room   *)
(* left.                                                                   *)
(***************************************************************************)

(***************************************************************************)
(* The cache of pages.  ValidCache alone is not inductive: commitPage()    *)
(* cuts both vectors at the page being rebuilt, and a prefetched first     *)
(* page has to find the current page at its index.                         *)
(***************************************************************************)
CacheInv(r) ==
  /\ Len(r.texts) = Len(r.anchors)
  /\ r.current = 0 \/ r.current < Len(r.texts)
  /\ r.rebuilding = NoPage \/ r.rebuilding <= Len(r.texts)

(* What was laid out was tokenized before, and that was read before, from  *)
(* a chapter of the book.                                                  *)
TextInOrder(r) ==
  /\ r.pend <= r.fed /\ r.fed <= r.offset
  /\ ~r.chapterEnded => r.chapter \in Chapters /\ r.offset <= TextLength[r.chapter]

Resting(r) == r \in Readers /\ CacheInv(r) /\ TextInOrder(r)

(* The page in progress has not outgrown the screen. *)
Fits(r) == r.work.from <= r.work.to /\ Size(r.work) <= Lines[r.size][r.family]

ReaderInv(r) ==
  /\ Resting(r)
  /\ r.active => Fits(r) /\ ~r.chapterEnded
  /\ r.prefetching => r.active

-----------------------------------------------------------------------------
(* Arithmetic of the operators borrowed from FiniteSetsExt *)
LEMMA MinPair ==
  ASSUME NEW a \in Int, NEW b \in Int
  PROVE  Min({a, b}) = IF a <= b THEN a ELSE b
BY DEF Min

LEMMA MaxPair ==
  ASSUME NEW a \in Int, NEW b \in Int
  PROVE  Max({a, b}) = IF a >= b THEN a ELSE b
BY DEF Max

LEMMA MinIn ==
  ASSUME NEW S \in SUBSET Nat, S # {}
  PROVE  Min(S) \in S /\ \A y \in S : Min(S) <= y
<1> DEFINE R == {ss \in Nat \X Nat : ss[1] < ss[2]}
<1>1. IsWellFoundedOn(R, Nat)
  BY NatLessThanWellFounded DEF OpToRel
<1>2. PICK x \in S : \A y \in S : ~(<<y, x>> \in R)
  <2> HIDE DEF R
  <2> QED
    BY <1>1, WFMin
<1>3. \A y \in S : x <= y
  <2> SUFFICES ASSUME NEW y \in S PROVE ~(y < x)
    OBVIOUS
  <2>1. <<y, x>> \in Nat \X Nat /\ <<y, x>>[1] = y /\ <<y, x>>[2] = x
    OBVIOUS
  <2> QED
    BY <1>2, <2>1
<1> QED
  BY <1>3 DEF Min

LEMMA BookFacts ==
  /\ Linear \subseteq Chapters /\ Chapters \subseteq Nat
  /\ 1 \in Sizes /\ Sizes \subseteq Nat
  /\ \A c \in Chapters : TextLength[c] \in Nat
  /\ \A size \in Sizes, family \in Families : Lines[size][family] \in Nat \ {0}
  /\ NoText \in Texts /\ OtherScreen \in Texts
<1>1. Linear \subseteq Chapters /\ Chapters \subseteq Nat
  BY BookAssumption DEF Chapters
<1>2. \A c \in Chapters : TextLength[c] \in Nat
  BY BookAssumption
<1>3. Sizes = 1 .. Len(Lines) /\ Len(Lines) \in Nat \ {0}
  BY ReaderAssumption, EmptySeq, LenProperties DEF Sizes
<1>4. \A size \in Sizes : Lines[size] \in [Families -> Nat \ {0}]
  BY ReaderAssumption, <1>3, ElementOfSeq
<1>5. NoText \in Texts /\ OtherScreen \in Texts
  BY DEF NoText, OtherScreen, Texts
<1> QED
  BY <1>1, <1>2, <1>3, <1>4, <1>5

LEMMA RestingValid ==
  ASSUME NEW r, Resting(r)
  PROVE  ValidCache(r)
<1>1. Len(r.texts) \in Nat /\ (r.texts # <<>> => Len(r.texts) # 0)
  BY EmptySeq, LenProperties DEF Resting, Readers
<1> QED
  BY <1>1 DEF Resting, CacheInv, ValidCache
-----------------------------------------------------------------------------
(***************************************************************************)
(* Steps that touch neither the cache nor the text: s differs from r in    *)
(* the rest only, or gives a page being rebuilt up.                        *)
(***************************************************************************)
Keeps(r, s) ==
  /\ s \in Readers
  /\ s.texts = r.texts /\ s.anchors = r.anchors /\ s.current = r.current
  /\ s.rebuilding \in {r.rebuilding, NoPage}
  /\ s.chapter = r.chapter /\ s.offset = r.offset /\ s.fed = r.fed /\ s.pend = r.pend
  /\ s.work = r.work /\ s.size = r.size /\ s.family = r.family
  /\ s.chapterEnded = r.chapterEnded

(* ... and what is running goes on. *)
GoesOn(r, s) == s.active = r.active /\ s.prefetching = r.prefetching

Stopped(r) == ~r.active /\ ~r.prefetching

LEMMA KeepsTrans ==
  ASSUME NEW r, NEW s, NEW t, Keeps(r, s), Keeps(s, t)
  PROVE  Keeps(r, t)
BY DEF Keeps

LEMMA KeepsResting ==
  ASSUME NEW r, NEW s, Resting(r), Keeps(r, s)
  PROVE  Resting(s) /\ (Fits(r) => Fits(s))
BY DEF Keeps, Resting, CacheInv, TextInOrder, Fits, Size

LEMMA KeepsInv ==
  ASSUME NEW r, NEW s, ReaderInv(r), Keeps(r, s), GoesOn(r, s) \/ Stopped(s)
  PROVE  ReaderInv(s)
<1>1. Resting(s) /\ (Fits(r) => Fits(s))
  BY KeepsResting DEF ReaderInv
<1>2. s.chapterEnded = r.chapterEnded
  BY DEF Keeps
<1> QED
  BY <1>1, <1>2 DEF ReaderInv, GoesOn, Stopped

LEMMA ReturnKeeps ==
  ASSUME NEW r \in Readers, NEW w \in WorkResults
  PROVE  Keeps(r, Return(r, w)) /\ GoesOn(r, Return(r, w)) /\ Return(r, w).result = w
<1>1. Return(r, w) \in Readers
  BY DEF Return, Readers
<1> QED
  BY <1>1 DEF Return, Keeps, GoesOn, Readers

LEMMA IdleKeeps ==
  ASSUME NEW r \in Readers
  PROVE  Keeps(r, Idle(r)) /\ GoesOn(r, Idle(r)) /\ Idle(r).result = "Idle"
BY ReturnKeeps DEF Idle, WorkResults

LEMMA FailReaderKeeps ==
  ASSUME NEW r \in Readers
  PROVE  Keeps(r, FailReader(r)) /\ Stopped(FailReader(r)) /\ FailReader(r).result = "Failed"
<1>1. FailReader(r) \in Readers
  BY DEF FailReader, Readers, WorkResults
<1> QED
  BY <1>1 DEF FailReader, Keeps, Stopped, Readers

LEMMA MoveToKeeps ==
  ASSUME NEW r \in Readers, NEW p \in PrefetchStates
  PROVE  Keeps(r, MoveTo(r, p)) /\ GoesOn(r, MoveTo(r, p)) /\ MoveTo(r, p).result = r.result
<1>1. Transition(r.prefetch, p) \in PrefetchStates
  BY DEF Transition, Readers
<1>2. ASSUME NEW q \in PrefetchStates
      PROVE  /\ Keeps(r, [r EXCEPT !.prefetch = q]) /\ GoesOn(r, [r EXCEPT !.prefetch = q])
             /\ [r EXCEPT !.prefetch = q].result = r.result
  <2>1. [r EXCEPT !.prefetch = q] \in Readers
    BY DEF Readers
  <2> QED
    BY <2>1 DEF Keeps, GoesOn, Readers
<1>3. Keeps(r, r) /\ GoesOn(r, r)
  BY DEF Keeps, GoesOn
<1> QED
  BY <1>1, <1>2, <1>3 DEF MoveTo

LEMMA OnCanvasKeeps ==
  ASSUME NEW r \in Readers, NEW c, NEW t \in Texts
  PROVE  /\ Keeps(r, OnCanvas(r, c, t)) /\ GoesOn(r, OnCanvas(r, c, t))
         /\ OnCanvas(r, c, t).result = r.result
<1>1. OnCanvas(r, c, t) \in Readers
  BY DEF OnCanvas, Readers
<1> QED
  BY <1>1 DEF OnCanvas, Keeps, GoesOn, Readers

LEMMA InvalidateKeeps ==
  ASSUME NEW r \in Readers
  PROVE  /\ Keeps(r, InvalidateReadyPrefetch(r)) /\ GoesOn(r, InvalidateReadyPrefetch(r))
         /\ InvalidateReadyPrefetch(r).result = r.result
<1>1. InvalidateReadyPrefetch(r) \in Readers
  BY DEF InvalidateReadyPrefetch, Readers, PrefetchStates
<1> QED
  BY <1>1 DEF InvalidateReadyPrefetch, Keeps, GoesOn, Readers

LEMMA CancelKeeps ==
  ASSUME NEW r \in Readers
  PROVE  Keeps(r, CancelPrefetch(r)) /\ GoesOn(r, CancelPrefetch(r)) /\ CancelPrefetch(r).result = r.result
<1>1. RequestCancel(r.prefetch) \in PrefetchStates
  BY DEF RequestCancel, Readers, PrefetchStates
<1>2. CancelPrefetch(r) \in Readers
  BY <1>1 DEF CancelPrefetch, Readers
<1> QED
  BY <1>2 DEF CancelPrefetch, Keeps, GoesOn, Readers

(* beginBlankPage() *)
LEMMA BlankPageInv ==
  ASSUME NEW r, Resting(r), NEW c \in {"front", "back"}
  PROVE  /\ Resting(BlankPage(r, c)) /\ Fits(BlankPage(r, c)) /\ GoesOn(r, BlankPage(r, c))
         /\ BlankPage(r, c).chapterEnded = r.chapterEnded
         /\ BlankPage(r, c).texts = r.texts /\ BlankPage(r, c).anchors = r.anchors
         /\ BlankPage(r, c).result = r.result
<1> DEFINE s == [r EXCEPT !.work = NoText, !.target = c]
<1>1. s \in Readers
  BY BookFacts DEF Resting, Readers
<1>2. /\ s.texts = r.texts /\ s.anchors = r.anchors /\ s.current = r.current
      /\ s.rebuilding = r.rebuilding
      /\ s.chapter = r.chapter /\ s.offset = r.offset /\ s.fed = r.fed /\ s.pend = r.pend
      /\ s.chapterEnded = r.chapterEnded /\ s.work = NoText
      /\ GoesOn(r, s) /\ s.result = r.result
  BY DEF Resting, Readers, GoesOn
<1>3. BlankPage(r, c) = OnCanvas(s, c, NoText)
  BY DEF BlankPage
<1> HIDE DEF s
<1>4. Resting(s)
  BY <1>1, <1>2 DEF Resting, CacheInv, TextInOrder
<1>5. Fits(s)
  <2>1. Lines[s.size][s.family] \in Nat
    BY <1>1, BookFacts DEF Readers
  <2> QED
    BY <1>2, <2>1 DEF Fits, Size, NoText
<1>6. /\ Keeps(s, BlankPage(r, c)) /\ GoesOn(s, BlankPage(r, c))
      /\ BlankPage(r, c).result = s.result
  BY <1>1, <1>3, BookFacts, OnCanvasKeeps
<1> QED
  BY <1>2, <1>4, <1>5, <1>6, KeepsResting DEF GoesOn, Keeps
-----------------------------------------------------------------------------
(***************************************************************************)
(* Opening a chapter succeeds with the chapter open, or fails; the cache   *)
(* and the page in progress stay as they are.                              *)
(***************************************************************************)
Opens(r, s) ==
  /\ Resting(s) /\ GoesOn(r, s)
  /\ s.texts = r.texts /\ s.anchors = r.anchors
  /\ s.current = r.current /\ s.rebuilding = r.rebuilding
  /\ s.work = r.work /\ s.size = r.size /\ s.family = r.family
  /\ s.result \in {"Failed", "Completed"}
  /\ s.result = "Completed" => ~s.chapterEnded

LEMMA OpenedOpens ==
  ASSUME NEW r, Resting(r), NEW c \in Chapters
  PROVE  Opens(r, Opened(r, c))
<1> DEFINE s == Opened(r, c)
<1>1. StartOf(c) \in Anchors /\ c \in Nat /\ c + 1 \in Nat
  BY BookFacts DEF StartOf, Anchors
<1>2. s \in Readers
  <2>1. ASSUME NEW a \in Anchors, NEW n \in Nat
        PROVE  [r EXCEPT !.chapter = c, !.entryOpen = TRUE, !.offset = 0, !.fed = 0, !.pend = 0,
                         !.inputReady = FALSE, !.inputEnded = FALSE, !.layoutPending = FALSE,
                         !.chapterEnded = FALSE, !.spineIndex = n, !.workAnchor = a,
                         !.result = "Completed"] \in Readers
    BY <1>1 DEF Resting, Readers, WorkResults
  <2> QED
    BY <1>1, <2>1 DEF Opened
<1>3. /\ s.texts = r.texts /\ s.anchors = r.anchors /\ s.current = r.current
      /\ s.rebuilding = r.rebuilding /\ s.work = r.work /\ s.size = r.size /\ s.family = r.family
      /\ s.chapter = c /\ s.offset = 0 /\ s.fed = 0 /\ s.pend = 0
      /\ s.chapterEnded = FALSE /\ s.result = "Completed" /\ GoesOn(r, s)
  BY DEF Opened, Resting, Readers, GoesOn
<1> HIDE DEF s
<1>4. Resting(s)
  BY <1>2, <1>3, BookFacts DEF Resting, CacheInv, TextInOrder
<1>5. Opens(r, s)
  BY <1>3, <1>4, Zenon DEF Opens
<1> QED
  BY <1>5 DEF s

LEMMA KeepsOpens ==
  ASSUME NEW r, Resting(r), NEW s, Keeps(r, s), GoesOn(r, s), s.rebuilding = r.rebuilding,
         s.result = "Failed"
  PROVE  Opens(r, s)
<1>1. Resting(s)
  BY KeepsResting
<1>2. /\ s.texts = r.texts /\ s.anchors = r.anchors /\ s.current = r.current
      /\ s.work = r.work /\ s.size = r.size /\ s.family = r.family
  BY DEF Keeps
<1> QED
  BY <1>1, <1>2, Zenon DEF Opens

LEMMA OpenLinearSpineAtOpens ==
  ASSUME NEW r, Resting(r), NEW c, NEW ok
  PROVE  Opens(r, OpenLinearSpineAt(r, c, ok))
<1>1. CASE c \notin Linear
  <2>1. OpenLinearSpineAt(r, c, ok) = Return(r, "Failed")
    BY <1>1 DEF OpenLinearSpineAt
  <2>2. Return(r, "Failed").rebuilding = r.rebuilding
    BY DEF Return, Resting, Readers
  <2> QED
    BY <2>1, <2>2, ReturnKeeps, KeepsOpens DEF Resting, WorkResults
<1>2. CASE c \in Linear /\ (~ok \/ r.entryOpen)
  <2> DEFINE s == [r EXCEPT !.error = TRUE, !.result = "Failed"]
  <2>1. OpenLinearSpineAt(r, c, ok) = s
    BY <1>2 DEF OpenLinearSpineAt
  <2>2. s \in Readers
    BY DEF Resting, Readers, WorkResults
  <2>3. Keeps(r, s) /\ GoesOn(r, s) /\ s.rebuilding = r.rebuilding /\ s.result = "Failed"
    BY <2>2 DEF Resting, Readers, Keeps, GoesOn
  <2> HIDE DEF s
  <2> QED
    BY <2>1, <2>3, KeepsOpens
<1>3. CASE c \in Linear /\ ok /\ ~r.entryOpen
  <2> DEFINE o == Opened(r, c)
  <2> DEFINE s == [o EXCEPT !.endOfBook = FALSE]
  <2>1. OpenLinearSpineAt(r, c, ok) = s
    BY <1>3 DEF OpenLinearSpineAt
  <2>2. Opens(r, o) /\ o.result = "Completed"
    BY <1>3, BookFacts, OpenedOpens DEF Opened, Resting, Readers
  <2> HIDE DEF o
  <2>3. s \in Readers
    BY <2>2 DEF Opens, Resting, Readers
  <2>4. Keeps(o, s) /\ GoesOn(o, s) /\ s.rebuilding = o.rebuilding /\ s.result = o.result
    BY <2>2, <2>3 DEF Opens, Resting, Readers, Keeps, GoesOn
  <2> HIDE DEF s
  <2>5. Resting(s)
    BY <2>2, <2>4, KeepsResting DEF Opens
  <2> QED
    BY <2>1, <2>2, <2>4, <2>5 DEF Opens, Keeps, GoesOn
<1> QED
  BY <1>1, <1>2, <1>3

LEMMA OpenNextLinearSpineOpens ==
  ASSUME NEW r, Resting(r), NEW ok
  PROVE  Opens(r, OpenNextLinearSpine(r, ok))
<1> DEFINE ahead == {c \in Linear : c >= r.spineIndex}
<1> DEFINE c == Min(ahead)
<1>0. r.spineIndex \in Nat /\ ahead \subseteq Chapters /\ ahead \in SUBSET Nat
  BY BookFacts DEF Resting, Readers
<1>1. CASE ahead = {}
  <2> DEFINE n == Max({r.spineIndex, Spine})
  <2> DEFINE s == [r EXCEPT !.spineIndex = n, !.endOfBook = TRUE, !.result = "Failed"]
  <2>1. OpenNextLinearSpine(r, ok) = s
    BY <1>1 DEF OpenNextLinearSpine
  <2>2. n \in Nat
    BY <1>0, BookAssumption, MaxPair
  <2> HIDE DEF n
  <2>3. s \in Readers
    BY <2>2 DEF Resting, Readers, WorkResults
  <2>4. Keeps(r, s) /\ GoesOn(r, s) /\ s.rebuilding = r.rebuilding /\ s.result = "Failed"
    BY <2>3 DEF Resting, Readers, Keeps, GoesOn
  <2> HIDE DEF s
  <2> QED
    BY <2>1, <2>4, KeepsOpens
<1>2. CASE ahead # {} /\ (~ok \/ r.entryOpen)
  <2> DEFINE n == c + 1
  <2> DEFINE s == [r EXCEPT !.spineIndex = n, !.error = TRUE, !.result = "Failed"]
  <2>1. OpenNextLinearSpine(r, ok) = s
    BY <1>2 DEF OpenNextLinearSpine
  <2>2. n \in Nat
    BY <1>0, <1>2, MinIn
  <2> HIDE DEF n
  <2>3. s \in Readers
    BY <2>2 DEF Resting, Readers, WorkResults
  <2>4. Keeps(r, s) /\ GoesOn(r, s) /\ s.rebuilding = r.rebuilding /\ s.result = "Failed"
    BY <2>3 DEF Resting, Readers, Keeps, GoesOn
  <2> HIDE DEF s
  <2> QED
    BY <2>1, <2>4, KeepsOpens
<1>3. CASE ahead # {} /\ ok /\ ~r.entryOpen
  <2>1. OpenNextLinearSpine(r, ok) = Opened(r, c)
    BY <1>3 DEF OpenNextLinearSpine
  <2>2. c \in Chapters
    BY <1>0, <1>3, MinIn
  <2> QED
    BY <2>1, <2>2, OpenedOpens
<1> QED
  BY <1>1, <1>2, <1>3

(***************************************************************************)
(* A page is laid out as soon as its chapter is open and its canvas blank. *)
(***************************************************************************)
LEMMA ActiveInv ==
  ASSUME NEW r, Resting(r), Fits(r), ~r.chapterEnded, NEW s, Keeps(r, s),
         s.active = TRUE
  PROVE  ReaderInv(s)
BY KeepsResting DEF ReaderInv, Keeps
LEMMA ErrorKeeps ==
  ASSUME NEW r \in Readers
  PROVE  /\ Keeps(r, [r EXCEPT !.error = TRUE]) /\ GoesOn(r, [r EXCEPT !.error = TRUE])
         /\ [r EXCEPT !.error = TRUE].result = r.result
<1> DEFINE s == [r EXCEPT !.error = TRUE]
<1>1. s \in Readers
  BY DEF Readers
<1> QED
  BY <1>1 DEF Keeps, GoesOn, Readers
-----------------------------------------------------------------------------
(***************************************************************************)
(* Sessions: a book opened, restored or jumped into.                       *)
(***************************************************************************)
LEMMA ClearedTyped ==
  ASSUME NEW size \in Sizes, NEW family \in Families
  PROVE  Cleared(size, family) \in Readers
BY BookFacts, EmptySeq
   DEF Cleared, Readers, Anchors, StartOf, NoPage, PrefetchStates, WorkResults

LEMMA ResetSessionInv ==
  ASSUME NEW r \in Readers
  PROVE  /\ Resting(ResetSession(r)) /\ Stopped(ResetSession(r))
         /\ ResetSession(r).texts = <<>> /\ ResetSession(r).anchors = <<>>
         /\ ResetSession(r).current = 0 /\ ResetSession(r).rebuilding = NoPage
<1> DEFINE c == Cleared(r.size, r.family)
<1> DEFINE s == ResetSession(r)
<1>1. c \in Readers
  BY ClearedTyped DEF Readers
<1>2. /\ c.texts = <<>> /\ c.anchors = <<>> /\ c.current = 0 /\ c.rebuilding = NoPage
      /\ c.pend = 0 /\ c.fed = 0 /\ c.offset = 0 /\ c.chapterEnded = TRUE
      /\ c.active = FALSE /\ c.prefetching = FALSE
  BY DEF Cleared
<1>3. ASSUME NEW b \in BOOLEAN, NEW f \in Texts, NEW g \in Texts
      PROVE  [c EXCEPT !.entryOpen = b, !.front = f, !.back = g] \in Readers
  <2> HIDE DEF c
  <2> QED
    BY <1>1 DEF Readers
<1>4. PICK b \in BOOLEAN, f \in Texts, g \in Texts :
        s = [c EXCEPT !.entryOpen = b, !.front = f, !.back = g]
  <2> DEFINE b == r.entryOpen /\ ~r.active /\ r.chapterEnded
  <2> DEFINE f == IF r.displayCanvas = "front" THEN r.front ELSE r.back
  <2> DEFINE g == IF r.displayCanvas = "front" THEN r.back ELSE r.front
  <2>1. b \in BOOLEAN
    OBVIOUS
  <2>2. f \in Texts /\ g \in Texts
    BY DEF Readers
  <2>3. s = [c EXCEPT !.entryOpen = b, !.front = f, !.back = g]
    BY DEF ResetSession
  <2> HIDE DEF b, f, g, c, s
  <2> QED
    BY <2>1, <2>2, <2>3
<1> HIDE DEF c, s
<1>5. s \in Readers
  BY <1>3, <1>4
<1>6. /\ s.texts = <<>> /\ s.anchors = <<>> /\ s.current = 0 /\ s.rebuilding = NoPage
      /\ s.pend = 0 /\ s.fed = 0 /\ s.offset = 0 /\ s.chapterEnded = TRUE
      /\ s.active = FALSE /\ s.prefetching = FALSE
  BY <1>1, <1>2, <1>4 DEF Readers
<1>7. Resting(s) /\ Stopped(s)
  BY <1>5, <1>6 DEF Resting, CacheInv, TextInOrder, Stopped
<1> QED
  BY <1>6, <1>7 DEF s

(* A session that starts is laying its first page out; one that does not   *)
(* is doing nothing.                                                       *)
Starts(s) ==
  /\ ReaderInv(s) /\ s.result \in WorkResults /\ ~s.prefetching
  /\ s.result = "Failed" => Stopped(s)

LEMMA FailedStarts ==
  ASSUME NEW r, Stopped(r), NEW o, Opens(r, o), o.result = "Failed"
  PROVE  Starts([o EXCEPT !.error = TRUE])
<1> DEFINE s == [o EXCEPT !.error = TRUE]
<1>1. Stopped(o) /\ Resting(o) /\ o \in Readers
  BY DEF Opens, Stopped, GoesOn, Resting
<1>2. Keeps(o, s) /\ GoesOn(o, s) /\ s.result = "Failed"
  BY <1>1, ErrorKeeps
<1> HIDE DEF s
<1>3. Resting(s) /\ Stopped(s)
  BY <1>1, <1>2, KeepsResting DEF Stopped, GoesOn
<1>4. Starts(s)
  BY <1>2, <1>3 DEF Starts, ReaderInv, Stopped, WorkResults
<1> QED
  BY <1>4 DEF s

LEMMA StartStarts ==
  ASSUME NEW r \in Readers, NEW ok
  PROVE  Starts(Start(r, ok))
<1> DEFINE o == OpenNextLinearSpine(ResetSession(r), ok)
<1> DEFINE p == BlankPage(o, "front")
<1>1. Opens(ResetSession(r), o) /\ Stopped(ResetSession(r))
  BY ResetSessionInv, OpenNextLinearSpineOpens
<1>2. CASE o.result = "Failed"
  <2>1. Start(r, ok) = [o EXCEPT !.error = TRUE]
    BY <1>2 DEF Start
  <2> HIDE DEF o
  <2> QED
    BY <1>1, <1>2, <2>1, FailedStarts
<1>3. CASE o.result # "Failed"
  <2> DEFINE s == [p EXCEPT !.active = TRUE]
  <2>1. Start(r, ok) = s
    BY <1>3 DEF Start
  <2> HIDE DEF o
  <2>2. Resting(o) /\ ~o.chapterEnded /\ o.result = "Completed" /\ ~o.prefetching
    BY <1>1, <1>3 DEF Opens, GoesOn, Stopped
  <2>3. Resting(p) /\ Fits(p) /\ ~p.chapterEnded /\ p.result = "Completed" /\ ~p.prefetching
    BY <2>2, BlankPageInv DEF GoesOn
  <2> HIDE DEF p
  <2>4. s \in Readers
    BY <2>3 DEF Resting, Readers
  <2>5. Keeps(p, s) /\ s.active = TRUE /\ s.result = "Completed" /\ s.prefetching = p.prefetching
    BY <2>3, <2>4 DEF Resting, Readers, Keeps
  <2>6. ReaderInv(s)
    BY <2>3, <2>5, ActiveInv
  <2> QED
    BY <2>1, <2>3, <2>5, <2>6 DEF Starts, WorkResults
<1> QED
  BY <1>2, <1>3

LEMMA StartAtStarts ==
  ASSUME NEW r \in Readers, NEW anchor \in Anchors, NEW size \in Sizes, NEW family \in Families,
         NEW history \in Seq(Anchors), NEW ok
  PROVE  Starts(StartAt(r, anchor, size, family, history, ok))
<1> DEFINE z == ResetSession(r)
<1> DEFINE q == [z EXCEPT !.size = size, !.family = family]
<1> DEFINE o == OpenLinearSpineAt(q, anchor.spine, ok)
<1> DEFINE p == BlankPage(o, "front")
<1>1. Resting(q) /\ Stopped(q) /\ q.texts = <<>> /\ q.current = 0 /\ q.rebuilding = NoPage
  <2>1. /\ Resting(z) /\ Stopped(z) /\ z.texts = <<>> /\ z.current = 0
        /\ z.rebuilding = NoPage
    BY ResetSessionInv
  <2> HIDE DEF z
  <2>2. q \in Readers
    BY <2>1 DEF Resting, Readers
  <2>3. /\ q.texts = z.texts /\ q.anchors = z.anchors /\ q.current = z.current
        /\ q.rebuilding = z.rebuilding /\ q.pend = z.pend /\ q.fed = z.fed
        /\ q.offset = z.offset /\ q.chapter = z.chapter /\ q.chapterEnded = z.chapterEnded
        /\ q.active = z.active /\ q.prefetching = z.prefetching
    BY <2>1 DEF Resting, Readers
  <2> HIDE DEF q
  <2> QED
    BY <2>1, <2>2, <2>3 DEF Resting, CacheInv, TextInOrder, Stopped
<1>2. Opens(q, o)
  <2> HIDE DEF q
  <2> QED
    BY <1>1, OpenLinearSpineAtOpens
<1>3. CASE o.result = "Failed"
  <2>1. StartAt(r, anchor, size, family, history, ok) = [o EXCEPT !.error = TRUE]
    BY <1>3 DEF StartAt
  <2> HIDE DEF o, q
  <2> QED
    BY <1>1, <1>2, <1>3, <2>1, FailedStarts
<1>4. CASE o.result # "Failed"
  <2> DEFINE t == [i \in DOMAIN history |-> NoText]
  <2> DEFINE s == [p EXCEPT !.workAnchor = anchor, !.seek = anchor.parserCheckpoint,
                            !.anchors = history, !.texts = t, !.active = TRUE]
  <2>1. StartAt(r, anchor, size, family, history, ok) = s
    BY <1>4 DEF StartAt
  <2> HIDE DEF o, q
  <2>2. /\ Resting(o) /\ ~o.chapterEnded /\ o.result = "Completed"
        /\ o.current = 0 /\ o.rebuilding = NoPage /\ ~o.prefetching
    BY <1>1, <1>2, <1>4 DEF Opens, GoesOn, Stopped
  <2>3. Resting(p) /\ Fits(p) /\ ~p.chapterEnded /\ p.result = "Completed" /\ ~p.prefetching
    BY <2>2, BlankPageInv DEF GoesOn
  <2>4. p.current = 0 /\ p.rebuilding = NoPage
    BY <2>2 DEF BlankPage, OnCanvas, Resting, Readers
  <2> HIDE DEF p
  <2>5. t \in Seq(Texts) /\ Len(t) = Len(history)
    <3>1. DOMAIN history = 1 .. Len(history) /\ Len(history) \in Nat
      BY LenProperties
    <3>2. t = [i \in 1 .. Len(history) |-> NoText]
      BY <3>1
    <3> QED
      BY <3>1, <3>2, BookFacts
  <2>6. anchor.parserCheckpoint \in Nat
    BY DEF Anchors
  <2> HIDE DEF t
  <2>7. s \in Readers
    BY <2>3, <2>5, <2>6 DEF Resting, Readers
  <2>8. /\ s.texts = t /\ s.anchors = history /\ s.current = 0 /\ s.rebuilding = NoPage
        /\ s.pend = p.pend /\ s.fed = p.fed /\ s.offset = p.offset /\ s.chapter = p.chapter
        /\ s.chapterEnded = p.chapterEnded /\ s.work = p.work /\ s.size = p.size
        /\ s.family = p.family /\ s.active = TRUE /\ s.result = p.result
        /\ s.prefetching = p.prefetching
    BY <2>3, <2>4 DEF Resting, Readers
  <2> HIDE DEF s
  <2>9. Resting(s) /\ Fits(s)
    BY <2>3, <2>5, <2>7, <2>8 DEF Resting, CacheInv, TextInOrder, Fits, Size
  <2>10. ~s.chapterEnded
    BY <2>3, <2>8
  <2> QED
    BY <2>1, <2>3, <2>8, <2>9, <2>10 DEF Starts, ReaderInv, WorkResults
<1> QED
  BY <1>3, <1>4
-----------------------------------------------------------------------------
(***************************************************************************)
(* Laying text out: what was read moves on to the page, no further than    *)
(* the page has room.                                                      *)
(***************************************************************************)
Extends(r, s) ==
  /\ Resting(s) /\ Fits(s) /\ GoesOn(r, s)
  /\ s.texts = r.texts /\ s.anchors = r.anchors
  /\ s.current = r.current /\ s.rebuilding = r.rebuilding
  /\ s.chapterEnded = r.chapterEnded /\ s.result = r.result

LEMMA TakenBounds ==
  ASSUME NEW r, Resting(r), Fits(r)
  PROVE  Taken(r) \in Nat /\ Taken(r) <= Room(r) /\ Taken(r) <= Pending(r)
<1>1. Lines[r.size][r.family] \in Nat
  BY BookFacts DEF Resting, Readers
<1>2. r.work.from \in Nat /\ r.work.to \in Nat /\ r.fed \in Nat /\ r.pend \in Nat
  BY DEF Resting, Readers, Texts
<1>3. Room(r) \in Nat /\ Pending(r) \in Nat
  BY <1>1, <1>2 DEF Resting, TextInOrder, Fits, Size, Room, Pending
<1> QED
  BY <1>3, MinPair DEF Taken

LEMMA LayOutExtends ==
  ASSUME NEW r, Resting(r), Fits(r)
  PROVE  Extends(r, LayOut(r))
<1> DEFINE n == Taken(r)
<1> DEFINE page == IF IsBlank(r.work) THEN [spine |-> r.chapter, from |-> r.pend, to |-> r.pend + n]
                   ELSE [r.work EXCEPT !.to = @ + n]
<1> DEFINE s == [r EXCEPT !.work = page, !.pend = @ + n]
<1>1. n \in Nat /\ n <= Room(r) /\ n <= Pending(r)
  BY TakenBounds
<1>2. r.work \in Texts /\ r.chapter \in Nat /\ r.pend \in Nat /\ r.fed \in Nat
  BY DEF Resting, Readers
<1>3. page \in Texts
  BY <1>1, <1>2 DEF Texts
<1>4. page.from <= page.to /\ Size(page) = Size(r.work) + n
  <2>1. r.work.from \in Nat /\ r.work.to \in Nat /\ r.work.from <= r.work.to
    BY <1>2 DEF Texts, Fits
  <2>2. CASE IsBlank(r.work)
    BY <1>1, <1>2, <2>1, <2>2 DEF IsBlank, Size
  <2>3. CASE ~IsBlank(r.work)
    <3>1. page = [r.work EXCEPT !.to = @ + n]
      BY <2>3
    <3>2. page.from = r.work.from /\ page.to = r.work.to + n
      BY <1>2, <3>1 DEF Texts
    <3> HIDE DEF page, n
    <3> QED
      BY <1>1, <2>1, <3>2 DEF Size
  <2> QED
    BY <2>2, <2>3
<1>5. LayOut(r) = IF n = 0 THEN r ELSE OnCanvas(s, r.target, page)
  BY DEF LayOut
<1> HIDE DEF n, page
<1>6. r.pend + n \in Nat
  BY <1>1, <1>2
<1>7. s \in Readers
  BY <1>3, <1>6 DEF Resting, Readers
<1>8. /\ s.work = page /\ s.pend = r.pend + n
      /\ s.texts = r.texts /\ s.anchors = r.anchors /\ s.current = r.current
      /\ s.rebuilding = r.rebuilding /\ s.chapter = r.chapter /\ s.offset = r.offset
      /\ s.fed = r.fed /\ s.chapterEnded = r.chapterEnded /\ s.size = r.size
      /\ s.family = r.family /\ GoesOn(r, s) /\ s.result = r.result
  BY DEF Resting, Readers, GoesOn
<1> HIDE DEF s
<1>9. Resting(s)
  BY <1>1, <1>2, <1>7, <1>8 DEF Resting, CacheInv, TextInOrder, Pending
<1>10. Fits(s)
  <2>1. Lines[r.size][r.family] \in Nat
    BY BookFacts DEF Resting, Readers
  <2>2. Size(r.work) \in Int
    BY <1>2 DEF Size, Texts
  <2> QED
    BY <1>1, <1>4, <1>8, <2>1, <2>2 DEF Fits, Room
<1>11. CASE n = 0
  BY <1>5, <1>11 DEF Extends, GoesOn
<1>12. CASE n # 0
  <2> DEFINE t == OnCanvas(s, r.target, page)
  <2>1. Keeps(s, t) /\ GoesOn(s, t) /\ t.result = s.result
    BY <1>3, <1>7, OnCanvasKeeps
  <2>2. t.rebuilding = s.rebuilding
    BY <1>7 DEF OnCanvas, Readers
  <2>3. LayOut(r) = t
    BY <1>5, <1>12
  <2> HIDE DEF t
  <2>4. Resting(t) /\ Fits(t)
    BY <1>9, <1>10, <2>1, KeepsResting
  <2> QED
    BY <1>8, <2>1, <2>2, <2>3, <2>4 DEF Extends, GoesOn, Keeps
<1> QED
  BY <1>11, <1>12
-----------------------------------------------------------------------------
(***************************************************************************)
(* Committing a page.                                                      *)
(***************************************************************************)
LEMMA EvictTyped ==
  ASSUME NEW texts \in Seq(Texts), NEW current
  PROVE  Evict(texts, current) \in Seq(Texts) /\ Len(Evict(texts, current)) = Len(texts)
<1>1. DOMAIN texts = 1 .. Len(texts) /\ Len(texts) \in Nat
  BY LenProperties
<1>2. ASSUME NEW k
      PROVE  /\ [i \in DOMAIN texts |->
                   IF i <= k /\ i # current + 1 THEN NoText ELSE texts[i]] \in Seq(Texts)
             /\ Len([i \in DOMAIN texts |->
                       IF i <= k /\ i # current + 1 THEN NoText ELSE texts[i]]) = Len(texts)
  BY <1>1, BookFacts, ElementOfSeq
<1> QED
  BY <1>2 DEF Evict

LEMMA CommitPageResting ==
  ASSUME NEW r, Resting(r), Fits(r)
  PROVE  /\ Resting(CommitPage(r)) /\ GoesOn(r, CommitPage(r))
         /\ CommitPage(r).chapterEnded = r.chapterEnded
         /\ CommitPage(r).result = "Completed"
<1> DEFINE kept == IF r.rebuilding = NoPage THEN Len(r.texts) ELSE r.rebuilding
<1> DEFINE current == IF r.rebuilding = NoPage /\ r.prefetching THEN r.current ELSE kept
<1> DEFINE texts == Evict(Append(SubSeq(r.texts, 1, kept), r.work), current)
<1> DEFINE anchors == Append(SubSeq(r.anchors, 1, kept), r.workAnchor)
<1> DEFINE next == [r.workAnchor EXCEPT !.parserCheckpoint = @ + Size(r.work)]
<1> DEFINE s == [r EXCEPT !.texts = texts, !.anchors = anchors, !.current = current,
                          !.rebuilding = NoPage, !.workAnchor = next, !.result = "Completed"]
<1>1. /\ r.texts \in Seq(Texts) /\ r.anchors \in Seq(Anchors) /\ r.current \in Nat
      /\ r.rebuilding \in Nat \cup {NoPage} /\ r.work \in Texts /\ r.workAnchor \in Anchors
  BY DEF Resting, Readers
<1>2. kept \in Nat /\ kept <= Len(r.texts) /\ kept <= Len(r.anchors) /\ Len(r.texts) \in Nat
  BY <1>1, LenProperties DEF Resting, CacheInv, NoPage
<1>3. current \in Nat /\ current < kept + 1
  BY <1>1, <1>2 DEF Resting, CacheInv, NoPage
<1> HIDE DEF kept
<1>4. /\ SubSeq(r.texts, 1, kept) \in Seq(Texts) /\ Len(SubSeq(r.texts, 1, kept)) = kept
      /\ SubSeq(r.anchors, 1, kept) \in Seq(Anchors) /\ Len(SubSeq(r.anchors, 1, kept)) = kept
  BY <1>1, <1>2, SubSeqProperties, ElementOfSeq
<1> HIDE DEF current
<1>5. texts \in Seq(Texts) /\ Len(texts) = kept + 1
  <2>1. /\ Append(SubSeq(r.texts, 1, kept), r.work) \in Seq(Texts)
        /\ Len(Append(SubSeq(r.texts, 1, kept), r.work)) = kept + 1
    BY <1>1, <1>4, AppendProperties
  <2> QED
    BY <2>1, EvictTyped
<1>6. anchors \in Seq(Anchors) /\ Len(anchors) = kept + 1
  BY <1>1, <1>4, AppendProperties
<1>7. next \in Anchors
  <2>1. Size(r.work) \in Nat
    BY <1>1 DEF Texts, Size, Fits
  <2> QED
    BY <1>1, <2>1 DEF Anchors
<1>8. CommitPage(r) = s
  BY DEF CommitPage, kept, current
<1> HIDE DEF texts, anchors, next
<1>9. s \in Readers
  BY <1>3, <1>5, <1>6, <1>7 DEF Resting, Readers, WorkResults
<1>10. /\ s.texts = texts /\ s.anchors = anchors /\ s.current = current
       /\ s.rebuilding = NoPage /\ s.chapter = r.chapter /\ s.offset = r.offset
       /\ s.fed = r.fed /\ s.pend = r.pend /\ s.chapterEnded = r.chapterEnded
       /\ GoesOn(r, s) /\ s.result = "Completed"
  BY DEF Resting, Readers, GoesOn
<1> HIDE DEF s
<1>11. Resting(s)
  BY <1>2, <1>3, <1>5, <1>6, <1>9, <1>10 DEF Resting, CacheInv, TextInOrder
<1> QED
  BY <1>8, <1>10, <1>11

Commits(r, s) ==
  /\ Resting(s) /\ s.chapterEnded = r.chapterEnded
  /\ s.result \in {"Completed", "Failed"}
  /\ s.result = "Completed" => GoesOn(r, s)
  /\ s.result = "Failed" => Stopped(s)

LEMMA CommitCommits ==
  ASSUME NEW r, Resting(r), Fits(r)
  PROVE  Commits(r, Commit(r))
<1>1. CASE CommitRefused(r)
  <2>1. Commit(r) = FailReader(r)
    BY <1>1 DEF Commit
  <2>2. r \in Readers
    BY DEF Resting
  <2> QED
    BY <2>1, <2>2, FailReaderKeeps, KeepsResting DEF Commits, Keeps
<1>2. CASE ~CommitRefused(r)
  <2>1. Commit(r) = CommitPage(r)
    BY <1>2 DEF Commit
  <2> QED
    BY <2>1, CommitPageResting DEF Commits
<1> QED
  BY <1>1, <1>2

LEMMA FinishInv ==
  ASSUME NEW r, Resting(r)
  PROVE  ReaderInv(Finish(r)) /\ Stopped(Finish(r)) /\ Finish(r).result = "Completed"
<1> DEFINE m == MoveTo(r, "Ready")
<1> DEFINE s == [m EXCEPT !.active = FALSE, !.prefetching = FALSE, !.result = "Completed"]
<1>1. Resting(m)
  BY MoveToKeeps, KeepsResting DEF Resting, PrefetchStates
<1>2. Finish(r) = s
  BY DEF Finish
<1> HIDE DEF m
<1>3. s \in Readers
  BY <1>1 DEF Resting, Readers, WorkResults
<1>4. Keeps(m, s) /\ Stopped(s) /\ s.result = "Completed"
  BY <1>1, <1>3 DEF Resting, Readers, Keeps, Stopped
<1> HIDE DEF s
<1>5. Resting(s)
  BY <1>1, <1>4, KeepsResting
<1> QED
  BY <1>2, <1>4, <1>5 DEF ReaderInv, Stopped
-----------------------------------------------------------------------------
(***************************************************************************)
(* One step of a page's layout keeps the invariant, and either goes on or  *)
(* leaves nothing running.                                                 *)
(***************************************************************************)
Steps(r, s) ==
  /\ ReaderInv(s) /\ s.result \in WorkResults
  /\ GoesOn(r, s) \/ Stopped(s)
  /\ s.result \in {"Completed", "Failed"} => Stopped(s)

LEMMA StoppedInv ==
  ASSUME NEW s, Resting(s), Stopped(s)
  PROVE  ReaderInv(s)
BY DEF ReaderInv, Stopped

LEMMA StoppedSteps ==
  ASSUME NEW r, NEW s, Resting(s), Stopped(s), s.result \in WorkResults
  PROVE  Steps(r, s)
BY StoppedInv DEF Steps

LEMMA FailReaderSteps ==
  ASSUME NEW r, NEW s, Resting(s)
  PROVE  Steps(r, FailReader(s))
<1>1. Keeps(s, FailReader(s)) /\ Stopped(FailReader(s)) /\ FailReader(s).result = "Failed"
  BY FailReaderKeeps DEF Resting
<1>2. Resting(FailReader(s))
  BY <1>1, KeepsResting
<1> QED
  BY <1>1, <1>2, StoppedSteps DEF WorkResults

LEMMA FinishSteps ==
  ASSUME NEW r, NEW s, Resting(s)
  PROVE  Steps(r, Finish(s))
BY FinishInv DEF Steps, WorkResults

LEMMA IdleSteps ==
  ASSUME NEW r, ReaderInv(r)
  PROVE  Steps(r, Idle(r))
<1>1. r \in Readers
  BY DEF ReaderInv, Resting
<1>2. Keeps(r, Idle(r)) /\ GoesOn(r, Idle(r)) /\ Idle(r).result = "Idle"
  BY <1>1, IdleKeeps
<1>3. ReaderInv(Idle(r))
  BY <1>2, KeepsInv
<1> QED
  BY <1>2, <1>3 DEF Steps, WorkResults

(* continueLayout() *)
LEMMA ContinueLayoutSteps ==
  ASSUME NEW r, ReaderInv(r), NEW ok
  PROVE  Steps(r, ContinueLayout(r, ok))
<1>1. CASE ~(r.active /\ r.layoutPending)
  <2>1. ContinueLayout(r, ok) = Idle(r)
    BY <1>1 DEF ContinueLayout
  <2> QED
    BY <2>1, IdleSteps
<1>2. CASE r.active /\ r.layoutPending
  <2> DEFINE m == MoveTo(r, "LayingOut")
  <2> DEFINE l == LayOut(m)
  <2> DEFINE laid == [l EXCEPT !.layoutPending = FALSE]
  <2> DEFINE read == [laid EXCEPT !.inputEnded = FALSE]
  <2> DEFINE ended == [laid EXCEPT !.inputEnded = FALSE, !.chapterEnded = TRUE]
  <2> DEFINE last == IF IsBlank(ended.work) /\ ended.texts # <<>> THEN Return(ended, "Completed")
                     ELSE Commit(ended)
  <2> DEFINE full == Commit(read)
  <2> DEFINE closed == [last EXCEPT !.entryOpen = FALSE]
  <2> DEFINE more == Return(MoveTo(laid, "ReadingInput"), "MoreWork")
  <2>1. \/ ContinueLayout(r, ok) = full /\ full.result = "Failed"
        \/ ContinueLayout(r, ok) = Finish(full)
        \/ ContinueLayout(r, ok) = last /\ last.result = "Failed"
        \/ ContinueLayout(r, ok) = FailReader(last)
        \/ ContinueLayout(r, ok) = Finish(closed)
        \/ ContinueLayout(r, ok) = more
    <3>1. CASE PageFull(r)
      BY <1>2, <3>1 DEF ContinueLayout
    <3>2. CASE ~PageFull(r) /\ r.inputEnded
      BY <1>2, <3>2 DEF ContinueLayout
    <3>3. CASE ~PageFull(r) /\ ~r.inputEnded
      BY <1>2, <3>3 DEF ContinueLayout
    <3> QED
      BY <3>1, <3>2, <3>3
  <2>2. Resting(m) /\ Fits(m) /\ GoesOn(r, m) /\ ~m.chapterEnded
    <3>1. Resting(r) /\ Fits(r) /\ ~r.chapterEnded
      BY <1>2 DEF ReaderInv
    <3>2. Keeps(r, m) /\ GoesOn(r, m)
      BY <3>1, MoveToKeeps DEF Resting, PrefetchStates
    <3> HIDE DEF m
    <3> QED
      BY <3>1, <3>2, KeepsResting DEF Keeps
  <2> HIDE DEF m
  <2>3. Extends(m, l)
    BY <2>2, LayOutExtends
  <2> HIDE DEF l
  <2>4. Resting(laid) /\ Fits(laid) /\ GoesOn(r, laid) /\ ~laid.chapterEnded
    <3>1. l \in Readers /\ Resting(l) /\ Fits(l) /\ GoesOn(m, l) /\ l.chapterEnded = m.chapterEnded
      BY <2>3 DEF Extends, Resting
    <3>2. laid \in Readers
      BY <3>1 DEF Readers
    <3>3. Keeps(l, laid) /\ GoesOn(l, laid)
      BY <3>1, <3>2 DEF Keeps, GoesOn, Readers
    <3> HIDE DEF laid
    <3> QED
      BY <2>2, <3>1, <3>3, KeepsResting DEF Keeps, GoesOn
  <2> HIDE DEF laid
  <2>5. Commits(read, full)
    <3>1. read \in Readers
      BY <2>4 DEF Resting, Readers
    <3>2. Keeps(laid, read)
      BY <2>4, <3>1 DEF Keeps, Resting, Readers
    <3> HIDE DEF read
    <3> QED
      BY <2>4, <3>2, KeepsResting, CommitCommits
  <2>6. Resting(ended) /\ Fits(ended)
    <3>1. ended \in Readers
      BY <2>4 DEF Resting, Readers
    <3>2. /\ ended.texts = laid.texts /\ ended.anchors = laid.anchors
          /\ ended.current = laid.current /\ ended.rebuilding = laid.rebuilding
          /\ ended.pend = laid.pend /\ ended.fed = laid.fed /\ ended.offset = laid.offset
          /\ ended.chapterEnded = TRUE /\ ended.work = laid.work /\ ended.size = laid.size
          /\ ended.family = laid.family
      BY <2>4 DEF Resting, Readers
    <3> HIDE DEF ended
    <3> QED
      BY <2>4, <3>1, <3>2 DEF Resting, CacheInv, TextInOrder, Fits, Size
  <2> HIDE DEF ended, read
  <2>7. Resting(last) /\ (last.result = "Failed" => Stopped(last))
    <3>1. CASE last = Commit(ended)
      BY <2>6, <3>1, CommitCommits DEF Commits
    <3>2. CASE last = Return(ended, "Completed")
      <4>1. /\ Keeps(ended, Return(ended, "Completed"))
            /\ Return(ended, "Completed").result = "Completed"
        BY <2>6, ReturnKeeps DEF Resting, WorkResults
      <4> QED
        BY <2>6, <3>2, <4>1, KeepsResting
    <3> QED
      BY <3>1, <3>2
  <2>8. Resting(closed)
    <3> HIDE DEF last
    <3>1. closed \in Readers
      BY <2>7 DEF Resting, Readers
    <3>2. Keeps(last, closed)
      BY <2>7, <3>1 DEF Keeps, Resting, Readers
    <3> QED
      BY <2>7, <3>2, KeepsResting
  <2>9. ReaderInv(more) /\ GoesOn(r, more) /\ more.result = "MoreWork"
    <3> DEFINE n == MoveTo(laid, "ReadingInput")
    <3>1. Keeps(laid, n) /\ GoesOn(laid, n)
      BY <2>4, MoveToKeeps DEF Resting, PrefetchStates
    <3> HIDE DEF n
    <3>2. Keeps(n, more) /\ GoesOn(n, more) /\ more.result = "MoreWork"
      BY <3>1, ReturnKeeps DEF Keeps, WorkResults, n
    <3>3. Keeps(laid, more) /\ GoesOn(laid, more)
      BY <3>1, <3>2, KeepsTrans DEF GoesOn
    <3> HIDE DEF more
    <3>4. ReaderInv(laid)
      BY <1>2, <2>4 DEF ReaderInv, GoesOn
    <3> QED
      BY <2>4, <3>2, <3>3, <3>4, KeepsInv DEF GoesOn
  <2> HIDE DEF full, last, closed, more
  <2>10. ASSUME full.result = "Failed" PROVE Steps(r, full)
    BY <2>5, <2>10, StoppedSteps DEF Commits, WorkResults
  <2>11. ASSUME last.result = "Failed" PROVE Steps(r, last)
    BY <2>7, <2>11, StoppedSteps DEF WorkResults
  <2>12. Steps(r, more)
    BY <2>9 DEF Steps, WorkResults
  <2>13. Resting(full)
    BY <2>5 DEF Commits
  <2> QED
    BY <2>1, <2>7, <2>8, <2>10, <2>11, <2>12, <2>13, FinishSteps, FailReaderSteps
<1> QED
  BY <1>1, <1>2

(* readInputChunk() *)
LEMMA ReadInputChunkSteps ==
  ASSUME NEW r, ReaderInv(r), NEW ok
  PROVE  Steps(r, ReadInputChunk(r, ok))
<1> DEFINE m == MoveTo(r, "ReadingInput")
<1> DEFINE count == Min({ChunkUnits, TextLength[r.chapter] - r.offset})
<1>1. Keeps(r, m) /\ GoesOn(r, m) /\ Resting(m)
  BY MoveToKeeps, KeepsResting DEF ReaderInv, Resting, PrefetchStates
<1>2. CASE ~r.active \/ r.inputReady \/ r.layoutPending
  <2>1. ReadInputChunk(r, ok) = Idle(r)
    BY <1>2 DEF ReadInputChunk
  <2> QED
    BY <2>1, IdleSteps
<1>3. CASE r.active /\ ~r.inputReady /\ ~r.layoutPending /\ (~ok \/ ~r.entryOpen)
  <2>1. ReadInputChunk(r, ok) = FailReader(m)
    BY <1>3 DEF ReadInputChunk
  <2> HIDE DEF m
  <2> QED
    BY <1>1, <2>1, FailReaderSteps
<1>4. CASE r.active /\ ~r.inputReady /\ ~r.layoutPending /\ ok /\ r.entryOpen
  <2> DEFINE offset == m.offset + count
  <2> DEFINE empty == count = 0
  <2> DEFINE s == [m EXCEPT !.offset = offset, !.inputEnded = empty,
                            !.inputReady = TRUE, !.result = "MoreWork"]
  <2>1. ReadInputChunk(r, ok) = s
    BY <1>4 DEF ReadInputChunk
  <2>2. /\ r.offset \in Nat /\ r.fed \in Nat /\ r.chapter \in Chapters
        /\ r.offset <= TextLength[r.chapter] /\ TextLength[r.chapter] \in Nat
        /\ r.fed <= r.offset /\ ~r.chapterEnded
    BY <1>4, BookFacts DEF ReaderInv, Resting, TextInOrder, Readers
  <2>3. count \in Nat /\ count <= TextLength[r.chapter] - r.offset
    <3>1. TextLength[r.chapter] - r.offset \in Nat /\ ChunkUnits \in Nat
      BY <2>2, ReaderAssumption
    <3> QED
      BY <3>1, MinPair
  <2>4. m.offset = r.offset /\ m.chapter = r.chapter /\ m.fed = r.fed
    BY <1>1 DEF Keeps
  <2>5. empty \in BOOLEAN
    OBVIOUS
  <2> HIDE DEF m, count
  <2>6. offset \in Nat /\ m.offset <= offset /\ offset <= TextLength[m.chapter]
    BY <2>2, <2>3, <2>4
  <2> HIDE DEF offset, empty
  <2>7. s \in Readers
    BY <1>1, <2>5, <2>6 DEF Resting, Readers, WorkResults
  <2>8. /\ s.texts = m.texts /\ s.anchors = m.anchors /\ s.current = m.current
        /\ s.rebuilding = m.rebuilding /\ s.chapter = m.chapter /\ s.offset = offset
        /\ s.fed = m.fed /\ s.pend = m.pend /\ s.chapterEnded = m.chapterEnded
        /\ s.work = m.work /\ s.size = m.size /\ s.family = m.family /\ s.result = "MoreWork"
        /\ GoesOn(m, s)
    BY <1>1 DEF Resting, Readers, GoesOn
  <2>9. Fits(m) /\ m.chapterEnded = r.chapterEnded
    BY <1>1, <1>4, KeepsResting DEF ReaderInv, Keeps
  <2> HIDE DEF s
  <2>10. Resting(s) /\ Fits(s)
    <3>1. m.fed \in Nat /\ m.offset \in Nat /\ m.fed <= m.offset
      BY <2>2, <2>4
    <3> QED
      BY <1>1, <2>6, <2>7, <2>8, <2>9, <3>1 DEF Resting, CacheInv, TextInOrder, Fits, Size
  <2>11. ~s.chapterEnded /\ GoesOn(r, s) /\ (s.prefetching => s.active)
    BY <1>1, <2>2, <2>8, <2>9 DEF GoesOn, ReaderInv
  <2> QED
    BY <2>1, <2>8, <2>10, <2>11 DEF Steps, ReaderInv, WorkResults
<1> QED
  BY <1>2, <1>3, <1>4

(* processBufferedInput() *)
LEMMA ProcessBufferedInputSteps ==
  ASSUME NEW r, ReaderInv(r)
  PROVE  Steps(r, ProcessBufferedInput(r))
<1> DEFINE m == MoveTo(r, "Parsing")
<1> DEFINE skipped == Min({r.offset - r.pend, r.seek})
<1> DEFINE s == [m EXCEPT !.fed = r.offset, !.inputReady = FALSE, !.pend = @ + skipped,
                          !.seek = @ - skipped, !.result = "MoreWork"]
<1> DEFINE t == [s EXCEPT !.layoutPending = TRUE]
<1>1. CASE ~(r.active /\ r.inputReady)
  <2>1. ProcessBufferedInput(r) = Idle(r)
    BY <1>1 DEF ProcessBufferedInput
  <2> QED
    BY <2>1, IdleSteps
<1>2. CASE r.active /\ r.inputReady
  <2>1. ProcessBufferedInput(r) \in {FailReader(s), s, t}
    <3>1. CASE r.seek > skipped
      BY <1>2, <3>1 DEF ProcessBufferedInput
    <3>2. CASE ~(r.seek > skipped)
      BY <1>2, <3>2 DEF ProcessBufferedInput
    <3> QED
      BY <3>1, <3>2
  <2>2. Keeps(r, m) /\ GoesOn(r, m) /\ Resting(m)
    BY MoveToKeeps, KeepsResting DEF ReaderInv, Resting, PrefetchStates
  <2>3. m.seek = r.seek
    BY DEF MoveTo, ReaderInv, Resting, Readers
  <2>4. m.pend = r.pend /\ m.offset = r.offset /\ m.chapterEnded = r.chapterEnded
    BY <2>2 DEF Keeps
  <2>5. /\ r.offset \in Nat /\ r.pend \in Nat /\ r.seek \in Nat /\ r.fed \in Nat
        /\ r.pend <= r.fed /\ r.fed <= r.offset
    BY DEF ReaderInv, Resting, TextInOrder, Readers
  <2>6. skipped \in Nat /\ skipped <= r.offset - r.pend /\ skipped <= r.seek
    BY <2>5, MinPair
  <2>7. Fits(m) /\ ~m.chapterEnded
    BY <1>2, <2>2, <2>4, KeepsResting DEF ReaderInv
  <2> HIDE DEF m, skipped
  <2>8. m.pend + skipped \in Nat /\ m.seek - skipped \in Nat /\ m.pend + skipped <= r.offset
    BY <2>3, <2>4, <2>5, <2>6
  <2>9. s \in Readers
    <3>1. ASSUME NEW p \in Nat, NEW q \in Nat, NEW f \in Nat
          PROVE  [m EXCEPT !.fed = f, !.inputReady = FALSE, !.pend = p,
                           !.seek = q, !.result = "MoreWork"] \in Readers
      BY <2>2 DEF Resting, Readers, WorkResults
    <3> QED
      BY <2>5, <2>8, <3>1
  <2>10. /\ s.texts = m.texts /\ s.anchors = m.anchors /\ s.current = m.current
         /\ s.rebuilding = m.rebuilding /\ s.chapter = m.chapter /\ s.offset = m.offset
         /\ s.fed = r.offset /\ s.pend = m.pend + skipped /\ s.chapterEnded = m.chapterEnded
         /\ s.work = m.work /\ s.size = m.size /\ s.family = m.family /\ s.result = "MoreWork"
         /\ GoesOn(m, s)
    BY <2>2 DEF Resting, Readers, GoesOn
  <2> HIDE DEF s
  <2>11. Resting(s) /\ Fits(s)
    BY <2>2, <2>4, <2>5, <2>7, <2>8, <2>9, <2>10 DEF Resting, CacheInv, TextInOrder, Fits, Size
  <2>12. ~s.chapterEnded /\ GoesOn(r, s) /\ (s.prefetching => s.active)
    BY <2>2, <2>7, <2>10 DEF GoesOn, ReaderInv
  <2>13. Steps(r, s)
    BY <2>10, <2>11, <2>12 DEF Steps, ReaderInv, WorkResults
  <2>14. Steps(r, t)
    <3>1. t \in Readers
      BY <2>9 DEF Readers
    <3>2. Keeps(s, t) /\ GoesOn(s, t) /\ t.result = "MoreWork"
      BY <2>9, <2>10, <3>1 DEF Keeps, GoesOn, Readers
    <3> HIDE DEF t
    <3>3. ReaderInv(t)
      BY <2>13, <3>2, KeepsInv DEF Steps
    <3> QED
      BY <2>12, <3>2, <3>3 DEF Steps, GoesOn, WorkResults
  <2> QED
    BY <2>1, <2>11, <2>13, <2>14, FailReaderSteps
<1> QED
  BY <1>1, <1>2

(* restorePrefetchCheckpoint() *)
LEMMA RestoreSteps ==
  ASSUME NEW r, ReaderInv(r), NEW ok
  PROVE  Steps(r, RestorePrefetchCheckpoint(r, ok))
<1> DEFINE prefetch == Transition(r.prefetch, "Restoring")
<1> DEFINE stopped == [r EXCEPT !.prefetch = prefetch, !.entryOpen = FALSE,
                           !.active = FALSE, !.prefetching = FALSE, !.pend = r.fed,
                           !.work = NoText, !.inputReady = FALSE, !.inputEnded = FALSE,
                           !.layoutPending = FALSE]
<1> DEFINE o == OpenLinearSpineAt(stopped, r.checkpoint.spine, ok)
<1> DEFINE failed == [o EXCEPT !.prefetch = "Failed"]
<1> DEFINE restored == [o EXCEPT !.workAnchor = r.checkpoint,
                                 !.seek = r.checkpoint.parserCheckpoint,
                                 !.prefetch = "Idle", !.result = "Idle"]
<1>1. RestorePrefetchCheckpoint(r, ok) \in {FailReader(failed), restored}
  BY DEF RestorePrefetchCheckpoint
<1>2. prefetch \in PrefetchStates /\ NoText \in Texts /\ r.fed \in Nat /\ r \in Readers
  BY BookFacts DEF Transition, PrefetchStates, ReaderInv, Resting, Readers
<1> HIDE DEF prefetch
<1>3. stopped \in Readers
  <2>1. ASSUME NEW f \in Nat, NEW n \in Texts
        PROVE  [r EXCEPT !.prefetch = prefetch, !.entryOpen = FALSE,
                         !.active = FALSE, !.prefetching = FALSE, !.pend = f,
                         !.work = n, !.inputReady = FALSE, !.inputEnded = FALSE,
                         !.layoutPending = FALSE] \in Readers
    BY <1>2 DEF Readers
  <2> QED
    BY <1>2, <2>1
<1>4. /\ stopped.texts = r.texts /\ stopped.anchors = r.anchors /\ stopped.current = r.current
      /\ stopped.rebuilding = r.rebuilding /\ stopped.chapter = r.chapter
      /\ stopped.offset = r.offset /\ stopped.fed = r.fed /\ stopped.pend = r.fed
      /\ stopped.chapterEnded = r.chapterEnded
      /\ stopped.active = FALSE /\ stopped.prefetching = FALSE
  BY <1>2 DEF Readers
<1> HIDE DEF stopped
<1>5. Resting(stopped) /\ Stopped(stopped)
  BY <1>2, <1>3, <1>4 DEF ReaderInv, Resting, CacheInv, TextInOrder, Stopped
<1>6. Resting(o) /\ Stopped(o)
  BY <1>5, OpenLinearSpineAtOpens DEF Opens, Stopped, GoesOn
<1> HIDE DEF o
<1>7. Resting(failed)
  <2>1. failed \in Readers
    BY <1>6 DEF Resting, Readers, PrefetchStates
  <2>2. Keeps(o, failed)
    BY <1>6, <2>1 DEF Keeps, Resting, Readers
  <2> HIDE DEF failed
  <2> QED
    BY <1>6, <2>2, KeepsResting
<1>8. Resting(restored) /\ Stopped(restored) /\ restored.result = "Idle"
  <2>1. r.checkpoint \in Anchors /\ r.checkpoint.parserCheckpoint \in Nat
    BY <1>2 DEF Readers, Anchors
  <2>2. restored \in Readers
    BY <1>6, <2>1 DEF Resting, Readers, PrefetchStates, WorkResults
  <2>3. Keeps(o, restored) /\ GoesOn(o, restored) /\ restored.result = "Idle"
    BY <1>6, <2>2 DEF Keeps, GoesOn, Resting, Readers
  <2> HIDE DEF restored
  <2> QED
    BY <1>6, <2>3, KeepsResting DEF GoesOn, Stopped
<1> HIDE DEF failed, restored
<1>9. Steps(r, restored)
  BY <1>8, StoppedSteps DEF WorkResults
<1> QED
  BY <1>1, <1>7, <1>9, FailReaderSteps

(* processNextChunk() *)
LEMMA ProcessNextChunkSteps ==
  ASSUME NEW r, ReaderInv(r), NEW ok
  PROVE  Steps(r, ProcessNextChunk(r, ok))
<1>1. CASE ~r.active
  <2> DEFINE w == IF r.error THEN "Failed" ELSE "Idle"
  <2>1. Stopped(r) /\ r \in Readers /\ Resting(r)
    BY <1>1 DEF ReaderInv, Stopped, Resting
  <2>2. ProcessNextChunk(r, ok) = Return(r, w)
    BY <1>1, <2>1 DEF ProcessNextChunk, Stopped
  <2>3. w \in WorkResults
    BY DEF WorkResults
  <2> HIDE DEF w
  <2>4. Keeps(r, Return(r, w)) /\ GoesOn(r, Return(r, w)) /\ Return(r, w).result = w
    BY <2>1, <2>3, ReturnKeeps
  <2>5. Resting(Return(r, w)) /\ Stopped(Return(r, w))
    BY <2>1, <2>4, KeepsResting DEF Stopped, GoesOn
  <2> QED
    BY <2>2, <2>3, <2>4, <2>5, StoppedSteps
<1>2. CASE r.active
  <2>1. ProcessNextChunk(r, ok) \in {RestorePrefetchCheckpoint(r, ok), ProcessBufferedInput(r),
                                     ContinueLayout(r, ok), ReadInputChunk(r, ok)}
    BY <1>2 DEF ProcessNextChunk
  <2> QED
    BY <2>1, RestoreSteps, ProcessBufferedInputSteps, ContinueLayoutSteps, ReadInputChunkSteps
<1> QED
  BY <1>1, <1>2

(* processCpuOnlyWork() *)
LEMMA ProcessCpuOnlyWorkSteps ==
  ASSUME NEW r, ReaderInv(r)
  PROVE  /\ ReaderInv(ProcessCpuOnlyWork(r))
         /\ GoesOn(r, ProcessCpuOnlyWork(r)) \/ Stopped(ProcessCpuOnlyWork(r))
<1>1. PICK s : ProcessCpuOnlyWork(r) = Idle(s) /\ Steps(r, s)
  BY ProcessBufferedInputSteps, ContinueLayoutSteps DEF ProcessCpuOnlyWork
<1>2. Steps(s, Idle(s)) /\ GoesOn(s, Idle(s))
  BY <1>1, IdleSteps, IdleKeeps DEF Steps, ReaderInv, Resting
<1> QED
  BY <1>1, <1>2 DEF Steps, GoesOn, Stopped
-----------------------------------------------------------------------------
(***************************************************************************)
(* Page requests, which a reader at rest answers at once or by starting to *)
(* lay a page out.                                                         *)
(***************************************************************************)
AtRest(r) == Resting(r) /\ Stopped(r)

Serves(s) ==
  /\ ReaderInv(s) /\ s.result \in WorkResults /\ ~s.prefetching
  /\ s.result # "MoreWork" => Stopped(s)

LEMMA AtRestServes ==
  ASSUME NEW s, AtRest(s), s.result \in WorkResults
  PROVE  Serves(s)
BY StoppedInv DEF AtRest, Serves, Stopped

LEMMA AtRestKeeps ==
  ASSUME NEW r, AtRest(r), NEW s, Keeps(r, s), GoesOn(r, s)
  PROVE  AtRest(s)
BY KeepsResting DEF AtRest, GoesOn, Stopped

LEMMA IdleServes ==
  ASSUME NEW r, AtRest(r)
  PROVE  Serves(Idle(r)) /\ Stopped(Idle(r)) /\ Idle(r).result = "Idle"
<1>1. Keeps(r, Idle(r)) /\ GoesOn(r, Idle(r)) /\ Idle(r).result = "Idle"
  BY IdleKeeps DEF AtRest, Resting
<1>2. AtRest(Idle(r))
  BY <1>1, AtRestKeeps
<1> QED
  BY <1>1, <1>2, AtRestServes DEF WorkResults, AtRest

(* rebuildPage() *)
LEMMA RebuildPageServes ==
  ASSUME NEW r, AtRest(r), NEW index \in Nat, NEW ok
  PROVE  Serves(RebuildPage(r, index, ok))
<1> DEFINE anchor == r.anchors[index + 1]
<1> DEFINE entry == r.entryOpen /\ r.chapterEnded
<1> DEFINE closed == [r EXCEPT !.entryOpen = entry]
<1> DEFINE o == OpenLinearSpineAt(closed, anchor.spine, ok)
<1> DEFINE p == BlankPage(o, "front")
<1> DEFINE failed == [o EXCEPT !.error = TRUE]
<1> DEFINE s == [p EXCEPT !.rebuilding = index, !.seek = anchor.parserCheckpoint,
                          !.workAnchor = anchor, !.active = TRUE, !.result = "MoreWork"]
<1>1. CASE index >= Len(r.anchors)
  <2>1. RebuildPage(r, index, ok) = Idle(r)
    BY <1>1 DEF RebuildPage
  <2> QED
    BY <2>1, IdleServes
<1>2. CASE ~(index >= Len(r.anchors))
  <2>1. /\ r \in Readers /\ r.anchors \in Seq(Anchors) /\ Len(r.anchors) = Len(r.texts)
        /\ Len(r.anchors) \in Nat /\ ~r.active
    BY DEF AtRest, Resting, CacheInv, Readers, Stopped
  <2>2. anchor \in Anchors
    BY <1>2, <2>1, ElementOfSeq
  <2>3. anchor.parserCheckpoint \in Nat
    BY <2>2 DEF Anchors
  <2>4. RebuildPage(r, index, ok) = IF o.result = "Failed" THEN failed ELSE s
    BY <1>2, <2>1 DEF RebuildPage
  <2> HIDE DEF anchor
  <2>5. AtRest(closed) /\ closed.texts = r.texts
    <3>1. entry \in BOOLEAN
      OBVIOUS
    <3> HIDE DEF entry
    <3>2. closed \in Readers
      BY <2>1, <3>1 DEF Readers
    <3>3. Keeps(r, closed) /\ GoesOn(r, closed)
      BY <2>1, <3>2 DEF Keeps, GoesOn, Readers
    <3> HIDE DEF closed
    <3> QED
      BY <3>3, AtRestKeeps DEF Keeps
  <2> HIDE DEF closed
  <2>6. Opens(closed, o)
    BY <2>5, OpenLinearSpineAtOpens DEF AtRest
  <2> HIDE DEF o
  <2>7. ASSUME o.result = "Failed" PROVE Serves(failed)
    <3>1. AtRest(o) /\ o \in Readers
      BY <2>5, <2>6 DEF Opens, AtRest, GoesOn, Stopped, Resting
    <3>2. Keeps(o, failed) /\ GoesOn(o, failed) /\ failed.result = "Failed"
      BY <2>7, <3>1, ErrorKeeps
    <3> HIDE DEF failed
    <3> QED
      BY <3>1, <3>2, AtRestKeeps, AtRestServes DEF WorkResults
  <2>8. ASSUME o.result # "Failed" PROVE Serves(s)
    <3>1. Resting(p) /\ Fits(p) /\ ~p.chapterEnded /\ p.texts = r.texts /\ ~p.prefetching
      <4>1. Resting(o) /\ ~o.chapterEnded /\ o.texts = closed.texts /\ ~o.prefetching
        BY <2>5, <2>6, <2>8 DEF Opens, GoesOn, AtRest, Stopped
      <4> HIDE DEF p
      <4> QED
        BY <2>5, <4>1, BlankPageInv DEF p, GoesOn
    <3> HIDE DEF p
    <3>2. s \in Readers
      BY <2>2, <2>3, <3>1 DEF Resting, Readers, WorkResults
    <3>3. /\ s.texts = p.texts /\ s.anchors = p.anchors /\ s.current = p.current
          /\ s.rebuilding = index /\ s.chapter = p.chapter /\ s.offset = p.offset
          /\ s.fed = p.fed /\ s.pend = p.pend /\ s.chapterEnded = p.chapterEnded
          /\ s.work = p.work /\ s.size = p.size /\ s.family = p.family
          /\ s.active = TRUE /\ s.result = "MoreWork" /\ s.prefetching = p.prefetching
      BY <3>1 DEF Resting, Readers
    <3> HIDE DEF s
    <3>4. Resting(s) /\ Fits(s)
      BY <1>2, <2>1, <3>1, <3>2, <3>3 DEF Resting, CacheInv, TextInOrder, Fits, Size
    <3>5. ~s.chapterEnded
      BY <3>1, <3>3
    <3> QED
      BY <3>1, <3>3, <3>4, <3>5 DEF Serves, ReaderInv, WorkResults
  <2> QED
    BY <2>4, <2>7, <2>8
<1> QED
  BY <1>1, <1>2

(* renderCachedPage() *)
LEMMA RenderCachedPageRests ==
  ASSUME NEW r, AtRest(r), NEW index \in Nat, index < Len(r.texts)
  PROVE  AtRest(RenderCachedPage(r, index)) /\ RenderCachedPage(r, index).result = "Completed"
<1> DEFINE t == r.texts[index + 1]
<1> DEFINE d == Drawn(r, t)
<1> DEFINE p == BlankPage(r, "front")
<1> DEFINE s == [p EXCEPT !.work = t, !.front = d, !.current = index, !.result = "Completed"]
<1>1. r.texts \in Seq(Texts) /\ Len(r.texts) \in Nat
  BY DEF AtRest, Resting, Readers
<1>2. t \in Texts
  BY <1>1, ElementOfSeq
<1> HIDE DEF t
<1>3. d \in Texts
  <2> DEFINE lines == Min({Size(t), Lines[r.size][r.family]})
  <2>1. t.from \in Nat /\ t.to \in Nat /\ Size(t) \in Int
    BY <1>2 DEF Texts, Size
  <2>2. Lines[r.size][r.family] \in Nat
    BY BookFacts DEF AtRest, Resting, Readers
  <2>3. t.from + lines \in Nat
    BY <2>1, <2>2, MinPair DEF Size
  <2> HIDE DEF lines
  <2>4. [t EXCEPT !.to = t.from + lines] \in Texts
    BY <1>2, <2>3 DEF Texts
  <2> QED
    BY <2>4, BookFacts DEF Drawn, lines
<1>4. RenderCachedPage(r, index) = s
  BY DEF RenderCachedPage, t
<1>5. Resting(p) /\ p.texts = r.texts /\ GoesOn(r, p)
  BY BlankPageInv DEF AtRest
<1> HIDE DEF p, d
<1>6. s \in Readers
  BY <1>2, <1>3, <1>5 DEF Resting, Readers, WorkResults
<1>7. /\ s.texts = p.texts /\ s.anchors = p.anchors /\ s.current = index
      /\ s.rebuilding = p.rebuilding /\ s.chapter = p.chapter /\ s.offset = p.offset
      /\ s.fed = p.fed /\ s.pend = p.pend /\ s.chapterEnded = p.chapterEnded
      /\ GoesOn(p, s) /\ s.result = "Completed"
  BY <1>5 DEF Resting, Readers, GoesOn
<1> HIDE DEF s
<1>8. Resting(s)
  BY <1>5, <1>6, <1>7 DEF Resting, CacheInv, TextInOrder
<1> QED
  BY <1>4, <1>5, <1>7, <1>8 DEF AtRest, GoesOn, Stopped

(* redrawCurrentPage() *)
LEMMA RedrawRests ==
  ASSUME NEW r, AtRest(r)
  PROVE  AtRest(RedrawCurrentPage(r))
<1>1. r.current \in Nat
  BY DEF AtRest, Resting, Readers
<1> QED
  BY <1>1, RenderCachedPageRests DEF RedrawCurrentPage, CanRedraw

(* prepareUncachedPage(), which a prefetch calls as well *)
LEMMA PrepareUncachedPagePrepares ==
  ASSUME NEW r, Resting(r), ~r.active, NEW canvas \in {"front", "back"}, NEW ok,
         NEW s, s = PrepareUncachedPage(r, canvas, ok)
  PROVE  /\ Resting(s) /\ s.result \in WorkResults
         /\ s.result = "MoreWork" => ReaderInv(s) /\ s.active /\ s.prefetching = r.prefetching
         /\ s.result # "MoreWork" => ~s.active
         /\ s.prefetching \in {r.prefetching, FALSE}
<1> DEFINE o == IF r.chapterEnded THEN OpenNextLinearSpine(r, ok) ELSE Return(r, "Completed")
<1> DEFINE p == BlankPage(o, canvas)
<1> DEFINE laid == LayOut(p)
<1> DEFINE w == IF o.error THEN "Failed" ELSE "Idle"
<1> DEFINE started == [laid EXCEPT !.active = TRUE, !.result = "MoreWork"]
<1>1. r \in Readers /\ ValidCache(r)
  BY RestingValid DEF Resting
<1>2. \/ s = Idle(r)
      \/ o.result = "Failed" /\ s = Return(o, w)
      \/ o.result # "Failed" /\ s = Commit(laid)
      \/ o.result # "Failed" /\ s = started
  BY <1>1 DEF PrepareUncachedPage
<1>3. CASE s = Idle(r)
  <2>1. Keeps(r, s) /\ GoesOn(r, s) /\ s.result = "Idle"
    BY <1>1, <1>3, IdleKeeps
  <2> QED
    BY <2>1, KeepsResting DEF GoesOn, WorkResults
<1>4. Opens(r, o)
  <2>1. CASE r.chapterEnded
    <3>1. o = OpenNextLinearSpine(r, ok)
      BY <2>1
    <3> QED
      BY <3>1, OpenNextLinearSpineOpens
  <2>2. CASE ~r.chapterEnded
    <3>1. o = Return(r, "Completed")
      BY <2>2
    <3>2. Keeps(r, o) /\ GoesOn(r, o) /\ o.result = "Completed"
      BY <1>1, <3>1, ReturnKeeps DEF WorkResults
    <3>3. o.rebuilding = r.rebuilding
      BY <1>1, <3>1 DEF Return, Readers
    <3> HIDE DEF o
    <3>4. Resting(o)
      BY <3>2, KeepsResting
    <3>5. /\ o.texts = r.texts /\ o.anchors = r.anchors /\ o.current = r.current
          /\ o.work = r.work /\ o.size = r.size /\ o.family = r.family
          /\ o.chapterEnded = r.chapterEnded
      BY <3>2 DEF Keeps
    <3> QED
      BY <2>2, <3>2, <3>3, <3>4, <3>5 DEF Opens
  <2> QED
    BY <2>1, <2>2
<1> HIDE DEF o
<1>5. CASE o.result = "Failed" /\ s = Return(o, w)
  <2>1. w \in WorkResults /\ w # "MoreWork" /\ o \in Readers
    BY <1>4 DEF WorkResults, Opens, Resting
  <2> HIDE DEF w
  <2>2. Keeps(o, s) /\ GoesOn(o, s) /\ s.result = w
    BY <1>5, <2>1, ReturnKeeps
  <2> QED
    BY <1>4, <2>1, <2>2, KeepsResting DEF Opens, GoesOn
<1>6. ASSUME o.result # "Failed"
      PROVE  /\ Resting(laid) /\ Fits(laid) /\ ~laid.chapterEnded
             /\ ~laid.active /\ laid.prefetching = r.prefetching
  <2>1. Resting(o) /\ ~o.chapterEnded /\ GoesOn(r, o)
    BY <1>4, <1>6 DEF Opens
  <2>2. Resting(p) /\ Fits(p) /\ GoesOn(o, p) /\ p.chapterEnded = o.chapterEnded
    BY <2>1, BlankPageInv
  <2> HIDE DEF p
  <2>3. Extends(p, laid)
    BY <2>2, LayOutExtends
  <2> HIDE DEF laid
  <2> QED
    BY <2>1, <2>2, <2>3 DEF Extends, GoesOn
<1> HIDE DEF laid
<1>7. CASE o.result # "Failed" /\ s = Commit(laid)
  <2>1. Commits(laid, s)
    BY <1>6, <1>7, CommitCommits
  <2> QED
    BY <1>6, <1>7, <2>1 DEF Commits, GoesOn, Stopped, WorkResults, Resting, Readers
<1>8. CASE o.result # "Failed" /\ s = started
  <2>1. started \in Readers
    BY <1>6, <1>8 DEF Resting, Readers, WorkResults
  <2>2. /\ Keeps(laid, started) /\ started.active = TRUE /\ started.result = "MoreWork"
        /\ started.prefetching = laid.prefetching
    BY <1>6, <1>8, <2>1 DEF Keeps, Resting, Readers
  <2> HIDE DEF started
  <2>3. ReaderInv(started)
    BY <1>6, <1>8, <2>2, ActiveInv
  <2> QED
    BY <1>6, <1>8, <2>2, <2>3 DEF ReaderInv, WorkResults
<1> QED
  BY <1>2, <1>3, <1>5, <1>7, <1>8

(* swapCanvases() *)
LEMMA SwapCanvasesRests ==
  ASSUME NEW r, AtRest(r), r.current + 1 < Len(r.texts)
  PROVE  AtRest(SwapCanvases(r)) /\ SwapCanvases(r).result = "Completed"
<1> DEFINE c == r.current + 1
<1> DEFINE d == IF r.displayCanvas = "front" THEN "back" ELSE "front"
<1> DEFINE s == [r EXCEPT !.front = r.back, !.back = r.front, !.current = c,
                          !.prefetch = "Idle", !.displayCanvas = d, !.result = "Completed"]
<1>1. SwapCanvases(r) = s
  BY DEF SwapCanvases
<1>2. r \in Readers /\ c \in Nat /\ d \in {"front", "back"} /\ c < Len(r.texts)
  BY DEF AtRest, Resting, Readers
<1> HIDE DEF c, d
<1>3. s \in Readers
  BY <1>2 DEF Readers, PrefetchStates, WorkResults
<1>4. /\ s.texts = r.texts /\ s.anchors = r.anchors /\ s.current = c
      /\ s.rebuilding = r.rebuilding /\ s.chapter = r.chapter /\ s.offset = r.offset
      /\ s.fed = r.fed /\ s.pend = r.pend /\ s.chapterEnded = r.chapterEnded
      /\ GoesOn(r, s) /\ s.result = "Completed"
  BY <1>2 DEF Readers, GoesOn
<1> HIDE DEF s
<1>5. Resting(s)
  BY <1>2, <1>3, <1>4 DEF AtRest, Resting, CacheInv, TextInOrder
<1> QED
  BY <1>1, <1>4, <1>5 DEF AtRest, GoesOn, Stopped

LEMMA PrepareServes ==
  ASSUME NEW r, AtRest(r), NEW canvas \in {"front", "back"}, NEW ok
  PROVE  Serves(PrepareUncachedPage(r, canvas, ok))
<1> DEFINE s == PrepareUncachedPage(r, canvas, ok)
<1>1. /\ Resting(s) /\ s.result \in WorkResults
      /\ s.result = "MoreWork" => ReaderInv(s) /\ s.active
      /\ s.result # "MoreWork" => ~s.active
      /\ s.prefetching \in {r.prefetching, FALSE}
  BY PrepareUncachedPagePrepares DEF AtRest, Stopped
<1> HIDE DEF s
<1>2. ~s.prefetching
  BY <1>1 DEF AtRest, Stopped
<1>3. Serves(s)
  BY <1>1, <1>2, StoppedInv DEF Serves, Stopped
<1> QED
  BY <1>3 DEF s

(* requestNextPage() *)
LEMMA RequestNextPageServes ==
  ASSUME NEW r, AtRest(r), NEW ok
  PROVE  Serves(RequestNextPage(r, ok))
<1> DEFINE c == RenderCachedPage(r, r.current + 1)
<1> DEFINE s == [c EXCEPT !.prefetch = "Idle"]
<1>1. ValidCache(r) /\ ~r.active /\ ~r.prefetching /\ r.current + 1 \in Nat /\ Len(r.texts) \in Nat
  BY RestingValid DEF AtRest, Stopped, Resting, Readers
<1>2. CASE r.current + 1 >= Len(r.texts)
  <2>1. RequestNextPage(r, ok) = PrepareUncachedPage(r, "front", ok)
    BY <1>1, <1>2 DEF RequestNextPage
  <2> QED
    BY <2>1, PrepareServes
<1>3. CASE r.current + 1 < Len(r.texts)
  <2>1. RequestNextPage(r, ok) \in {SwapCanvases(r), RebuildPage(r, r.current + 1, ok), s}
    BY <1>1, <1>3 DEF RequestNextPage
  <2>2. Serves(SwapCanvases(r))
    BY <1>3, SwapCanvasesRests, AtRestServes DEF WorkResults
  <2>3. Serves(RebuildPage(r, r.current + 1, ok))
    BY <1>1, RebuildPageServes
  <2>4. Serves(s)
    <3>1. AtRest(c) /\ c.result = "Completed"
      BY <1>1, <1>3, RenderCachedPageRests
    <3> HIDE DEF c
    <3>2. s \in Readers
      BY <3>1 DEF AtRest, Resting, Readers, PrefetchStates
    <3>3. Keeps(c, s) /\ GoesOn(c, s) /\ s.result = "Completed"
      BY <3>1, <3>2 DEF AtRest, Resting, Readers, Keeps, GoesOn
    <3> HIDE DEF s
    <3> QED
      BY <3>1, <3>3, AtRestKeeps, AtRestServes DEF WorkResults
  <2> QED
    BY <2>1, <2>2, <2>3, <2>4
<1> QED
  BY <1>1, <1>2, <1>3

(* requestPreviousPage() *)
LEMMA RequestPreviousPageServes ==
  ASSUME NEW r, AtRest(r), NEW ok
  PROVE  Serves(RequestPreviousPage(r, ok))
<1> DEFINE f == InvalidateReadyPrefetch(r)
<1>1. /\ ValidCache(r) /\ r.current \in Nat /\ Len(r.texts) \in Nat
      /\ r.current = 0 \/ r.current < Len(r.texts)
  BY RestingValid DEF AtRest, Resting, CacheInv, Readers
<1>2. AtRest(f) /\ f.texts = r.texts
  <2>1. Keeps(r, f) /\ GoesOn(r, f)
    BY InvalidateKeeps DEF AtRest, Resting
  <2> HIDE DEF f
  <2> QED
    BY <2>1, AtRestKeeps DEF Keeps
<1> HIDE DEF f
<1>3. CASE r.active \/ r.current = 0 \/ r.texts = <<>>
  <2>1. RequestPreviousPage(r, ok) = Idle(r)
    BY <1>1, <1>3 DEF RequestPreviousPage
  <2> QED
    BY <2>1, IdleServes
<1>4. CASE ~(r.active \/ r.current = 0 \/ r.texts = <<>>)
  <2>1. RequestPreviousPage(r, ok) \in {RebuildPage(f, r.current - 1, ok),
                                        RenderCachedPage(f, r.current - 1)}
    BY <1>1, <1>4 DEF RequestPreviousPage, f
  <2>2. r.current - 1 \in Nat /\ r.current - 1 < Len(f.texts)
    BY <1>1, <1>2, <1>4
  <2>3. Serves(RebuildPage(f, r.current - 1, ok))
    BY <1>2, <2>2, RebuildPageServes
  <2>4. Serves(RenderCachedPage(f, r.current - 1))
    BY <1>2, <2>2, RenderCachedPageRests, AtRestServes DEF WorkResults
  <2> QED
    BY <2>1, <2>3, <2>4
<1> QED
  BY <1>3, <1>4

(* requestPrefetch(): only a prefetch can be running after it. *)
LEMMA RequestPrefetchInv ==
  ASSUME NEW r, AtRest(r), NEW ok, NEW s, s = RequestPrefetch(r, ok)
  PROVE  ReaderInv(s) /\ (s.active => s.prefetching)
<1> DEFINE noted == [r EXCEPT !.checkpoint = r.workAnchor]
<1> DEFINE asked == [noted EXCEPT !.prefetching = TRUE, !.prefetch = "ReadingInput"]
<1> DEFINE p == PrepareUncachedPage(asked, "back", ok)
<1> DEFINE m == MoveTo(p, "Ready")
<1> DEFINE ready == [m EXCEPT !.prefetching = FALSE]
<1> DEFINE given == [p EXCEPT !.prefetching = FALSE, !.prefetch = "Idle"]
<1>1. r \in Readers /\ ValidCache(r) /\ ~r.active /\ ~r.prefetching
  BY RestingValid DEF AtRest, Resting, Stopped
<1>2. \/ s = Idle(r)
      \/ s = Idle(noted)
      \/ p.result = "MoreWork" /\ s = p
      \/ p.result = "Completed" /\ s = ready
      \/ p.result \notin {"MoreWork", "Completed"} /\ s = given
  <2>1. CASE PrefetchBlocked(r) \/ ~CanStart(r.prefetch)
    BY <1>1, <2>1 DEF RequestPrefetch
  <2>2. CASE ~PrefetchBlocked(r) /\ CanStart(r.prefetch)
    <3>1. s = CASE p.result = "MoreWork"  -> p
                [] p.result = "Completed" -> ready
                [] OTHER -> given
      BY <1>1, <2>2 DEF RequestPrefetch
    <3> HIDE DEF p, ready, given
    <3> QED
      BY <3>1
  <2> QED
    BY <2>1, <2>2
<1>3. AtRest(noted)
  <2>1. noted \in Readers
    BY <1>1 DEF Readers
  <2>2. Keeps(r, noted) /\ GoesOn(r, noted)
    BY <1>1, <2>1 DEF Keeps, GoesOn, Readers
  <2> HIDE DEF noted
  <2> QED
    BY <2>2, AtRestKeeps
<1> HIDE DEF noted
<1>4. Resting(asked) /\ ~asked.active /\ asked.prefetching
  <2>1. asked \in Readers
    BY <1>3 DEF AtRest, Resting, Readers, PrefetchStates
  <2>2. Keeps(noted, asked) /\ asked.active = noted.active /\ asked.prefetching = TRUE
    BY <1>3, <2>1 DEF Keeps, AtRest, Resting, Readers
  <2> HIDE DEF asked
  <2> QED
    BY <1>3, <2>2, KeepsResting DEF AtRest, Stopped
<1> HIDE DEF asked
<1>5. /\ Resting(p) /\ p.result \in WorkResults
      /\ p.result = "MoreWork" => ReaderInv(p) /\ p.active /\ p.prefetching = asked.prefetching
      /\ p.result # "MoreWork" => ~p.active
  BY <1>4, PrepareUncachedPagePrepares
<1> HIDE DEF p
<1>6. CASE s \in {Idle(r), Idle(noted)}
  BY <1>3, <1>6, IdleServes DEF Serves, Stopped
<1>7. CASE p.result = "MoreWork" /\ s = p
  BY <1>4, <1>5, <1>7
<1>8. CASE p.result = "Completed" /\ s = ready
  <2>1. Keeps(p, m) /\ GoesOn(p, m)
    BY <1>5, MoveToKeeps DEF Resting, PrefetchStates
  <2>2. m \in Readers
    BY <2>1 DEF Keeps
  <2> HIDE DEF m
  <2>3. ready \in Readers
    BY <2>2 DEF Readers
  <2>4. Keeps(m, ready) /\ ready.active = m.active /\ ready.prefetching = FALSE
    BY <2>2, <2>3 DEF Keeps, Readers
  <2> HIDE DEF ready
  <2>5. Resting(ready)
    BY <1>5, <2>1, <2>4, KeepsResting
  <2>6. Stopped(ready)
    BY <1>5, <1>8, <2>1, <2>4 DEF GoesOn, Stopped
  <2> QED
    BY <1>8, <2>5, <2>6, StoppedInv DEF Stopped
<1>9. CASE p.result \notin {"MoreWork", "Completed"} /\ s = given
  <2>1. p \in Readers
    BY <1>5 DEF Resting
  <2>2. given \in Readers
    BY <2>1 DEF Readers, PrefetchStates
  <2>3. Keeps(p, given) /\ given.active = p.active /\ given.prefetching = FALSE
    BY <2>1, <2>2 DEF Keeps, Readers
  <2> HIDE DEF given
  <2>4. Resting(given) /\ Stopped(given)
    BY <1>5, <1>9, <2>3, KeepsResting DEF Stopped
  <2> QED
    BY <1>9, <2>4, StoppedInv DEF Stopped
<1> QED
  BY <1>2, <1>6, <1>7, <1>8, <1>9

(* reflowCurrentPage() *)
LEMMA ReflowServes ==
  ASSUME NEW r, AtRest(r), NEW size \in Sizes, NEW ok
  PROVE  Serves(ReflowCurrentPage(r, size, ok))
<1> DEFINE q == [r EXCEPT !.size = size]
<1> DEFINE f == InvalidateReadyPrefetch(q)
<1>1. ValidCache(r) /\ r \in Readers /\ r.current \in Nat
  BY RestingValid DEF AtRest, Resting, Readers
<1>2. CASE r.active \/ r.texts = <<>> \/ size = r.size
  <2>1. ReflowCurrentPage(r, size, ok) = Idle(r)
    BY <1>1, <1>2 DEF ReflowCurrentPage
  <2> QED
    BY <2>1, IdleServes
<1>3. CASE ~(r.active \/ r.texts = <<>> \/ size = r.size)
  <2>1. ReflowCurrentPage(r, size, ok) = RebuildPage(f, r.current, ok)
    BY <1>1, <1>3 DEF ReflowCurrentPage
  <2>2. q \in Readers
    BY <1>1 DEF Readers
  <2>3. /\ q.texts = r.texts /\ q.anchors = r.anchors /\ q.current = r.current
        /\ q.rebuilding = r.rebuilding /\ q.chapter = r.chapter /\ q.offset = r.offset
        /\ q.fed = r.fed /\ q.pend = r.pend /\ q.chapterEnded = r.chapterEnded /\ GoesOn(r, q)
    BY <1>1 DEF Readers, GoesOn
  <2> HIDE DEF q
  <2>4. AtRest(q)
    BY <2>2, <2>3 DEF AtRest, Resting, CacheInv, TextInOrder, GoesOn, Stopped
  <2>5. AtRest(f)
    BY <2>2, <2>4, InvalidateKeeps, AtRestKeeps
  <2> HIDE DEF f
  <2> QED
    BY <1>1, <2>1, <2>5, RebuildPageServes
<1> QED
  BY <1>2, <1>3

LEMMA FontSizeServes ==
  ASSUME NEW r, AtRest(r), NEW ok
  PROVE  Serves(IncreaseFontSize(r, ok)) /\ Serves(DecreaseFontSize(r, ok))
BY ReflowServes, IdleServes DEF IncreaseFontSize, DecreaseFontSize

(* cycleFontFamily() *)
LEMMA CycleFontFamilyServes ==
  ASSUME NEW r, AtRest(r), NEW ok
  PROVE  Serves(CycleFontFamily(r, ok))
<1> DEFINE family == (r.family + 1) % 3
<1> DEFINE q == [r EXCEPT !.family = family]
<1> DEFINE f == InvalidateReadyPrefetch(q)
<1>1. r \in Readers /\ r.current \in Nat /\ family \in Families
  BY DEF AtRest, Resting, Readers, Families
<1>2. CycleFontFamily(r, ok) \in {Idle(r), RebuildPage(f, r.current, ok)}
  BY DEF CycleFontFamily
<1> HIDE DEF family
<1>3. q \in Readers
  BY <1>1 DEF Readers
<1>4. /\ q.texts = r.texts /\ q.anchors = r.anchors /\ q.current = r.current
      /\ q.rebuilding = r.rebuilding /\ q.chapter = r.chapter /\ q.offset = r.offset
      /\ q.fed = r.fed /\ q.pend = r.pend /\ q.chapterEnded = r.chapterEnded /\ GoesOn(r, q)
  BY <1>1 DEF Readers, GoesOn
<1> HIDE DEF q
<1>5. AtRest(q)
  BY <1>3, <1>4 DEF AtRest, Resting, CacheInv, TextInOrder, GoesOn, Stopped
<1>6. AtRest(f)
  BY <1>3, <1>5, InvalidateKeeps, AtRestKeeps
<1> HIDE DEF f
<1> QED
  BY <1>1, <1>2, <1>6, IdleServes, RebuildPageServes
-----------------------------------------------------------------------------
(***************************************************************************)
(* The queue of reader actions.  QueueConsistent is inductive by itself:   *)
(* the loop touches the queue by enqueueing and by popping only.           *)
(***************************************************************************)
QueueInv == pending \in Queue /\ QueueConsistent(pending)

(* What a page advance and its pop write back *)
LEMMA NextCountTyped ==
  ASSUME NEW q \in Queue, NEW n \in Nat, NEW b \in BOOLEAN
  PROVE  [q EXCEPT !.nextCount = n, !.next = b] \in Queue
BY DEF Queue

(* PendingReaderActions::enqueue() *)
LEMMA EnqueueConsistent ==
  ASSUME NEW q \in Queue, QueueConsistent(q), NEW a \in ReaderActions
  PROVE  Enqueue(q, a) \in Queue /\ QueueConsistent(Enqueue(q, a))
<1> DEFINE p == Enqueue(q, a)
<1> HIDE DEF p
<1>1. CASE ~Accepts(q, a)
  BY <1>1 DEF Enqueue, Accepts, FontActions
<1>2. CASE Accepts(q, a) /\ a = "OpenMenu"
  <2>1. p = [WithoutNext(q) EXCEPT !.menu = TRUE]
    BY <1>2 DEF p, Enqueue, FontActions
  <2>2. [WithoutNext(q) EXCEPT !.menu = TRUE] \in Queue
    BY <1>2 DEF Queue, WithoutNext
  <2>3. p.next = FALSE /\ p.nextCount = 0
    BY <2>1 DEF Queue, WithoutNext
  <2> QED
    BY <2>1, <2>2, <2>3 DEF p, QueueConsistent, MaxNextActions
<1>3. CASE Accepts(q, a) /\ a = "PreviousPage"
  <2>1. p = [WithoutNext(q) EXCEPT !.previous = TRUE]
    BY <1>3 DEF p, Enqueue, FontActions
  <2>2. [WithoutNext(q) EXCEPT !.previous = TRUE] \in Queue
    BY <1>3 DEF Queue, WithoutNext
  <2>3. p.next = FALSE /\ p.nextCount = 0
    BY <2>1 DEF Queue, WithoutNext
  <2> QED
    BY <2>1, <2>2, <2>3 DEF p, QueueConsistent, MaxNextActions
<1>4. CASE Accepts(q, a) /\ a \in FontActions
  <2>1. p = [WithoutNext(q) EXCEPT !.font = a]
    BY <1>4 DEF p, Enqueue, FontActions
  <2>2. [WithoutNext(q) EXCEPT !.font = a] \in Queue
    BY <1>4 DEF Queue, WithoutNext
  <2>3. p.next = FALSE /\ p.nextCount = 0
    BY <2>1 DEF Queue, WithoutNext
  <2> QED
    BY <2>1, <2>2, <2>3 DEF p, QueueConsistent, MaxNextActions
<1>5. CASE Accepts(q, a) /\ a = "NextPage"
  <2>1. p = [q EXCEPT !.next = TRUE, !.nextCount = @ + 1]
    BY <1>5 DEF p, Enqueue, FontActions
  <2>2. [q EXCEPT !.next = TRUE, !.nextCount = @ + 1] \in Queue
    <3>1. q.nextCount + 1 \in Nat
      BY DEF Queue
    <3> QED
      BY <3>1 DEF Queue
  <2>3. /\ p.next = TRUE /\ p.nextCount = q.nextCount + 1
        /\ p.menu = q.menu /\ p.previous = q.previous /\ p.font = q.font
    BY <2>1 DEF Queue
  <2>4. q.nextCount < MaxNextActions /\ ~Outranked(q)
    BY <1>5 DEF Accepts
  <2> QED
    BY <2>1, <2>2, <2>3, <2>4 DEF p, Queue, QueueConsistent, Outranked, MaxNextActions
<1> QED
  BY <1>1, <1>2, <1>3, <1>4, <1>5 DEF ReaderActions

(* PendingReaderActions::pop() *)
LEMMA PoppedConsistent ==
  ASSUME NEW q \in Queue, QueueConsistent(q)
  PROVE  Popped(q) \in Queue /\ QueueConsistent(Popped(q))
<1> DEFINE p == Popped(q)
<1> HIDE DEF p
<1>1. CASE Outranked(q)
  <2>1. p \in Queue
    BY <1>1 DEF p, Popped, Outranked, Queue
  <2>2. p.next = q.next /\ p.nextCount = q.nextCount
    BY <1>1 DEF p, Popped, Outranked, Queue
  <2>3. q.nextCount = 0
    BY <1>1 DEF QueueConsistent
  <2> QED
    BY <2>1, <2>2, <2>3 DEF p, QueueConsistent
<1>2. CASE ~Outranked(q) /\ q.nextCount = 0
  BY <1>2 DEF Popped, Outranked
<1>3. CASE ~Outranked(q) /\ q.nextCount # 0
  <2>1. p = [q EXCEPT !.nextCount = @ - 1, !.next = q.nextCount > 1]
    BY <1>3 DEF p, Popped, Outranked
  <2>2. [q EXCEPT !.nextCount = @ - 1, !.next = q.nextCount > 1] \in Queue
    <3>1. q.nextCount - 1 \in Nat /\ (q.nextCount > 1) \in BOOLEAN
      BY <1>3 DEF Queue
    <3> QED
      BY <3>1, NextCountTyped
  <2>3. /\ p.nextCount = q.nextCount - 1 /\ p.next = (q.nextCount > 1)
        /\ p.menu = q.menu /\ p.previous = q.previous /\ p.font = q.font
    BY <2>1 DEF Queue
  <2>4. p.next <=> p.nextCount > 0
    <3>1. q.nextCount > 1 <=> p.nextCount > 0
      BY <2>3 DEF Queue
    <3> QED
      BY <2>3, <3>1, Zenon
  <2> QED
    BY <1>3, <2>1, <2>2, <2>3, <2>4 DEF p, Queue, QueueConsistent, Outranked, MaxNextActions
<1> QED
  BY <1>1, <1>2, <1>3

(* A reader action is executed, or queued. *)
LEMMA HandledConsistent ==
  ASSUME QueueInv, NEW a \in ReaderActions, NEW ok, HandleReaderAction(a, ok)
  PROVE  QueueInv'
<1>1. CASE pending' = Enqueue(pending, a)
  BY <1>1, EnqueueConsistent DEF QueueInv
<1>2. CASE UNCHANGED pending
  BY <1>2 DEF QueueInv
<1> QED
  BY <1>1, <1>2 DEF HandleReaderAction, QueueAction

LEMMA QueueStep == QueueInv /\ [Next]_vars => QueueInv'
<1> SUFFICES ASSUME QueueInv, [Next]_vars PROVE QueueInv'
  OBVIOUS
<1>1. CASE Lever
  BY <1>1, HandledConsistent DEF Lever, ReaderActions
<1>2. CASE TouchPage
  BY <1>2, HandledConsistent DEF TouchPage
<1>3. CASE PopAction
  BY <1>3, PoppedConsistent DEF PopAction, QueueInv
<1>4. CASE UNCHANGED pending
  BY <1>4 DEF QueueInv
<1>5. CASE PressCenter \/ CloseMenu \/ TurnMenuPage \/ BackToLibrary \/ SelectTocEntry
           \/ TapFontFamily \/ ConfirmRestart \/ TapSleep
  BY <1>4, <1>5 DEF PressCenter, TapMenu, CloseMenu, TurnMenuPage, BackToLibrary, SelectTocEntry,
     TapFontFamily, ConfirmRestart, TapSleep
<1>6. CASE OpenBook \/ DismissError \/ NoInput \/ NothingToPop \/ CpuWork
           \/ ServiceManualRefresh \/ PanelNeedsNothing
  BY <1>4, <1>6 DEF OpenBook, DismissError, NoInput, NothingToPop, CpuWork,
     ServiceManualRefresh, PanelNeedsNothing
<1>7. CASE ParseBook \/ BookParsed \/ ParseFailed \/ LayOutStep \/ PrefetchStep
           \/ DrawLibrary \/ NothingToWorkOn \/ AutomaticSleep \/ DisplayIdle
  BY <1>4, <1>7 DEF ParseBook, BookParsed, ParseFailed, LayOutStep, PrefetchStep,
     DrawLibrary, NothingToWorkOn, AutomaticSleep, DisplayIdle
<1>8. CASE UNCHANGED vars
  BY <1>4, <1>8 DEF vars
<1> QED
  BY <1>1, <1>2, <1>3, <1>5, <1>6, <1>7, <1>8 DEF Next, Input, Work

(* Through every press, tap and pop the queue stays coherent, so pop()     *)
(* always returns a real action.                                           *)
THEOREM QueueStaysCoherent == Spec => []QueueCoherent
<1>1. Init => QueueInv
  BY DEF Init, QueueInv, EmptyQueue, Queue, QueueConsistent, Outranked, FontActions, MaxNextActions
<1>2. QueueInv => QueueCoherent
  BY DEF QueueInv, QueueCoherent
<1> QED
  BY <1>1, <1>2, QueueStep, PTL DEF Spec
-----------------------------------------------------------------------------
(***************************************************************************)
(* The loop and its reader.  The types of the reader's fields follow from  *)
(* ReaderInv, and every method that is called expects the reader at rest:  *)
(* that it is, in every state but those in which a page is being laid out, *)
(* is RunsWhereExpected.                                                   *)
(***************************************************************************)
RunsIn(r, state) ==
  r.active => \/ state = "OpeningBook" /\ ~r.prefetching
              \/ state = "Reading" /\ r.prefetching

RunsWhereExpected == RunsIn(rd, app)

PanelTyped == busy \in BOOLEAN /\ shown \in Texts /\ submitted \in Canvases

ScreenInv ==
  /\ ReaderInv(rd) /\ rd.result = "Idle" /\ RunsWhereExpected
  /\ app \in AppStates /\ layingOut \in BOOLEAN /\ PanelTyped

(* Nor is a page laid out while the book's file is still parsed. *)
ParsesAtRest == app = "OpeningBook" /\ ~layingOut => ~rd.active

LoopInv ==
  /\ ScreenInv /\ ParsesAtRest /\ QueueInv
  /\ manual \in BOOLEAN /\ phase \in Phases

(* Nothing is laid out while a menu, a dialog or the library is shown, nor *)
(* while the user reads and no prefetch runs.                              *)
LEMMA ScreenAtRest ==
  ASSUME ScreenInv, app # "OpeningBook", ~(app = "Reading" /\ rd.prefetching)
  PROVE  AtRest(rd)
BY DEF ScreenInv, RunsWhereExpected, RunsIn, ReaderInv, AtRest, Stopped

LEMMA SubmitTyped ==
  ASSUME PanelTyped, NoSubmit \/ SubmitScreen \/ SubmitCover
  PROVE  PanelTyped'
BY BookFacts DEF PanelTyped, NoSubmit, SubmitScreen, SubmitCover, Submit, Canvases

LEMMA SubmitPageTyped ==
  ASSUME NEW r, r.front \in Texts, SubmitPage(r) \/ Submit(FrontCanvas(r), r.front)
  PROVE  PanelTyped'
<1>1. FrontCanvas(r) \in Canvases
  BY DEF FrontCanvas, Canvases
<1>2. Garbled \in Texts
  BY DEF Garbled, Texts
<1> QED
  BY <1>1, <1>2 DEF PanelTyped, SubmitPage, Submit

LEMMA IdleAgain ==
  ASSUME NEW r, ReaderInv(r)
  PROVE  /\ ReaderInv(Idle(r)) /\ Idle(r).result = "Idle" /\ GoesOn(r, Idle(r))
         /\ Idle(r).front = r.front
<1>1. Keeps(r, Idle(r)) /\ GoesOn(r, Idle(r)) /\ Idle(r).result = "Idle"
  BY IdleKeeps DEF ReaderInv, Resting
<1>2. ReaderInv(Idle(r))
  BY <1>1, KeepsInv
<1>3. Idle(r).front = r.front
  BY DEF Idle, Return, ReaderInv, Resting, Readers
<1> QED
  BY <1>1, <1>2, <1>3

LEMMA AtRestInv ==
  ASSUME NEW r, AtRest(r)
  PROVE  ReaderInv(r)
BY StoppedInv DEF AtRest

(* A stopped reader may be looked at from anywhere. *)
LEMMA StoppedRuns ==
  ASSUME NEW r, NEW s, Stopped(r), GoesOn(r, s), NEW state
  PROVE  RunsIn(s, state)
BY DEF Stopped, GoesOn, RunsIn

LEMMA DrawnOverRests ==
  ASSUME NEW r, AtRest(r)
  PROVE  AtRest(DrawnOver(r)) /\ DrawnOver(r).result = r.result
<1>1. /\ Keeps(r, DrawnOver(r)) /\ GoesOn(r, DrawnOver(r)) /\ DrawnOver(r).result = r.result
  BY OnCanvasKeeps, BookFacts DEF DrawnOver, AtRest, Resting
<1> QED
  BY <1>1, AtRestKeeps

LEMMA DrawnOverUnlessCoverRests ==
  ASSUME NEW r, AtRest(r)
  PROVE  AtRest(DrawnOverUnlessCover(r)) /\ DrawnOverUnlessCover(r).result = r.result
BY DrawnOverRests DEF DrawnOverUnlessCover

LEMMA PresentScreen ==
  ASSUME ScreenInv, NEW r, AtRest(r), Present(r), layingOut' \in BOOLEAN
  PROVE  ScreenInv'
<1>1. ReaderInv(r) /\ Stopped(r) /\ r.front \in Texts
  BY AtRestInv DEF AtRest, Resting, Readers
<1>2. /\ ReaderInv(Idle(r)) /\ Idle(r).result = "Idle" /\ GoesOn(r, Idle(r))
  BY <1>1, IdleAgain
<1>3. RunsIn(Idle(r), "Reading")
  BY <1>1, <1>2, StoppedRuns
<1> QED
  BY <1>1, <1>2, <1>3, SubmitPageTyped DEF Present, ScreenInv, RunsWhereExpected, AppStates

LEMMA ShowErrorScreen ==
  ASSUME ScreenInv, NEW r, AtRest(r), ShowError(r), layingOut' \in BOOLEAN
  PROVE  ScreenInv'
<1>1. AtRest(Idle(r)) /\ Idle(r).result = "Idle"
  BY IdleKeeps, AtRestKeeps DEF AtRest, Resting
<1>2. AtRest(DrawnOver(Idle(r))) /\ DrawnOver(Idle(r)).result = "Idle"
  BY <1>1, DrawnOverRests
<1>3. ReaderInv(DrawnOver(Idle(r))) /\ RunsIn(DrawnOver(Idle(r)), "ErrorDialog")
  BY <1>2, AtRestInv DEF AtRest, Stopped, RunsIn
<1> QED
  BY <1>2, <1>3, SubmitTyped DEF ShowError, ScreenInv, RunsWhereExpected, AppStates

LEMMA LayOutPageScreen ==
  ASSUME ScreenInv, NEW r, ReaderInv(r), ~r.prefetching, LayOutPage(r)
  PROVE  ScreenInv'
<1>1. ReaderInv(Idle(r)) /\ Idle(r).result = "Idle" /\ ~Idle(r).prefetching
  BY IdleAgain DEF GoesOn
<1> QED
  BY <1>1, SubmitTyped DEF LayOutPage, ScreenInv, RunsWhereExpected, RunsIn, AppStates

LEMMA StayScreen ==
  ASSUME ScreenInv, NEW r, ReaderInv(r), RunsIn(r, app), Stay(r)
  PROVE  ScreenInv'
<1>1. ReaderInv(Idle(r)) /\ Idle(r).result = "Idle" /\ GoesOn(r, Idle(r))
  BY IdleAgain
<1>2. RunsIn(Idle(r), app)
  BY <1>1 DEF RunsIn, GoesOn
<1> QED
  BY <1>1, <1>2, SubmitTyped DEF Stay, ScreenInv, RunsWhereExpected

(* A page request that was served is shown, laid out or ignored. *)
LEMMA ServedRests ==
  ASSUME NEW r, Serves(r), r.result # "MoreWork"
  PROVE  AtRest(r) /\ ReaderInv(r) /\ \A state : RunsIn(r, state)
BY DEF Serves, AtRest, ReaderInv, Stopped, RunsIn

LEMMA AfterPageTurnScreen ==
  ASSUME ScreenInv, NEW r, Serves(r), AfterPageTurn(r)
  PROVE  ScreenInv'
<1>0. layingOut \in BOOLEAN
  BY DEF ScreenInv
<1>1. CASE r.result = "Completed"
  <2>1. Present(r) /\ UNCHANGED layingOut
    BY <1>1 DEF AfterPageTurn
  <2> QED
    BY <1>0, <1>1, <2>1, ServedRests, PresentScreen
<1>2. CASE r.result = "MoreWork"
  <2>1. LayOutPage(r)
    BY <1>2 DEF AfterPageTurn
  <2> QED
    BY <2>1, LayOutPageScreen DEF Serves
<1>3. CASE r.result \notin {"Completed", "MoreWork"}
  <2>1. Stay(r)
    BY <1>3 DEF AfterPageTurn
  <2> QED
    BY <1>3, <2>1, ServedRests, StayScreen
<1> QED
  BY <1>1, <1>2, <1>3

LEMMA ExecuteFontScreen ==
  ASSUME ScreenInv, AtRest(rd), NEW a, NEW ok, ExecuteFont(a, ok)
  PROVE  ScreenInv'
<1> DEFINE r == IF a = "IncreaseFont" THEN IncreaseFontSize(rd, ok) ELSE DecreaseFontSize(rd, ok)
<1>0. layingOut \in BOOLEAN
  BY DEF ScreenInv
<1>1. Serves(r)
  BY FontSizeServes
<1>2. \/ Stay(rd)
      \/ r.result = "MoreWork" /\ LayOutPage(r)
      \/ r.result = "Idle" /\ Stay(r)
      \/ r.result = "Failed" /\ ShowError(r) /\ UNCHANGED layingOut
  BY DEF ExecuteFont
<1> HIDE DEF r
<1>3. CASE Stay(rd)
  BY <1>3, StayScreen DEF ScreenInv, RunsWhereExpected
<1>4. CASE r.result = "MoreWork" /\ LayOutPage(r)
  BY <1>1, <1>4, LayOutPageScreen DEF Serves
<1>5. CASE r.result = "Idle" /\ Stay(r)
  BY <1>1, <1>5, ServedRests, StayScreen
<1>6. CASE r.result = "Failed" /\ ShowError(r) /\ UNCHANGED layingOut
  BY <1>0, <1>1, <1>6, ServedRests, ShowErrorScreen
<1> QED
  BY <1>2, <1>3, <1>4, <1>5, <1>6

LEMMA ExecuteMenuScreen ==
  ASSUME ScreenInv, AtRest(rd), ExecuteMenu
  PROVE  ScreenInv'
<1> DEFINE i == InvalidateReadyPrefetch(rd)
<1> DEFINE r == DrawnOverUnlessCover(i)
<1>1. AtRest(i) /\ i.result = "Idle"
  BY InvalidateKeeps, AtRestKeeps DEF AtRest, Resting, ScreenInv
<1> HIDE DEF i
<1>2. AtRest(r) /\ r.result = "Idle"
  BY <1>1, DrawnOverUnlessCoverRests
<1>3. rd' = r /\ app' = "ReaderMenu" /\ SubmitCover /\ UNCHANGED layingOut
  BY DEF ExecuteMenu, i
<1> HIDE DEF r
<1>4. ReaderInv(r) /\ RunsIn(r, "ReaderMenu")
  BY <1>2, AtRestInv DEF AtRest, Stopped, RunsIn
<1> QED
  BY <1>2, <1>3, <1>4, SubmitTyped DEF ScreenInv, RunsWhereExpected, AppStates

LEMMA ExecuteScreen ==
  ASSUME ScreenInv, AtRest(rd), NEW a, NEW ok, Execute(a, ok)
  PROVE  ScreenInv'
<1>1. CASE a = "OpenMenu"
  BY <1>1, ExecuteMenuScreen DEF Execute
<1>2. CASE a = "PreviousPage"
  <2>1. AfterPageTurn(RequestPreviousPage(rd, ok))
    BY <1>2 DEF Execute
  <2> QED
    BY <2>1, RequestPreviousPageServes, AfterPageTurnScreen
<1>3. CASE a = "NextPage"
  <2>1. AfterPageTurn(RequestNextPage(rd, ok))
    BY <1>3 DEF Execute
  <2> QED
    BY <2>1, RequestNextPageServes, AfterPageTurnScreen
<1>4. CASE a \notin {"OpenMenu", "PreviousPage", "NextPage"}
  <2>1. ExecuteFont(a, ok)
    BY <1>4 DEF Execute
  <2> QED
    BY <2>1, ExecuteFontScreen
<1> QED
  BY <1>1, <1>2, <1>3, <1>4

LEMMA HandleReaderActionScreen ==
  ASSUME ScreenInv, app = "Reading", NEW a, NEW ok, HandleReaderAction(a, ok)
  PROVE  ScreenInv'
<1>1. CASE busy \/ rd.prefetching
  <2>1. rd' \in {rd, CancelPrefetch(rd)} /\ UNCHANGED <<app, layingOut>> /\ NoSubmit
    BY <1>1 DEF HandleReaderAction, QueueAction
  <2>2. /\ Keeps(rd, CancelPrefetch(rd)) /\ GoesOn(rd, CancelPrefetch(rd))
        /\ CancelPrefetch(rd).result = "Idle"
    BY CancelKeeps DEF ScreenInv, ReaderInv, Resting
  <2>3. ReaderInv(CancelPrefetch(rd)) /\ RunsIn(CancelPrefetch(rd), app)
    BY <2>2, KeepsInv DEF ScreenInv, RunsWhereExpected, RunsIn, GoesOn
  <2> QED
    BY <2>1, <2>2, <2>3, SubmitTyped DEF ScreenInv, RunsWhereExpected
<1>2. CASE ~(busy \/ rd.prefetching)
  <2>1. Execute(a, ok)
    BY <1>2 DEF HandleReaderAction
  <2>2. AtRest(rd)
    BY <1>2, ScreenAtRest
  <2> QED
    BY <2>1, <2>2, ExecuteScreen
<1> QED
  BY <1>1, <1>2

LEMMA SleepScreen ==
  ASSUME ScreenInv, AtRest(rd), SleepAndWake
  PROVE  ScreenInv'
<1> DEFINE s == IF app = "Library" THEN DrawnOver(rd) ELSE DrawnOverUnlessCover(rd)
<1> DEFINE w == RedrawCurrentPage(s)
<1>0. layingOut \in BOOLEAN /\ rd.result = "Idle"
  BY DEF ScreenInv
<1>1. AtRest(s) /\ s.result = "Idle"
  BY <1>0, DrawnOverRests, DrawnOverUnlessCoverRests
<1>2. /\ UNCHANGED layingOut
      /\ \/ rd' = Idle(w) /\ app' = "Reading" /\ Submit(FrontCanvas(w), w.front)
         \/ rd' = DrawnOver(s) /\ app' = "Library" /\ SubmitScreen
  BY DEF SleepAndWake
<1> HIDE DEF s
<1>3. CASE rd' = Idle(w) /\ app' = "Reading" /\ Submit(FrontCanvas(w), w.front)
  <2>1. AtRest(w)
    BY <1>1, RedrawRests
  <2> HIDE DEF w
  <2>2. ReaderInv(w) /\ Stopped(w) /\ w.front \in Texts
    BY <2>1, AtRestInv DEF AtRest, Resting, Readers
  <2>3. ReaderInv(Idle(w)) /\ Idle(w).result = "Idle" /\ RunsIn(Idle(w), "Reading")
    BY <2>2, IdleAgain, StoppedRuns
  <2> QED
    BY <1>0, <1>2, <1>3, <2>2, <2>3, SubmitPageTyped
       DEF ScreenInv, RunsWhereExpected, AppStates
<1>4. CASE rd' = DrawnOver(s) /\ app' = "Library" /\ SubmitScreen
  <2>1. AtRest(DrawnOver(s)) /\ DrawnOver(s).result = "Idle"
    BY <1>1, DrawnOverRests
  <2>2. ReaderInv(DrawnOver(s)) /\ RunsIn(DrawnOver(s), "Library")
    BY <2>1, AtRestInv DEF AtRest, Stopped, RunsIn
  <2> QED
    BY <1>0, <1>2, <1>4, <2>1, <2>2, SubmitTyped
       DEF ScreenInv, RunsWhereExpected, AppStates
<1> QED
  BY <1>2, <1>3, <1>4

LEMMA CloseMenuScreen ==
  ASSUME ScreenInv, CloseMenu
  PROVE  ScreenInv'
<1> DEFINE r == RedrawCurrentPage(rd)
<1>1. /\ app = "ReaderMenu" /\ UNCHANGED layingOut
      /\ Present(r) \/ (rd' = rd /\ app' = "Reading" /\ NoSubmit)
  BY DEF CloseMenu, TapMenu
<1>2. AtRest(rd) /\ AtRest(r)
  BY <1>1, ScreenAtRest, RedrawRests
<1> HIDE DEF r
<1>3. CASE Present(r)
  BY <1>1, <1>2, <1>3, PresentScreen DEF ScreenInv
<1>4. CASE rd' = rd /\ app' = "Reading" /\ NoSubmit
  BY <1>1, <1>2, <1>4, SubmitTyped
     DEF AtRest, Stopped, ScreenInv, RunsWhereExpected, RunsIn, AppStates
<1> QED
  BY <1>1, <1>3, <1>4

LEMMA StartedScreen ==
  ASSUME ScreenInv, NEW r, Starts(r),
         IF r.result = "Failed" THEN ShowError(r) /\ UNCHANGED layingOut ELSE LayOutPage(r)
  PROVE  ScreenInv'
<1>1. CASE r.result = "Failed"
  <2>1. AtRest(r)
    BY <1>1 DEF Starts, ReaderInv, AtRest
  <2> QED
    BY <1>1, <2>1, ShowErrorScreen DEF ScreenInv
<1>2. CASE r.result # "Failed"
  BY <1>2, LayOutPageScreen DEF Starts
<1> QED
  BY <1>1, <1>2

LEMMA StartedOrStayScreen ==
  ASSUME ScreenInv, NEW r, Starts(r), IF r.result = "Failed" THEN Stay(r) ELSE LayOutPage(r)
  PROVE  ScreenInv'
<1>1. CASE r.result = "Failed"
  BY <1>1, StayScreen DEF Starts, Stopped, RunsIn
<1>2. CASE r.result # "Failed"
  BY <1>2, LayOutPageScreen DEF Starts
<1> QED
  BY <1>1, <1>2

LEMMA OpenBookScreen ==
  ASSUME ScreenInv, OpenBook
  PROVE  ScreenInv'
<1> DEFINE d == DrawnOver(rd)
<1> DEFINE r == [d EXCEPT !.entryOpen = FALSE]
<1>1. /\ app = "Library" /\ rd' = r /\ app' = "OpeningBook" /\ layingOut' = FALSE
      /\ SubmitScreen
  BY DEF OpenBook
<1>2. AtRest(d) /\ d.result = "Idle"
  BY <1>1, ScreenAtRest, DrawnOverRests DEF ScreenInv
<1> HIDE DEF d
<1>3. r \in Readers
  BY <1>2 DEF AtRest, Resting, Readers
<1>4. Keeps(d, r) /\ GoesOn(d, r) /\ r.result = "Idle"
  BY <1>2, <1>3 DEF AtRest, Resting, Readers, Keeps, GoesOn
<1> HIDE DEF r
<1>5. AtRest(r)
  BY <1>2, <1>4, AtRestKeeps
<1>6. ReaderInv(r) /\ ~r.active
  BY <1>5, AtRestInv DEF AtRest, Stopped
<1> QED
  BY <1>1, <1>4, <1>6, SubmitTyped DEF ScreenInv, RunsWhereExpected, RunsIn, AppStates

(* tick()'s work on the book: parsing, laying a page out, prefetching *)
LEMMA BookParsedScreen ==
  ASSUME ScreenInv, BookParsed
  PROVE  ScreenInv'
<1>1. rd \in Readers
  BY DEF ScreenInv, ReaderInv, Resting
<1>2. \A r, ok : r \in Readers => Starts(Start(r, ok))
  BY StartStarts
<1>3. ASSUME NEW s \in SavedStates, NEW okSaved, NEW ok
      PROVE  Starts(StartReaderWithSavedState(rd, s, okSaved, ok))
  <2> DEFINE restored == StartAt(rd, s.anchor, s.size, s.family, s.history, okSaved)
  <2>1. s.anchor \in Anchors /\ s.size \in Sizes /\ s.family \in Families /\ s.history \in Seq(Anchors)
    BY LoopAssumption
  <2>2. Starts(restored)
    BY <1>1, <2>1, StartAtStarts
  <2>3. StartReaderWithSavedState(rd, s, okSaved, ok) \in {Start(restored, ok), restored}
    BY DEF StartReaderWithSavedState
  <2> HIDE DEF restored
  <2>4. restored \in Readers
    BY <2>2 DEF Starts, ReaderInv, Resting
  <2> QED
    BY <1>2, <2>2, <2>3, <2>4
<1>4. PICK r : /\ Starts(r)
               /\ IF r.result = "Failed" THEN ShowError(r) /\ UNCHANGED layingOut ELSE LayOutPage(r)
  BY <1>1, <1>2, <1>3 DEF BookParsed
<1> QED
  BY <1>4, StartedScreen

LEMMA LayOutStepScreen ==
  ASSUME ScreenInv, LayOutStep
  PROVE  ScreenInv'
<1>1. PICK ok : LET r == ProcessNextChunk(rd, ok)
                IN  CASE r.result = "Completed" -> Present(r) /\ UNCHANGED layingOut
                      [] r.result = "Failed"    -> ShowError(r) /\ UNCHANGED layingOut
                      [] OTHER                  -> Stay(r)
  BY DEF LayOutStep
<1> DEFINE r == ProcessNextChunk(rd, ok)
<1>2. Steps(rd, r)
  BY ProcessNextChunkSteps DEF ScreenInv
<1>3. CASE r.result = "Completed"
  <2>1. Present(r) /\ UNCHANGED layingOut
    BY <1>1, <1>3
  <2> HIDE DEF r
  <2>2. AtRest(r)
    BY <1>2, <1>3 DEF Steps, ReaderInv, AtRest
  <2> QED
    BY <2>1, <2>2, PresentScreen DEF ScreenInv
<1>4. CASE r.result = "Failed"
  <2>1. ShowError(r) /\ UNCHANGED layingOut
    BY <1>1, <1>4
  <2> HIDE DEF r
  <2>2. AtRest(r)
    BY <1>2, <1>4 DEF Steps, ReaderInv, AtRest
  <2> QED
    BY <2>1, <2>2, ShowErrorScreen DEF ScreenInv
<1>5. CASE r.result \notin {"Completed", "Failed"}
  <2>1. Stay(r) /\ app = "OpeningBook"
    BY <1>1, <1>5 DEF LayOutStep
  <2>2. ~rd.prefetching
    BY <2>1 DEF ScreenInv, RunsWhereExpected, RunsIn, ReaderInv
  <2> HIDE DEF r
  <2>3. ReaderInv(r) /\ RunsIn(r, app)
    BY <1>2, <2>1, <2>2 DEF Steps, RunsIn, GoesOn, Stopped
  <2> QED
    BY <2>1, <2>3, StayScreen
<1> QED
  BY <1>3, <1>4, <1>5

LEMMA PrefetchStepScreen ==
  ASSUME ScreenInv, PrefetchStep
  PROVE  ScreenInv'
<1>1. PICK asked, ok :
        LET r == IF rd.prefetching THEN rd ELSE RequestPrefetch(rd, asked)
        IN  rd' = Idle(IF r.prefetching THEN ProcessNextChunk(r, ok) ELSE r)
  BY DEF PrefetchStep
<1>2. app = "Reading" /\ UNCHANGED <<app, layingOut>> /\ NoSubmit
  BY DEF PrefetchStep
<1> DEFINE r == IF rd.prefetching THEN rd ELSE RequestPrefetch(rd, asked)
<1> DEFINE s == IF r.prefetching THEN ProcessNextChunk(r, ok) ELSE r
<1>3. rd' = Idle(s)
  BY <1>1
<1>4. ReaderInv(r) /\ (r.active => r.prefetching)
  <2>1. CASE rd.prefetching
    BY <2>1 DEF ScreenInv
  <2>2. CASE ~rd.prefetching
    <3>1. AtRest(rd)
      BY <1>2, <2>2, ScreenAtRest
    <3> QED
      BY <2>2, <3>1, RequestPrefetchInv
  <2> QED
    BY <2>1, <2>2
<1> HIDE DEF r
<1>5. ReaderInv(s) /\ (s.active => s.prefetching)
  <2>1. CASE r.prefetching
    <3>1. Steps(r, ProcessNextChunk(r, ok))
      BY <1>4, ProcessNextChunkSteps
    <3> QED
      BY <1>4, <2>1, <3>1 DEF Steps, GoesOn, Stopped
  <2>2. CASE ~r.prefetching
    BY <1>4, <2>2
  <2> QED
    BY <2>1, <2>2
<1> HIDE DEF s
<1>6. ReaderInv(Idle(s)) /\ Idle(s).result = "Idle" /\ RunsIn(Idle(s), "Reading")
  BY <1>5, IdleAgain DEF GoesOn, RunsIn
<1> QED
  BY <1>2, <1>3, <1>6, SubmitTyped DEF ScreenInv, RunsWhereExpected

LEMMA CpuWorkScreen ==
  ASSUME ScreenInv, CpuWork
  PROVE  ScreenInv'
<1> DEFINE once == ProcessCpuOnlyWork(rd)
<1>1. rd' \in {once, ProcessCpuOnlyWork(once)} /\ UNCHANGED <<app, layingOut>> /\ NoSubmit
  BY DEF CpuWork
<1>2. ASSUME NEW r, ReaderInv(r), RunsIn(r, app)
      PROVE  /\ ReaderInv(ProcessCpuOnlyWork(r)) /\ RunsIn(ProcessCpuOnlyWork(r), app)
             /\ ProcessCpuOnlyWork(r).result = "Idle"
  <2>1. PICK t : ProcessCpuOnlyWork(r) = Idle(t) /\ Steps(r, t)
    BY <1>2, ProcessBufferedInputSteps, ContinueLayoutSteps DEF ProcessCpuOnlyWork
  <2>2. Idle(t).result = "Idle"
    BY <2>1, IdleAgain DEF Steps
  <2>3. ReaderInv(ProcessCpuOnlyWork(r))
    BY <1>2, ProcessCpuOnlyWorkSteps
  <2>4. RunsIn(ProcessCpuOnlyWork(r), app)
    BY <1>2, ProcessCpuOnlyWorkSteps DEF RunsIn, GoesOn, Stopped
  <2> QED
    BY <2>1, <2>2, <2>3, <2>4
<1> HIDE DEF once
<1>3. ReaderInv(once) /\ RunsIn(once, app) /\ once.result = "Idle"
  BY <1>2 DEF ScreenInv, RunsWhereExpected, once
<1>4. ReaderInv(rd') /\ RunsIn(rd', app) /\ rd'.result = "Idle"
  BY <1>1, <1>2, <1>3
<1> QED
  BY <1>1, <1>4, SubmitTyped DEF ScreenInv, RunsWhereExpected
-----------------------------------------------------------------------------
LEMMA ScreenStep == ScreenInv /\ ParsesAtRest /\ [Next]_vars => ScreenInv'
<1> SUFFICES ASSUME ScreenInv, ParsesAtRest, [Next]_vars PROVE ScreenInv'
  OBVIOUS
<1>1. CASE UNCHANGED <<rd, app, layingOut>> /\ NoSubmit
  BY <1>1, SubmitTyped DEF ScreenInv, RunsWhereExpected
<1>2. CASE Lever
  BY <1>2, HandleReaderActionScreen DEF Lever
<1>3. CASE TouchPage
  BY <1>3, HandleReaderActionScreen DEF TouchPage
<1>4. CASE PopAction
  <2>1. AtRest(rd)
    BY <1>4, ScreenAtRest DEF PopAction
  <2> QED
    BY <1>4, <2>1, ExecuteScreen DEF PopAction
<1>5. CASE CloseMenu
  BY <1>5, CloseMenuScreen
<1>6. CASE TurnMenuPage \/ BackToLibrary
  <2>1. /\ rd' = DrawnOver(rd) /\ app' \in {"ReaderMenu", "Library"} /\ app = "ReaderMenu"
        /\ SubmitScreen /\ UNCHANGED layingOut
    BY <1>6 DEF TurnMenuPage, BackToLibrary, TapMenu
  <2>2. AtRest(DrawnOver(rd)) /\ DrawnOver(rd).result = "Idle"
    BY <2>1, ScreenAtRest, DrawnOverRests DEF ScreenInv
  <2>3. ReaderInv(DrawnOver(rd)) /\ \A state : RunsIn(DrawnOver(rd), state)
    BY <2>2, AtRestInv DEF AtRest, Stopped, RunsIn
  <2> QED
    BY <2>1, <2>2, <2>3, SubmitTyped DEF ScreenInv, RunsWhereExpected, AppStates
<1>7. CASE SelectTocEntry
  <2>1. \A c, ok : c \in Chapters => Starts(StartAtSpine(rd, c, ok))
    <3> SUFFICES ASSUME NEW c \in Chapters, NEW ok PROVE Starts(StartAtSpine(rd, c, ok))
      OBVIOUS
    <3>1. rd \in Readers /\ rd.size \in Sizes
      BY DEF ScreenInv, ReaderInv, Resting, Readers
    <3>2. StartOf(c) \in Anchors /\ Compact \in Families /\ <<>> \in Seq(Anchors)
      BY BookFacts DEF StartOf, Anchors, Compact, Families
    <3> QED
      BY <3>1, <3>2, StartAtStarts DEF StartAtSpine
  <2> QED
    BY <1>7, <2>1, StartedOrStayScreen DEF SelectTocEntry
<1>8. CASE TapFontFamily
  <2>1. AtRest(rd)
    BY <1>8, ScreenAtRest DEF TapFontFamily, TapMenu
  <2>2. PICK ok : LET r == CycleFontFamily(rd, ok)
                  IN  IF r.result = "MoreWork" THEN LayOutPage(r) ELSE Stay(r)
    BY <1>8 DEF TapFontFamily
  <2> DEFINE r == CycleFontFamily(rd, ok)
  <2>3. Serves(r)
    BY <2>1, CycleFontFamilyServes
  <2>4. IF r.result = "MoreWork" THEN LayOutPage(r) ELSE Stay(r)
    BY <2>2
  <2> HIDE DEF r
  <2>5. CASE r.result = "MoreWork"
    BY <2>3, <2>4, <2>5, LayOutPageScreen DEF Serves
  <2>6. CASE r.result # "MoreWork"
    BY <2>3, <2>4, <2>6, ServedRests, StayScreen
  <2> QED
    BY <2>5, <2>6
<1>9. CASE ConfirmRestart
  <2>1. \A ok : Starts(Start(rd, ok))
    BY StartStarts DEF ScreenInv, ReaderInv, Resting
  <2> QED
    BY <1>9, <2>1, StartedScreen DEF ConfirmRestart
<1>10. CASE TapSleep
  <2>1. AtRest(rd)
    BY <1>10, ScreenAtRest DEF TapSleep, TapMenu
  <2> QED
    BY <1>10, <2>1, SleepScreen DEF TapSleep
<1>11. CASE AutomaticSleep
  <2>1. AtRest(rd)
    BY <1>11, ScreenAtRest DEF AutomaticSleep
  <2> QED
    BY <1>11, <2>1, SleepScreen DEF AutomaticSleep
<1>12. CASE OpenBook
  BY <1>12, OpenBookScreen
<1>13. CASE DismissError
  BY <1>13, SubmitTyped
     DEF DismissError, ScreenInv, RunsWhereExpected, RunsIn, AppStates
<1>14. CASE CpuWork
  BY <1>14, CpuWorkScreen
<1>15. CASE ServiceManualRefresh
  <2>1. rd.front \in Texts /\ rd.back \in Texts
    BY DEF ScreenInv, ReaderInv, Resting, Readers
  <2> QED
    BY <1>15, <2>1, SubmitPageTyped
       DEF ServiceManualRefresh, Submit, PanelTyped, Canvases, ScreenInv, RunsWhereExpected
<1>16. CASE ParseBook
  BY <1>16, StayScreen DEF ParseBook, ScreenInv, RunsWhereExpected
<1>17. CASE BookParsed
  BY <1>17, BookParsedScreen
<1>18. CASE ParseFailed
  <2>1. AtRest(rd)
    BY <1>18 DEF ParseFailed, Parsing, ParsesAtRest, ScreenInv, ReaderInv, AtRest, Stopped
  <2> QED
    BY <1>18, <2>1, ShowErrorScreen DEF ParseFailed, ScreenInv
<1>19. CASE LayOutStep
  BY <1>19, LayOutStepScreen
<1>20. CASE PrefetchStep
  BY <1>20, PrefetchStepScreen
<1>21. CASE DisplayIdle
  BY <1>21 DEF DisplayIdle, PanelTyped, ScreenInv, RunsWhereExpected
<1>22. CASE PressCenter \/ NoInput \/ NothingToPop \/ PanelNeedsNothing \/ NothingToWorkOn
  BY <1>1, <1>22 DEF PressCenter, NoInput, NothingToPop, PanelNeedsNothing, NothingToWorkOn
<1>23. CASE UNCHANGED vars
  BY <1>1, <1>23 DEF vars, NoSubmit
<1>24. CASE DrawLibrary
  <2>1. /\ app = "Library" /\ rd' \in {rd, DrawnOver(rd)} /\ UNCHANGED <<app, layingOut>>
        /\ SubmitScreen \/ Submit("image", Covers)
    BY <1>24 DEF DrawLibrary
  <2>2. AtRest(rd') /\ rd'.result = "Idle"
    BY <2>1, ScreenAtRest, DrawnOverRests DEF ScreenInv
  <2>3. ReaderInv(rd') /\ \A state : RunsIn(rd', state)
    BY <2>2, AtRestInv DEF AtRest, Stopped, RunsIn
  <2>4. PanelTyped'
    <3>1. CASE SubmitScreen
      BY <3>1, SubmitTyped DEF ScreenInv
    <3>2. CASE Submit("image", Covers)
      <4>1. Covers \in Texts /\ "image" \in Canvases
        BY DEF Covers, Texts, Canvases
      <4> QED
        BY <3>2, <4>1 DEF PanelTyped, Submit
    <3> QED
      BY <2>1, <3>1, <3>2
  <2> QED
    BY <2>1, <2>2, <2>3, <2>4 DEF ScreenInv, RunsWhereExpected
<1> QED
  BY <1>2, <1>3, <1>4, <1>5, <1>6, <1>7, <1>8, <1>9, <1>10, <1>11, <1>12, <1>13, <1>14, <1>15,
     <1>16, <1>17, <1>18, <1>19, <1>20, <1>21, <1>22, <1>23, <1>24 DEF Next, Input, Work

LEMMA ParsingStep == ScreenInv /\ ParsesAtRest /\ [Next]_vars => ParsesAtRest'
<1> SUFFICES ASSUME ScreenInv, ParsesAtRest, [Next]_vars, app' = "OpeningBook", ~layingOut'
             PROVE  ~rd'.active
  BY DEF ParsesAtRest
<1>1. CASE UNCHANGED <<rd, app, layingOut>>
  BY <1>1 DEF ParsesAtRest
<1>2. ASSUME NEW r, Present(r) \/ ShowError(r) \/ LayOutPage(r) \/ (app # "OpeningBook" /\ Stay(r))
      PROVE  FALSE
  BY <1>2 DEF Present, ShowError, LayOutPage, Stay
<1>3. ASSUME NEW a, NEW ok, app = "Reading", Execute(a, ok)
      PROVE  FALSE
  BY <1>2, <1>3 DEF Execute, ExecuteMenu, AfterPageTurn, ExecuteFont
<1>4. ASSUME NEW a, NEW ok, app = "Reading", HandleReaderAction(a, ok)
      PROVE  FALSE
  BY <1>3, <1>4 DEF HandleReaderAction, QueueAction
<1>5. CASE Lever \/ TouchPage \/ PopAction
  BY <1>3, <1>4, <1>5 DEF Lever, TouchPage, PopAction
<1>6. CASE CloseMenu \/ TurnMenuPage \/ BackToLibrary \/ SelectTocEntry \/ TapFontFamily
           \/ ConfirmRestart
  BY <1>2, <1>6 DEF CloseMenu, TurnMenuPage, BackToLibrary, SelectTocEntry, TapFontFamily,
     ConfirmRestart, TapMenu
<1>7. CASE TapSleep \/ AutomaticSleep
  BY <1>2, <1>7 DEF TapSleep, AutomaticSleep, SleepAndWake
<1>8. CASE OpenBook
  <2>1. AtRest(rd)
    BY <1>8, ScreenAtRest DEF OpenBook
  <2>2. AtRest(DrawnOver(rd))
    BY <2>1, DrawnOverRests
  <2> QED
    BY <1>8, <2>2 DEF OpenBook, AtRest, Stopped, Resting, Readers
<1>9. CASE CpuWork
  <2>1. ~rd.active /\ rd' \in {ProcessCpuOnlyWork(rd), ProcessCpuOnlyWork(ProcessCpuOnlyWork(rd))}
    BY <1>9 DEF CpuWork, ParsesAtRest
  <2>2. ASSUME NEW r, ReaderInv(r), ~r.active
        PROVE  ReaderInv(ProcessCpuOnlyWork(r)) /\ ~ProcessCpuOnlyWork(r).active
    BY <2>2, ProcessCpuOnlyWorkSteps DEF GoesOn, Stopped
  <2> QED
    BY <2>1, <2>2 DEF ScreenInv
<1>10. CASE ParseBook
  BY <1>10, IdleAgain DEF ParseBook, Parsing, Stay, GoesOn, ParsesAtRest, ScreenInv
<1>11. CASE BookParsed \/ ParseFailed
  BY <1>2, <1>11 DEF BookParsed, ParseFailed
<1>12. CASE LayOutStep
  BY <1>2, <1>12 DEF LayOutStep, Stay
<1>13. CASE PrefetchStep \/ DismissError \/ DrawLibrary
  BY <1>13 DEF PrefetchStep, DismissError, DrawLibrary
<1>14. CASE ServiceManualRefresh \/ DisplayIdle
  BY <1>1, <1>14 DEF ServiceManualRefresh, DisplayIdle
<1>15. CASE PressCenter \/ NoInput \/ NothingToPop \/ PanelNeedsNothing \/ NothingToWorkOn
  BY <1>1, <1>15 DEF PressCenter, NoInput, NothingToPop, PanelNeedsNothing, NothingToWorkOn
<1>16. CASE UNCHANGED vars
  BY <1>1, <1>16 DEF vars
<1> QED
  BY <1>5, <1>6, <1>7, <1>8, <1>9, <1>10, <1>11, <1>12, <1>13, <1>14, <1>15, <1>16
     DEF Next, Input, Work

(* tick()'s phases follow one another; only a press and a refresh touch    *)
(* the manual refresh that is pending.                                     *)
LEMMA PhaseStep ==
  manual \in BOOLEAN /\ phase \in Phases /\ [Next]_vars => manual' \in BOOLEAN /\ phase' \in Phases
<1> SUFFICES ASSUME manual \in BOOLEAN, phase \in Phases, [Next]_vars
             PROVE  manual' \in BOOLEAN /\ phase' \in Phases
  OBVIOUS
<1>1. CASE Lever \/ PressCenter \/ TouchPage \/ OpenBook \/ DismissError \/ NoInput
  BY <1>1 DEF Lever, PressCenter, TouchPage, OpenBook, DismissError, NoInput, At, AtTouch, Phases
<1>2. CASE CloseMenu \/ TurnMenuPage \/ BackToLibrary \/ SelectTocEntry \/ TapFontFamily
           \/ ConfirmRestart \/ TapSleep
  BY <1>2 DEF CloseMenu, TurnMenuPage, BackToLibrary, SelectTocEntry, TapFontFamily,
     ConfirmRestart, TapSleep, TapMenu, AtTouch, Phases
<1>3. CASE PopAction \/ NothingToPop \/ CpuWork \/ ServiceManualRefresh \/ PanelNeedsNothing
  BY <1>3 DEF PopAction, NothingToPop, CpuWork, ServiceManualRefresh, PanelNeedsNothing, At, Phases
<1>4. CASE ParseBook \/ BookParsed \/ ParseFailed \/ LayOutStep \/ PrefetchStep \/ DrawLibrary
           \/ NothingToWorkOn
  BY <1>4 DEF ParseBook, BookParsed, ParseFailed, LayOutStep, PrefetchStep, DrawLibrary,
     NothingToWorkOn, Parsing, At, Phases
<1>5. CASE AutomaticSleep \/ DisplayIdle \/ UNCHANGED vars
  BY <1>5 DEF AutomaticSleep, DisplayIdle, vars, At, Phases
<1> QED
  BY <1>1, <1>2, <1>3, <1>4, <1>5 DEF Next, Input, Work

LEMMA NewReaderInv == ReaderInv(NewReader) /\ Stopped(NewReader) /\ NewReader.result = "Idle"
<1> DEFINE c == Cleared(1, Compact)
<1>1. c \in Readers
  BY ClearedTyped, BookFacts DEF Compact, Families
<1>2. /\ c.texts = <<>> /\ c.anchors = <<>> /\ c.current = 0 /\ c.rebuilding = NoPage
      /\ c.pend = 0 /\ c.fed = 0 /\ c.offset = 0 /\ c.chapter = 0 /\ c.work = NoText
      /\ c.active = FALSE /\ c.prefetching = FALSE /\ c.result = "Idle"
  BY DEF Cleared
<1> HIDE DEF c
<1>3. NewReader = [c EXCEPT !.chapterEnded = FALSE]
  BY DEF NewReader, c
<1>4. NewReader \in Readers
  BY <1>1, <1>3 DEF Readers
<1>5. /\ NewReader.texts = c.texts /\ NewReader.anchors = c.anchors
      /\ NewReader.current = c.current /\ NewReader.rebuilding = c.rebuilding
      /\ NewReader.pend = c.pend /\ NewReader.fed = c.fed /\ NewReader.offset = c.offset
      /\ NewReader.chapter = c.chapter /\ NewReader.active = c.active
      /\ NewReader.prefetching = c.prefetching /\ NewReader.result = c.result
  BY <1>1, <1>3 DEF Readers
<1>6. 0 \in Chapters /\ TextLength[0] \in Nat
  BY BookFacts, BookAssumption DEF Chapters
<1>7. Resting(NewReader) /\ Stopped(NewReader)
  BY <1>2, <1>4, <1>5, <1>6, EmptySeq DEF Resting, CacheInv, TextInOrder, Stopped
<1> QED
  BY <1>2, <1>5, <1>7, StoppedInv

LEMMA InitLoopInv == Init => LoopInv
<1> SUFFICES ASSUME Init PROVE LoopInv
  OBVIOUS
<1>1. AtRest(rd) /\ rd.result = "Idle"
  <2>1. AtRest(NewReader) /\ NewReader.result = "Idle"
    BY NewReaderInv DEF ReaderInv, AtRest
  <2>2. /\ Keeps(NewReader, rd) /\ GoesOn(NewReader, rd) /\ rd.result = "Idle"
    BY <2>1, OnCanvasKeeps, BookFacts DEF Init, AtRest, Resting
  <2> QED
    BY <2>1, <2>2, AtRestKeeps
<1>2. ReaderInv(rd) /\ ~rd.active
  BY <1>1, AtRestInv DEF AtRest, Stopped
<1>3. PanelTyped
  BY BookFacts DEF Init, PanelTyped, Canvases
<1>4. QueueInv
  BY DEF Init, QueueInv, EmptyQueue, Queue, QueueConsistent, Outranked, FontActions, MaxNextActions
<1> QED
  BY <1>1, <1>2, <1>3, <1>4
     DEF Init, LoopInv, ScreenInv, RunsWhereExpected, RunsIn, ParsesAtRest, AppStates, Phases

LEMMA LoopInvHolds == Spec => []LoopInv
<1>1. LoopInv /\ [Next]_vars => LoopInv'
  BY ScreenStep, ParsingStep, QueueStep, PhaseStep DEF LoopInv
<1> QED
  BY <1>1, InitLoopInv, PTL DEF Spec

(* Every field of the reader and of the loop keeps to its values, for any  *)
(* book and fonts.                                                         *)
THEOREM LoopTypeOK == Spec => []TypeOK
<1>1. LoopInv => TypeOK
  BY DEF LoopInv, ScreenInv, PanelTyped, ReaderInv, Resting, QueueInv, TypeOK
<1> QED
  BY <1>1, LoopInvHolds, PTL

(* Whatever is pressed, tapped, cancelled, rebuilt, evicted or refused by  *)
(* the archive, the reader's pages and anchors have one length and         *)
(* currentPage_ is inside it.                                              *)
THEOREM PagesAndAnchorsAgree == Spec => []CacheValid
<1>1. LoopInv => CacheValid
  BY RestingValid DEF LoopInv, ScreenInv, ReaderInv, CacheValid
<1> QED
  BY <1>1, LoopInvHolds, PTL

(* Pages are laid out only while a book is open, and prefetched only while *)
(* it is read: no menu, dialog or library ever runs beside a layout.       *)
THEOREM ReaderRests == Spec => []ReaderRestsOutsideBook
<1>1. LoopInv => ReaderRestsOutsideBook
  BY DEF LoopInv, ScreenInv, ReaderInv, RunsWhereExpected, RunsIn, ReaderRestsOutsideBook, InBook
<1> QED
  BY <1>1, LoopInvHolds, PTL
=============================================================================
