--------------------------- MODULE LibraryProofs ---------------------------
(***************************************************************************)
(* Proofs about the library, for any card, folders, batches and cache of   *)
(* thumbnails: what is listed, shown, looked at and come back to, while    *)
(* the portal changes the card and holds its bus.                          *)
(***************************************************************************)
EXTENDS Library, WellFoundedInduction, FiniteSetTheorems, SequenceTheorems, TLAPS

-----------------------------------------------------------------------------
(* Sets listed in an order, and parts of sequences                         *)
StrictOrder(S, R) ==
  /\ \A x \in S : <<x, x>> \notin R
  /\ \A x \in S, y \in S : x = y \/ <<x, y>> \in R \/ <<y, x>> \in R
  /\ \A x \in S, y \in S, z \in S : <<x, y>> \in R /\ <<y, z>> \in R => <<x, z>> \in R

LEMMA RankedLists ==
  ASSUME NEW S, IsFiniteSet(S), NEW R, StrictOrder(S, R)
  PROVE  /\ Cardinality(S) \in Nat
         /\ Ranked(S, R) \in [1 .. Cardinality(S) -> S]
         /\ \A x \in S : \E k \in 1 .. Cardinality(S) : Ranked(S, R)[k] = x
         /\ \A k \in 1 .. Cardinality(S), l \in 1 .. Cardinality(S) :
              Ranked(S, R)[k] = Ranked(S, R)[l] => k = l
         /\ \A k \in 1 .. Cardinality(S), l \in 1 .. Cardinality(S) :
              k < l => <<Ranked(S, R)[k], Ranked(S, R)[l]>> \in R
<1> DEFINE n == Cardinality(S)
           below(x) == {y \in S : <<y, x>> \in R}
           rank == [x \in S |-> Cardinality(below(x)) + 1]
<1>1. n \in Nat
  BY FS_CardinalityType
<1>2. ASSUME NEW x \in S
      PROVE  IsFiniteSet(below(x)) /\ Cardinality(below(x)) \in Nat /\ Cardinality(below(x)) < n
  <2>1. below(x) \in SUBSET S /\ x \notin below(x)
    BY DEF StrictOrder
  <2> HIDE DEF below
  <2>2. IsFiniteSet(below(x)) /\ Cardinality(below(x)) <= n /\ Cardinality(below(x)) # n
    BY <2>1, FS_Subset
  <2>3. Cardinality(below(x)) \in Nat
    BY <2>2, FS_CardinalityType
  <2> QED
    BY <2>2, <2>3, <1>1
<1>3. ASSUME NEW x \in S, NEW y \in S, <<x, y>> \in R
      PROVE  Cardinality(below(x)) < Cardinality(below(y))
  <2>1. below(x) \in SUBSET below(y)
    BY <1>3 DEF StrictOrder
  <2>2. x \in below(y) /\ x \notin below(x)
    BY <1>3 DEF StrictOrder
  <2>3. IsFiniteSet(below(y)) /\ Cardinality(below(x)) \in Nat /\ Cardinality(below(y)) \in Nat
    BY <1>2
  <2> HIDE DEF below
  <2>4. Cardinality(below(x)) <= Cardinality(below(y)) /\ Cardinality(below(x)) # Cardinality(below(y))
    BY <2>1, <2>2, <2>3, FS_Subset
  <2> QED
    BY <2>3, <2>4
<1>4. rank \in Injection(S, 1 .. n)
  <2>1. rank \in [S -> 1 .. n]
    <3> HIDE DEF below
    <3> QED
      BY <1>1, <1>2
  <2>2. ASSUME NEW x \in S, NEW y \in S, rank[x] = rank[y]
        PROVE  x = y
    <3>1. Cardinality(below(x)) = Cardinality(below(y))
      <4> HIDE DEF below
      <4> QED
        BY <2>2, <1>2
    <3> HIDE DEF below
    <3>2. <<x, y>> \notin R /\ <<y, x>> \notin R
      <4>1. Cardinality(below(x)) \in Int /\ Cardinality(below(y)) \in Int
        BY <1>2 DEF below
      <4> QED
        BY <3>1, <4>1, <1>3
    <3> QED
      BY <3>2 DEF StrictOrder
  <2> HIDE DEF rank
  <2> QED
    BY <2>1, <2>2 DEF Injection, IsInjective
<1>5. rank \in Surjection(S, 1 .. n)
  <2>1. IsFiniteSet(1 .. n) /\ Cardinality(1 .. n) = n
    BY <1>1, FS_Interval
  <2> HIDE DEF rank
  <2> QED
    BY <1>4, <2>1, FS_Injection
<1>6. \A k \in 1 .. n : \E x \in S : rank[x] = k
  <2> HIDE DEF rank
  <2> QED
    BY <1>5 DEF Surjection
<1> DEFINE r == Ranked(S, R)
<1>7. \A k \in 1 .. n : r[k] = CHOOSE x \in S : Cardinality(below(x)) = k - 1
  BY DEF Ranked
<1>8. ASSUME NEW k \in 1 .. n
      PROVE  r[k] \in S /\ rank[r[k]] = k
  <2> HIDE DEF r, below
  <2>1. PICK x \in S : rank[x] = k
    BY <1>6
  <2>2. Cardinality(below(x)) = k - 1
    BY <2>1, <1>2, <1>1
  <2>3. r[k] \in S /\ Cardinality(below(r[k])) = k - 1
    BY <2>2, <1>7
  <2> QED
    BY <2>3, <1>1
<1>9. r \in [1 .. n -> S]
  <2> DEFINE g(k) == CHOOSE x \in S : Cardinality(below(x)) = k - 1
  <2>1. r = [k \in 1 .. n |-> g(k)]
    BY DEF Ranked
  <2> HIDE DEF r, g, rank
  <2>2. \A k \in 1 .. n : g(k) \in S
    BY <2>1, <1>8
  <2> QED
    BY <2>1, <2>2
<1>10. \A x \in S : rank[x] \in 1 .. n /\ (\A y \in S : rank[x] = rank[y] => x = y)
  <2> HIDE DEF rank
  <2> QED
    BY <1>4 DEF Injection, IsInjective
<1>11. ASSUME NEW k \in 1 .. n, NEW l \in 1 .. n, k < l
       PROVE  <<r[k], r[l]>> \in R
  <2> HIDE DEF r, below
  <2>1. \A x \in S : rank[x] = Cardinality(below(x)) + 1 /\ Cardinality(below(x)) \in Nat
    BY <1>2
  <2> HIDE DEF rank
  <2>2. r[k] \in S /\ rank[r[k]] = k /\ r[l] \in S /\ rank[r[l]] = l
    BY <1>8
  <2>3. k \in Int /\ l \in Int
    BY <1>1
  <2>4. r[k] # r[l] /\ <<r[l], r[k]>> \notin R
    BY <2>1, <2>2, <2>3, <1>3, <1>11
  <2> QED
    BY <2>2, <2>4 DEF StrictOrder
<1> HIDE DEF r, rank
<1>12. \A x \in S : r[rank[x]] = x
  BY <1>8, <1>10
<1>13. /\ \A x \in S : \E k \in 1 .. n : r[k] = x
       /\ \A k \in 1 .. n, l \in 1 .. n : r[k] = r[l] => k = l
  BY <1>8, <1>10, <1>12
<1> QED
  BY <1>1, <1>9, <1>11, <1>13 DEF r

LEMMA PickLists ==
  ASSUME NEW E, NEW s \in Seq(E), NEW I \in SUBSET (DOMAIN s)
  PROVE  /\ Cardinality(I) \in Nat
         /\ Pick(s, I) \in Seq(E)
         /\ Len(Pick(s, I)) = Cardinality(I)
         /\ \A k \in DOMAIN Pick(s, I) : \E i \in I : Pick(s, I)[k] = s[i]
         /\ \A i \in I : \E k \in DOMAIN Pick(s, I) : Pick(s, I)[k] = s[i]
<1> DEFINE R == {ij \in I \X I : ij[1] < ij[2]}
           r == Ranked(I, R)
           n == Cardinality(I)
<1>1. DOMAIN s = 1 .. Len(s) /\ Len(s) \in Nat /\ I \subseteq Nat
  BY LenProperties
<1>2. IsFiniteSet(I)
  <2>1. IsFiniteSet(1 .. Len(s))
    BY <1>1, FS_Interval
  <2> QED
    BY <1>1, <2>1, FS_Subset
<1>3. StrictOrder(I, R)
  <2>1. \A x \in I, y \in I : <<x, y>> \in R <=> x < y
    OBVIOUS
  <2> HIDE DEF R
  <2> QED
    BY <2>1, <1>1 DEF StrictOrder
<1> HIDE DEF R
<1>4. /\ n \in Nat /\ r \in [1 .. n -> I]
      /\ \A x \in I : \E k \in 1 .. n : r[k] = x
  BY <1>2, <1>3, RankedLists
<1>5. Pick(s, I) = [k \in DOMAIN r |-> s[r[k]]]
  BY DEF Pick, R
<1> HIDE DEF r, n
<1>6. DOMAIN r = 1 .. n /\ \A k \in 1 .. n : s[r[k]] \in E
  BY <1>4, <1>1, ElementOfSeq
<1>7. Pick(s, I) \in [1 .. n -> E] /\ \A k \in 1 .. n : Pick(s, I)[k] = s[r[k]]
  BY <1>5, <1>6
<1>8. Pick(s, I) \in Seq(E) /\ Len(Pick(s, I)) = n /\ DOMAIN Pick(s, I) = 1 .. n
  BY <1>4, <1>7, SeqDef, LenProperties
<1>9. \A k \in 1 .. n : r[k] \in I
  BY <1>4
<1>10. \A k \in 1 .. n : \E i \in I : Pick(s, I)[k] = s[i]
  BY <1>7, <1>9
<1>11. \A i \in I : \E k \in 1 .. n : Pick(s, I)[k] = s[i]
  BY <1>4, <1>7
<1> QED
  BY <1>4, <1>8, <1>10, <1>11 DEF n

(* std::sort() on entries of different paths *)
Distinct(entries) == \A a \in entries, b \in entries : a.path = b.path => a = b

LEMMA SortedLists ==
  ASSUME NEW T, NEW X \in SUBSET T, IsFiniteSet(X), Distinct(X), \A x \in X : x.path \in Nat
  PROVE  /\ Cardinality(X) \in Nat
         /\ Sorted(X) \in Seq(T) /\ Len(Sorted(X)) = Cardinality(X)
         /\ {Sorted(X)[k] : k \in DOMAIN Sorted(X)} = X
<1> DEFINE R == {ab \in X \X X : Before(ab[1], ab[2])}
<1>1. StrictOrder(X, R)
  <2>1. \A x \in X, y \in X : <<x, y>> \in R <=> Before(x, y)
    OBVIOUS
  <2> HIDE DEF R
  <2>2. \A x \in X : ~Before(x, x)
    BY DEF Before
  <2>3. \A x \in X, y \in X : x = y \/ Before(x, y) \/ Before(y, x)
    BY DEF Before, Distinct
  <2>4. \A x \in X, y \in X, z \in X : Before(x, y) /\ Before(y, z) => Before(x, z)
    BY DEF Before
  <2> QED
    BY <2>1, <2>2, <2>3, <2>4 DEF StrictOrder
<1> DEFINE r == Sorted(X)
           n == Cardinality(X)
<1>2. r = Ranked(X, R)
  BY DEF Sorted
<1> HIDE DEF R, r
<1>3. n \in Nat /\ r \in [1 .. n -> X] /\ \A x \in X : \E k \in 1 .. n : r[k] = x
  BY <1>1, <1>2, RankedLists
<1> HIDE DEF n
<1>4. r \in Seq(T) /\ Len(r) = n /\ DOMAIN r = 1 .. n
  BY <1>3, SeqDef, LenProperties
<1>5. {r[k] : k \in DOMAIN r} = X
  BY <1>3, <1>4
<1> QED
  BY <1>3, <1>4, <1>5 DEF r, n
-----------------------------------------------------------------------------
(* The types of the library's state                                        *)
Covers == [path : Books, version : Int]
Versions == 1 .. MaxVersion
Listings == [path : Items \ Books, stamp : {0}] \cup [path : Books, stamp : Versions]
Records == [path : Books, stamp : Versions]
Places == [path : Int, page : Nat]

Scanners ==
  [path : Folders, running : BOOLEAN, unread : SUBSET Items, entries : Seq(Listings),
   truncated : BOOLEAN, failed : BOOLEAN]

Views == [path : Folders, page : Nat, loading : BOOLEAN, previews : Seq(Covers)]

Queues == [books : Seq(Records), index : Nat, active : BOOLEAN, visible : Nat]

Parsers == [book : Books \cup {NoBook}, phase : {"Idle", "ReadPackage"}, version : 0 .. MaxVersion]

Preparations ==
  [phase : {"Idle", "Scanning", "Indexing", "Done"}, folders : SUBSET Folders,
   folder : Folders \cup {NoBook}, unread : SUBSET Items, records : Seq(Records),
   torn : BOOLEAN, remaining : Int, active : BOOLEAN, book : Records \cup {NoEntry},
   truncated : BOOLEAN]

Thumbnails == [path : Books, stamp : Versions, version : Versions]

LibraryTypes ==
  /\ card \in [Books -> -2 .. MaxVersion]
  /\ cache \in [Slots -> Thumbnails \cup {NoThumbnail}]
  /\ portal \in {"Off", "On", "Receiving"} /\ changed \in BOOLEAN
  /\ app \in {"FileBrowser", "LibraryMenu", "LibraryPrefetch", "Book"}
  /\ scanner \in Scanners /\ view \in Views
  /\ history \in Seq(Places) /\ restore \in Places
  /\ queue \in Queues /\ parser \in Parsers /\ prepare \in Preparations
  /\ dirty \in BOOLEAN /\ busy \in BOOLEAN
  /\ left \in [Folders -> Nat] /\ missing \subseteq Records

(***************************************************************************)
(* Where the user was, and is: every folder on the way down sorts after    *)
(* the ones above it, unless a refused scan left another folder's list     *)
(* under the path.  A place from which the way only leads down is still    *)
(* the one at which its folder was last left.                              *)
(***************************************************************************)
At(i) == IF i <= Len(history) THEN history[i].path ELSE view.path

Down(i) == \A j \in i .. Len(history) : At(j) < At(j + 1) /\ At(i) < At(j + 1)

PlacesKept ==
  /\ \A i \in 1 .. Len(history) :
       history[i].path \in Folders /\ (Down(i) => history[i].page = left[history[i].path])
  /\ restore.path = view.path => restore.page = left[restore.path]

(***************************************************************************)
(* A book's versions only grow, until it is removed for good or lost.      *)
(***************************************************************************)
NotNewer(book, version) == version >= 1 /\ (card[book] < 0 \/ version <= card[book])

(* What is current of a book while no change of the card is to be taken in *)
Current(book, version) == NotNewer(book, version) /\ (~changed => card[book] \in {version, Lost})

CacheSound ==
  \A slot \in Slots :
    cache[slot] # NoThumbnail =>
      /\ NotNewer(cache[slot].path, cache[slot].version)
      /\ cache[slot].stamp <= cache[slot].version

ListsSound ==
  /\ \A entry \in Listed(scanner) : entry.path \in Books => Current(entry.path, entry.stamp)
  /\ \A i \in 1 .. Len(queue.books) : Current(queue.books[i].path, queue.books[i].stamp)
  /\ \A i \in 1 .. Len(prepare.records) :
       NotNewer(prepare.records[i].path, prepare.records[i].stamp)
  /\ \A entry \in missing : NotNewer(entry.path, entry.stamp)

(* The parser is at the book of the one who started it, or was stopped.    *)
ParserSound ==
  /\ parser.phase = "ReadPackage" => parser.book \in Books /\ Current(parser.book, parser.version)
  /\ queue.active =>
       /\ app = "FileBrowser" /\ parser.phase = "ReadPackage"
       /\ queue.index < Len(queue.books) 
       /\ parser.book = queue.books[queue.index + 1].path
       /\ queue.books[queue.index + 1].stamp <= parser.version
  /\ prepare.active =>
       /\ app = "LibraryPrefetch" /\ prepare.book \in Records
       /\ parser.phase = "ReadPackage" =>
            parser.book = prepare.book.path /\ prepare.book.stamp <= parser.version

PreviewsSound ==
  \A i \in 1 .. Len(view.previews) :
    Current(view.previews[i].path, view.previews[i].version)

(***************************************************************************)
(* The scan of a folder                                                    *)
(***************************************************************************)
Wanted(folder) == {Entry(card, item) : item \in Holds(card, folder) \ Others}

(* What is listed, and still to be read, of what was not lost meanwhile *)
InSight(entries) == {entry \in entries : ~Gone(entry.path)}
ToRead(s) == {item \in s.unread \ Others : ~Gone(item)}

(* The list and what is still to be read have no path in common. *)
Apart(s) ==
  /\ Distinct(Listed(s))
  /\ \A entry \in Listed(s) : entry.path \notin s.unread \cup Others

ScanSound ==
  /\ Apart(scanner)
  /\ ~scanner.running => scanner.unread = {}
  /\ scanner.running /\ ~changed =>
       \A item \in scanner.unread : item \in Holds(card, scanner.path) \/ Gone(item)
  /\ ~changed /\ ~scanner.failed /\ ~scanner.truncated =>
       InSight(Listed(scanner)) \cup {Entry(card, item) : item \in ToRead(scanner)} =
         Wanted(scanner.path)

(***************************************************************************)
(* The preparation of the card                                             *)
(***************************************************************************)
Unchanged(entry) == entry.path \notin LongPaths /\ card[entry.path] = entry.stamp

Recorded(p, book) ==
  \/ \E i \in 1 .. Len(p.records) : p.records[i].path = book
  \/ p.active /\ p.book.path = book

Reached(p, done) == done \cup p.folders \cup {p.folder}

(* The folders in "done" were read to their end: what they hold was put on *)
(* the stack, or written to the queue and not looked at yet.  Of the open  *)
(* folder the same holds but for what is still to be read.                 *)
SearchedSo(p, done) ==
  /\ done \subseteq Folders /\ Root \in Reached(p, done)
  /\ \A folder \in Folders \ {Root} : Parent[folder] \in done => folder \in Reached(p, done)
  /\ \A entry \in missing :
       Unchanged(entry) /\ Parent[entry.path] \in done => Recorded(p, entry.path)
  /\ \A folder \in Folders \ {Root} :
       Parent[folder] = p.folder => folder \in p.unread \cup Reached(p, done)
  /\ \A entry \in missing :
       Unchanged(entry) /\ Parent[entry.path] = p.folder =>
         entry.path \in p.unread \/ Recorded(p, entry.path)

Counts(p) == ~p.torn /\ p.remaining = Len(p.records) + (IF p.active THEN 1 ELSE 0)

PreparationSound ==
  app = "LibraryPrefetch" /\ ~prepare.truncated =>
    /\ prepare.phase # "Idle" /\ Counts(prepare)
    /\ prepare.phase = "Scanning" =>
         ~prepare.active /\ \E done \in SUBSET Folders : SearchedSo(prepare, done)
    /\ prepare.phase = "Indexing" =>
         \A entry \in missing : Unchanged(entry) => Recorded(prepare, entry.path)
    /\ prepare.phase = "Done" => \A entry \in missing : ~Unchanged(entry)

LibraryInv ==
  /\ LibraryTypes /\ PlacesKept
  /\ CacheSound /\ ListsSound /\ ParserSound /\ PreviewsSound
  /\ ScanSound /\ PreparationSound
-----------------------------------------------------------------------------
(* The view: what its methods keep                                         *)
From(s, t) == \A i \in 1 .. Len(s) : \E j \in 1 .. Len(t) : s[i] = t[j]

(* w is v but for its page, its loading and the order of its thumbnails *)
Shows(w, v) == w \in Views /\ w.path = v.path /\ From(w.previews, v.previews)

LEMMA FromSame ==
  ASSUME NEW s
  PROVE  From(s, s)
BY DEF From

LEMMA FromTrans ==
  ASSUME NEW s, NEW t, NEW u, From(s, t), From(t, u)
  PROVE  From(s, u)
<1> SUFFICES ASSUME NEW i \in 1 .. Len(s) PROVE \E k \in 1 .. Len(u) : s[i] = u[k]
  BY DEF From
<1>1. PICK j \in 1 .. Len(t) : s[i] = t[j]
  BY DEF From
<1>2. PICK k \in 1 .. Len(u) : t[j] = u[k]
  BY DEF From
<1> QED
  BY <1>1, <1>2

LEMMA CardFacts ==
  /\ Items \subseteq Nat /\ Books \subseteq Items /\ Folders \subseteq Nat
  /\ Root \in Folders /\ Folders \ {Root} \subseteq Items
  /\ Books \cap Folders = {} /\ Others \cap (Books \cup Folders) = {}
  /\ IsFiniteSet(Items) /\ Parent \in [Items -> Folders]
  /\ \A folder \in Folders \ {Root} : Parent[folder] < folder
  /\ Batch \in Nat \ {0} /\ CoverBatch \in Nat \ {0}
  /\ PageSize \in Nat \ {0} /\ MaxPreviews \in Nat \ {0}
  /\ Home \in Folders /\ Uploadable \subseteq Books
  /\ NoBook \notin Items /\ NoBook \notin Folders
BY CardAssumption, ViewAssumption, LibraryAssumption DEF Items, NoBook

LEMMA VersionFacts ==
  /\ MaxVersion \in Nat \ {0} /\ 0 \in 0 .. MaxVersion
  /\ \A v \in Versions : v \in Int /\ v \in 0 .. MaxVersion
  /\ \A v \in Int : v \in Versions <=> v >= 1 /\ v <= MaxVersion
BY LibraryAssumption DEF Versions

LEMMA PagesThere ==
  ASSUME NEW v \in Views, NEW entries \in Seq(Listings)
  PROVE  ItemCount(v, entries) \in Nat /\ PageCount(v, entries) \in Nat \ {0}
<1>1. ItemCount(v, entries) \in Nat
  BY LenProperties DEF ItemCount, ParentItems
<1> DEFINE n == ItemCount(v, entries) + PageSize - 1
<1>2. PageSize \in Nat \ {0} /\ (ItemCount(v, entries) # 0 => n \in Nat /\ n >= PageSize)
  BY <1>1, CardFacts
<1> HIDE DEF n
<1>3. n \in Nat /\ n >= PageSize => n \div PageSize \in Nat \ {0}
  BY <1>2
<1> QED
  BY <1>1, <1>2, <1>3 DEF PageCount, n

LEMMA PageIsInt ==
  ASSUME NEW v \in Views, NEW entries \in Seq(Listings), NEW page \in Nat
  PROVE  SetPage(v, entries, page) \in [path : {v.path}, page : Nat, loading : {v.loading},
                                        previews : {v.previews}]
<1>1. Smaller(page, PageCount(v, entries) - 1) \in Nat
  BY PagesThere DEF Smaller
<1> QED
  BY <1>1 DEF SetPage, Views

LEMMA SetPageShows ==
  ASSUME NEW v \in Views, NEW entries \in Seq(Listings), NEW page \in Nat
  PROVE  Shows(SetPage(v, entries, page), v)
<1>1. SetPage(v, entries, page) \in Views
  BY PageIsInt DEF Views
<1>2. SetPage(v, entries, page).path = v.path /\ SetPage(v, entries, page).previews = v.previews
  BY PageIsInt
<1> QED
  BY <1>1, <1>2, FromSame DEF Shows

LEMMA SetModelShows ==
  ASSUME NEW v \in Views, NEW entries \in Seq(Listings), NEW folder \in Folders
  PROVE  Shows(SetModel(v, folder, entries), [v EXCEPT !.path = folder])
<1> DEFINE w == [v EXCEPT !.path = folder]
           page == IF v.path = folder THEN v.page ELSE 0
<1>1. w \in Views /\ page \in Nat
  BY DEF Views
<1>2. SetModel(v, folder, entries) = SetPage(w, entries, page)
  BY DEF SetModel
<1> HIDE DEF w, page
<1> QED
  BY <1>1, <1>2, SetPageShows DEF w

LEMMA PartOfList ==
  ASSUME NEW E, NEW s \in Seq(E), NEW m \in Int, NEW n \in Int, m >= 1, n <= Len(s)
  PROVE  SubSeq(s, m, n) \in Seq(E) /\ From(SubSeq(s, m, n), s)
<1>1. Len(s) \in Nat /\ \A i \in m .. n : s[i] \in E
  BY LenProperties, ElementOfSeq
<1> DEFINE t == SubSeq(s, m, n)
<1>2. /\ t \in Seq(E) /\ Len(t) = IF m <= n THEN n - m + 1 ELSE 0
      /\ \A i \in 1 .. n - m + 1 : t[i] = s[m + i - 1]
  BY <1>1, SubSeqProperties
<1> HIDE DEF t
<1>3. \A i \in 1 .. Len(t) : t[i] = s[m + i - 1] /\ m + i - 1 \in 1 .. Len(s)
  BY <1>1, <1>2
<1> QED
  BY <1>2, <1>3 DEF From, t

LEMMA PickFrom ==
  ASSUME NEW E, NEW s \in Seq(E), NEW I, I \subseteq 1 .. Len(s)
  PROVE  Pick(s, I) \in Seq(E) /\ From(Pick(s, I), s)
<1>1. I \in SUBSET (DOMAIN s)
  BY LenProperties
<1>2. Pick(s, I) \in Seq(E) /\ \A k \in DOMAIN Pick(s, I) : \E i \in I : Pick(s, I)[k] = s[i]
  <2> HIDE DEF Pick
  <2> QED
    BY <1>1, PickLists
<1>3. DOMAIN Pick(s, I) = 1 .. Len(Pick(s, I))
  BY <1>2, LenProperties
<1> QED
  BY <1>2, <1>3 DEF From

(* visibleBooks(): books of the list *)
LEMMA BooksOnList ==
  ASSUME NEW v \in Views, NEW entries \in Seq(Listings), NEW page \in Int
  PROVE  BooksOn(v, entries, page) \in Seq(Records) /\ From(BooksOn(v, entries, page), entries)
<1> DEFINE m == page * PageSize + 1 - ParentItems(v)
           shown == EntriesOn(v, entries, page)
           I == {i \in DOMAIN shown : shown[i].path \in Books}
           books == BooksOn(v, entries, page)
<1>1. m \in Int
  BY CardFacts DEF ParentItems
<1>2. shown = SubSeq(entries, IF m < 1 THEN 1 ELSE m, Smaller(m + PageSize - 1, Len(entries)))
  BY DEF EntriesOn
<1> HIDE DEF m
<1>3. /\ (IF m < 1 THEN 1 ELSE m) \in Int /\ (IF m < 1 THEN 1 ELSE m) >= 1
      /\ Smaller(m + PageSize - 1, Len(entries)) \in Int
      /\ Smaller(m + PageSize - 1, Len(entries)) <= Len(entries)
  BY <1>1, CardFacts, LenProperties DEF Smaller
<1>4. shown \in Seq(Listings) /\ From(shown, entries)
  BY <1>2, <1>3, PartOfList
<1> HIDE DEF shown
<1>5. books = Pick(shown, I) /\ I \in SUBSET (DOMAIN shown)
  BY DEF BooksOn, shown
<1> HIDE DEF I, books
<1>6. /\ books \in Seq(Listings)
      /\ \A k \in DOMAIN books : \E i \in I : books[k] = shown[i]
  BY <1>4, <1>5, PickLists
<1>7. DOMAIN books = 1 .. Len(books) /\ DOMAIN shown = 1 .. Len(shown) /\ Len(books) \in Nat
  BY <1>4, <1>6, LenProperties
<1>8. From(books, shown)
  BY <1>5, <1>6, <1>7 DEF From
<1>9. ASSUME NEW k \in 1 .. Len(books)
      PROVE  books[k] \in Records
  <2>1. PICK i \in I : books[k] = shown[i]
    BY <1>6, <1>7
  <2>2. shown[i] \in Listings /\ shown[i].path \in Books
    BY <1>4, <1>5, <1>7, ElementOfSeq DEF I
  <2> QED
    BY <2>1, <2>2 DEF Listings, Records
<1>10. books \in Seq(Records)
  BY <1>6, <1>7, <1>9, SeqDef, LenProperties
<1> QED
  BY <1>4, <1>8, <1>10, FromTrans DEF books

(* render() only changes the order of the thumbnails. *)
LEMMA RenderedShows ==
  ASSUME NEW v \in Views, NEW entries \in Seq(Listings)
  PROVE  Shows(Rendered(v, entries), v) /\ Rendered(v, entries).page = v.page
<1> DEFINE drawn == VisibleBooks(v, entries)
           used == Pick(drawn, {i \in DOMAIN drawn : HasPreview(v, drawn[i].path)})
           unused == {i \in DOMAIN v.previews :
                        \A j \in DOMAIN drawn : drawn[j].path # v.previews[i].path}
           Of(book) == CHOOSE p \in ToSet(v.previews) : p.path = book
           kept == Pick(v.previews, unused)
           last == [i \in DOMAIN used |-> Of(used[i].path)]
<1>1. v.previews \in Seq(Covers) /\ v.page \in Nat
  BY DEF Views
<1>2. drawn \in Seq(Records)
  BY <1>1, BooksOnList DEF VisibleBooks
<1>3. DOMAIN v.previews = 1 .. Len(v.previews) /\ Len(v.previews) \in Nat
  BY <1>1, LenProperties
<1>4. Rendered(v, entries) = [v EXCEPT !.previews = kept \o last]
  BY DEF Rendered
<1>5. kept \in Seq(Covers) /\ From(kept, v.previews)
  BY <1>1, <1>3, PickFrom
<1>6. /\ used \in Seq(Records)
      /\ \A k \in DOMAIN used : \E i \in {i \in DOMAIN drawn : HasPreview(v, drawn[i].path)} :
           used[k] = drawn[i]
  <2> DEFINE I == {i \in DOMAIN drawn : HasPreview(v, drawn[i].path)}
  <2>1. I \in SUBSET (DOMAIN drawn)
    OBVIOUS
  <2> HIDE DEF drawn, I
  <2>2. /\ Pick(drawn, I) \in Seq(Records)
        /\ \A k \in DOMAIN Pick(drawn, I) : \E i \in I : Pick(drawn, I)[k] = drawn[i]
    BY <1>2, <2>1, PickLists
  <2> QED
    BY <2>2 DEF I
<1> HIDE DEF drawn
<1>7. ASSUME NEW k \in DOMAIN used
      PROVE  Of(used[k].path) \in Covers /\ \E j \in 1 .. Len(v.previews) : Of(used[k].path) = v.previews[j]
  <2>1. HasPreview(v, used[k].path)
    BY <1>6
  <2>2. \E p \in ToSet(v.previews) : p.path = used[k].path
    BY <2>1 DEF HasPreview, ToSet
  <2>3. Of(used[k].path) \in ToSet(v.previews)
    BY <2>2
  <2>4. PICK j \in 1 .. Len(v.previews) : Of(used[k].path) = v.previews[j]
    BY <2>3, <1>3 DEF ToSet
  <2> QED
    BY <2>4, <1>1, ElementOfSeq
<1> HIDE DEF used, Of
<1>8. DOMAIN used = 1 .. Len(used) /\ Len(used) \in Nat
  BY <1>6, LenProperties
<1>9. last \in [1 .. Len(used) -> Covers]
  BY <1>7, <1>8
<1>10. last \in Seq(Covers)
  BY <1>8, <1>9, SeqDef
<1>11. From(last, v.previews)
  <2>1. DOMAIN last = 1 .. Len(last)
    BY <1>10, LenProperties
  <2>2. DOMAIN last = DOMAIN used
    OBVIOUS
  <2> QED
    BY <1>7, <2>1, <2>2 DEF From
<1> HIDE DEF last, kept
<1>12. kept \o last \in Seq(Covers) /\ From(kept \o last, v.previews)
  <2>1. /\ kept \o last \in Seq(Covers) /\ Len(kept \o last) = Len(kept) + Len(last)
        /\ \A i \in 1 .. Len(kept) + Len(last) :
             (kept \o last)[i] = IF i <= Len(kept) THEN kept[i] ELSE last[i - Len(kept)]
        /\ Len(kept) \in Nat /\ Len(last) \in Nat
    BY <1>5, <1>10, ConcatProperties, LenProperties
  <2>2. \A i \in 1 .. Len(kept) + Len(last) :
          IF i <= Len(kept) THEN i \in 1 .. Len(kept) ELSE i - Len(kept) \in 1 .. Len(last)
    BY <2>1
  <2>3. ASSUME NEW i \in 1 .. Len(kept \o last)
        PROVE  \E j \in 1 .. Len(v.previews) : (kept \o last)[i] = v.previews[j]
    <3>1. CASE i <= Len(kept)
      BY <2>1, <2>2, <1>5, <3>1 DEF From
    <3>2. CASE ~(i <= Len(kept))
      BY <2>1, <2>2, <1>11, <3>2 DEF From
    <3> QED
      BY <3>1, <3>2
  <2> QED
    BY <2>1, <2>3 DEF From
<1> QED
  BY <1>4, <1>12 DEF Shows, Views

(* scheduleLibraryPreviews() queues books of the list. *)
LEMMA ScheduledOnList ==
  ASSUME NEW v \in Views, NEW entries \in Seq(Listings)
  PROVE  /\ Scheduled(v, entries) \in Queues
         /\ ~Scheduled(v, entries).active
         /\ From(Scheduled(v, entries).books, entries)
<1> DEFINE Lacking(books) == Pick(books, {i \in DOMAIN books : ~HasPreview(v, books[i].path)})
           here == VisibleBooks(v, entries)
           next == BooksOn(v, entries, v.page + 1)
           q == Scheduled(v, entries)
<1>1. v.page \in Nat
  BY DEF Views
<1>2. here \in Seq(Records) /\ From(here, entries)
  BY <1>1, BooksOnList DEF VisibleBooks
<1>3. next \in Seq(Records) /\ From(next, entries)
  BY <1>1, BooksOnList
<1>4. q = [books |-> Lacking(here) \o Lacking(next), index |-> 0, active |-> FALSE,
           visible |-> Len(Lacking(here))]
  BY DEF Scheduled
<1>5. ASSUME NEW s \in Seq(Records), From(s, entries)
      PROVE  Lacking(s) \in Seq(Records) /\ From(Lacking(s), entries)
  <2> DEFINE I == {i \in DOMAIN s : ~HasPreview(v, s[i].path)}
  <2>1. I \in SUBSET (1 .. Len(s))
    BY LenProperties
  <2> HIDE DEF I
  <2>2. Pick(s, I) \in Seq(Records) /\ From(Pick(s, I), s)
    BY <2>1, PickFrom
  <2>3. From(Pick(s, I), entries)
    BY <2>2, <1>5, FromTrans
  <2> QED
    BY <2>2, <2>3 DEF I
<1> HIDE DEF Lacking, here, next, q
<1> DEFINE a == Lacking(here)
           b == Lacking(next)
<1>6. a \in Seq(Records) /\ From(a, entries) /\ b \in Seq(Records) /\ From(b, entries)
  BY <1>2, <1>3, <1>5
<1>7. q = [books |-> a \o b, index |-> 0, active |-> FALSE, visible |-> Len(a)]
  BY <1>4
<1> HIDE DEF a, b
<1>8. /\ a \o b \in Seq(Records) /\ Len(a \o b) = Len(a) + Len(b)
      /\ \A i \in 1 .. Len(a) + Len(b) : (a \o b)[i] = IF i <= Len(a) THEN a[i] ELSE b[i - Len(a)]
      /\ Len(a) \in Nat /\ Len(b) \in Nat
  BY <1>6, ConcatProperties, LenProperties
<1>9. ASSUME NEW i \in 1 .. Len(a \o b)
      PROVE  \E j \in 1 .. Len(entries) : (a \o b)[i] = entries[j]
  <2>1. CASE i <= Len(a)
    BY <1>6, <1>8, <2>1 DEF From
  <2>2. CASE ~(i <= Len(a))
    <3>1. i - Len(a) \in 1 .. Len(b)
      BY <1>8, <2>2
    <3> QED
      BY <1>6, <1>8, <2>2, <3>1 DEF From
  <2> QED
    BY <2>1, <2>2
<1> QED
  BY <1>7, <1>8, <1>9 DEF From, Queues, q

LEMMA DrawnShows ==
  ASSUME NEW v \in Views, NEW entries \in Seq(Listings), NEW due \in BOOLEAN,
         busy \in BOOLEAN, Drawn(v, entries, due)
  PROVE  Shows(view', v) /\ view'.page = v.page /\ dirty' \in BOOLEAN /\ busy' \in BOOLEAN
<1>1. Shows(v, v)
  BY FromSame DEF Shows
<1> QED
  BY <1>1, RenderedShows DEF Drawn

(* What scheduleLibraryPreviews() leaves, with the drawing that follows it *)
Rescheduled(v, entries) ==
  /\ Shows(view', v) /\ view'.page = v.page
  /\ queue' \in Queues /\ ~queue'.active /\ From(queue'.books, entries)
  /\ parser' = NoParser /\ dirty' \in BOOLEAN /\ busy' \in BOOLEAN

LEMMA SchedulePreviewsDoes ==
  ASSUME NEW v \in Views, NEW entries \in Seq(Listings), busy \in BOOLEAN,
         SchedulePreviews(v, entries)
  PROVE  Rescheduled(v, entries)
<1> DEFINE w == [v EXCEPT !.loading = queue'.visible # 0]
<1>1. w \in Views /\ w.path = v.path /\ w.previews = v.previews /\ w.page = v.page
  BY DEF Views
<1>2. Drawn(w, entries, TRUE) /\ queue' = Scheduled(v, entries) /\ parser' = NoParser
  BY DEF SchedulePreviews
<1> HIDE DEF w
<1>3. Shows(view', w) /\ view'.page = w.page /\ dirty' \in BOOLEAN /\ busy' \in BOOLEAN
  BY <1>1, <1>2, DrawnShows
<1>4. Shows(view', v)
  BY <1>1, <1>3 DEF Shows
<1> QED
  BY <1>1, <1>2, <1>3, <1>4, ScheduledOnList DEF Rescheduled

(* start(): nothing happens, or an empty list begins, or the folder does not open. *)
LEMMA StartScanTyped ==
  ASSUME NEW s \in Scanners, NEW folder \in Folders, NEW busFree \in BOOLEAN,
         NEW t \in StartScan(s, card, folder, busFree)
  PROVE  t \in Scanners /\ (busFree => t.entries = <<>>) /\ (t # s => t.entries = <<>>)
<1>1. Holds(card, folder) \subseteq Items
  BY DEF Holds
<1>2. <<>> \in Seq(Listings)
  BY EmptySeq
<1> QED
  BY <1>1, <1>2, CardFacts DEF StartScan, NewScanner, Scanners

(* What startDirectory() leaves *)
LEMMA StartDirectoryDoes ==
  ASSUME NEW v \in Views, NEW folder \in Folders, NEW busFree \in BOOLEAN,
         scanner \in Scanners, queue \in Queues,
         StartDirectory(v, folder, busFree)
  PROVE  /\ scanner' \in Scanners /\ scanner' \in StartScan(scanner, card, folder, busFree)
         /\ view' \in Views /\ view'.path = folder /\ From(view'.previews, v.previews)
         /\ queue' \in Queues /\ ~queue'.active /\ queue'.books = <<>>
         /\ parser' = NoParser /\ dirty' = TRUE
<1>1. scanner' \in Scanners /\ scanner' \in StartScan(scanner, card, folder, busFree)
  BY StartScanTyped DEF StartDirectory
<1>2. scanner'.entries \in Seq(Listings)
  BY <1>1 DEF Scanners
<1>3. Shows(view', [v EXCEPT !.path = folder])
  BY <1>2, SetModelShows DEF StartDirectory
<1>4. view' \in Views /\ view'.path = folder /\ From(view'.previews, v.previews)
  BY <1>3 DEF Shows, Views
<1>5. queue' = [queue EXCEPT !.books = <<>>, !.active = FALSE]
  BY DEF StartDirectory
<1>6. queue' \in Queues /\ ~queue'.active /\ queue'.books = <<>>
  BY <1>5, EmptySeq DEF Queues
<1> QED
  BY <1>1, <1>4, <1>6 DEF StartDirectory
-----------------------------------------------------------------------------
(* A batch of a folder: of a finite set, "size" elements or the last ones. *)
LEMMA BatchFacts ==
  ASSUME NEW unread \in SUBSET Items, NEW size \in Nat \ {0}, NEW batch \in Batches(unread, size)
  PROVE  /\ batch \in SUBSET unread /\ IsFiniteSet(batch)
         /\ Cardinality(unread) \in Nat
         /\ Cardinality(unread) < size => batch = unread
<1>1. IsFiniteSet(unread)
  BY CardFacts, FS_Subset
<1>2. batch \in SUBSET unread
  BY DEF Batches
<1>3. IsFiniteSet(batch) /\ Cardinality(batch) <= Cardinality(unread)
  BY <1>1, <1>2, FS_Subset
<1>4. Cardinality(unread) \in Nat /\ Cardinality(batch) \in Nat
  BY <1>1, <1>3, FS_CardinalityType
<1> QED
  BY <1>2, <1>3, <1>4 DEF Batches

(* Entries of a finite set of items: finite, and of different paths *)
LEMMA EntriesOf ==
  ASSUME NEW items, IsFiniteSet(items)
  PROVE  /\ IsFiniteSet({Entry(card, item) : item \in items})
         /\ Distinct({Entry(card, item) : item \in items})
<1> DEFINE f == [item \in items |-> Entry(card, item)]
           T == {Entry(card, item) : item \in items}
<1>1. f \in Surjection(items, T)
  <2>1. f \in [items -> T] /\ \A t \in T : \E item \in items : f[item] = t
    OBVIOUS
  <2> QED
    BY <2>1 DEF Surjection
<1>2. IsFiniteSet(T)
  BY <1>1, FS_Surjection
<1>3. \A item \in items : Entry(card, item).path = item
  BY DEF Entry
<1>4. Distinct(T)
  BY <1>3 DEF Distinct
<1> QED
  BY <1>2, <1>4

LEMMA ListFinite ==
  ASSUME NEW E, NEW s \in Seq(E)
  PROVE  IsFiniteSet({s[i] : i \in DOMAIN s}) /\ {s[i] : i \in DOMAIN s} \in SUBSET E
<1> DEFINE T == {s[i] : i \in DOMAIN s}
<1>1. DOMAIN s = 1 .. Len(s) /\ Len(s) \in Nat
  BY LenProperties
<1>2. IsFiniteSet(1 .. Len(s))
  BY <1>1, FS_Interval
<1> DEFINE f == [i \in 1 .. Len(s) |-> s[i]]
<1>3. f \in Surjection(1 .. Len(s), T)
  BY <1>1 DEF Surjection
<1>4. IsFiniteSet(T)
  BY <1>2, <1>3, FS_Surjection
<1>5. T \in SUBSET E
  BY <1>1, ElementOfSeq
<1> QED
  BY <1>4, <1>5

(* processNextBatch(): a part of the wanted entries of the batch is added. *)
Takes(s, t, batch, kept) ==
  /\ t \in Scanners
  /\ t.path = s.path /\ t.failed = s.failed
  /\ t.unread = s.unread \ batch /\ (~t.running => batch = s.unread)
  /\ \A item \in kept : item \in Books => Exists(card[item])
  /\ Apart(t)
  /\ Listed(t) = Listed(s) \cup {Entry(card, item) : item \in kept}
  /\ ~t.truncated =>
       /\ ~s.truncated
       /\ kept = {item \in batch \ Others : item \in Books => Exists(card[item])}

LEMMA BatchTaken ==
  ASSUME card \in [Books -> -2 .. MaxVersion], NEW s \in Scanners, Apart(s),
         NEW t \in NextBatch(s, card, TRUE)
  PROVE  \E batch \in SUBSET s.unread : \E kept \in SUBSET (batch \ Others) :
           Takes(s, t, batch, kept)
<1>1. PICK batch \in Batches(s.unread, Batch) :
        t \in LET wanted == {item \in batch \ Others : item \in Books => Exists(card[item])}
                  most == Smaller(Cardinality(wanted), MaxEntries - Len(s.entries))
              IN {Take(s, card, batch, kept) : kept \in kSubset(most, wanted)}
  BY DEF NextBatch
<1> DEFINE wanted == {item \in batch \ Others : item \in Books => Exists(card[item])}
<1>2. PICK kept \in SUBSET wanted : t = Take(s, card, batch, kept)
  BY <1>1 DEF kSubset
<1>3. s.unread \in SUBSET Items /\ s.entries \in Seq(Listings)
  BY DEF Scanners
<1>4. /\ batch \in SUBSET s.unread /\ IsFiniteSet(batch)
      /\ Cardinality(s.unread) \in Nat
      /\ Cardinality(s.unread) < Batch => batch = s.unread
  BY <1>3, CardFacts, BatchFacts
<1>5. kept \in SUBSET (batch \ Others) /\ IsFiniteSet(kept)
  BY <1>4, FS_Subset
<1> DEFINE new == {Entry(card, item) : item \in kept}
           all == Listed(s) \cup new
<1>6. IsFiniteSet(new) /\ Distinct(new)
  BY <1>5, EntriesOf
<1>7. \A entry \in new : entry.path \in kept /\ entry \in Listings
  <2>1. ASSUME NEW item \in kept
        PROVE  Entry(card, item) \in Listings
    <3>1. item \in Items /\ (item \in Books => card[item] \in -2 .. MaxVersion /\ card[item] > 0)
      BY <1>2, <1>3, <1>4, <1>5 DEF Exists
    <3>2. item \in Books => card[item] \in Versions
      BY <3>1, VersionFacts
    <3> QED
      BY <3>1, <3>2 DEF Entry, Listings
  <2> QED
    BY <2>1 DEF Entry
<1>8. IsFiniteSet(Listed(s)) /\ Listed(s) \in SUBSET Listings
  BY <1>3, ListFinite DEF Listed
<1> HIDE DEF new
<1>9. IsFiniteSet(all) /\ all \in SUBSET Listings
  BY <1>6, <1>7, <1>8, FS_Union
<1>10. Distinct(all)
  <2> SUFFICES ASSUME NEW a \in all, NEW b \in all, a.path = b.path PROVE a = b
    BY DEF Distinct
  <2>1. \A x \in Listed(s), y \in new : x.path # y.path
    BY <1>4, <1>5, <1>7 DEF Apart
  <2>2. \A x \in Listed(s), y \in Listed(s) : x.path = y.path => x = y
    BY DEF Apart, Distinct
  <2>3. \A x \in new, y \in new : x.path = y.path => x = y
    BY <1>6 DEF Distinct
  <2> QED
    BY <2>1, <2>2, <2>3
<1>11. \A x \in all : x.path \in Nat
  BY <1>9, CardFacts DEF Listings
<1> HIDE DEF all
<1>12. Sorted(all) \in Seq(Listings) /\ {Sorted(all)[k] : k \in DOMAIN Sorted(all)} = all
  BY <1>9, <1>10, <1>11, SortedLists
<1>13. t = [s EXCEPT !.unread = @ \ batch, !.running = Cardinality(s.unread) >= Batch,
                     !.entries = Sorted(all), !.truncated = @ \/ kept # wanted]
  BY <1>2 DEF Take, all, new
<1> DEFINE goesOn == Cardinality(s.unread) >= Batch
           cut == s.truncated \/ kept # wanted
           list == Sorted(all)
           rest == s.unread \ batch
<1>a. goesOn \in BOOLEAN /\ cut \in BOOLEAN /\ list \in Seq(Listings) /\ rest \in SUBSET Items
  BY <1>3, <1>12
<1>b. t = [s EXCEPT !.unread = rest, !.running = goesOn, !.entries = list, !.truncated = cut]
  BY <1>13
<1> HIDE DEF wanted, goesOn, cut, list, rest
<1>14. /\ t \in Scanners /\ t.path = s.path /\ t.failed = s.failed
       /\ t.unread = rest /\ t.running = goesOn
       /\ t.entries = list /\ t.truncated = cut
  BY <1>a, <1>b DEF Scanners
<1>15. Listed(t) = all
  BY <1>12, <1>14 DEF Listed, list
<1>16. \A entry \in all : entry.path \notin t.unread \cup Others
  BY <1>5, <1>7, <1>14 DEF all, Apart, rest
<1>17. ~t.running => batch = s.unread
  <2>1. ~goesOn => Cardinality(s.unread) < Batch
    BY <1>4, CardFacts DEF goesOn
  <2> QED
    BY <2>1, <1>4, <1>14
<1>18. \A item \in kept : item \in Books => Exists(card[item])
  BY <1>2 DEF wanted
<1> QED
  BY <1>4, <1>5, <1>10, <1>14, <1>15, <1>16, <1>17, <1>18
     DEF Takes, Apart, all, new, wanted, rest, cut
-----------------------------------------------------------------------------
(***************************************************************************)
(* What most steps have in common: the card and its cache stay, covers may *)
(* only be moved or let go, the queue is left alone or made anew without a *)
(* book in work, and the preparation goes on, or is not under way, or is   *)
(* given up.                                                               *)
(***************************************************************************)
Scans ==
  \/ scanner' = scanner
  \/ \E folder \in Folders : scanner' \in StartScan(scanner, card, folder, BusFree)
  \/ scanner.running /\ scanner' \in NextBatch(scanner, card, BusFree)

Browses ==
  /\ UNCHANGED <<card, changed, cache>> /\ portal' \in {"Off", "On", "Receiving"}
  /\ app' \in {"FileBrowser", "LibraryMenu", "LibraryPrefetch", "Book"}
  /\ dirty' \in BOOLEAN /\ busy' \in BOOLEAN
  /\ scanner' \in Scanners /\ Scans
  /\ view' \in Views /\ From(view'.previews, view.previews)
  /\ history' \in Seq(Places) /\ restore' \in Places /\ left' \in [Folders -> Nat]
  /\ queue' \in Queues
  /\ \/ queue' = queue /\ parser' = parser /\ (app' = app \/ ~queue.active)
     \/ /\ ~queue'.active /\ parser' = NoParser
        /\ queue'.books = queue.books \/ From(queue'.books, scanner'.entries)
  /\ \/ /\ UNCHANGED prepareVars
        /\ app' = app \/ (app # "LibraryPrefetch" /\ app' # "LibraryPrefetch")
     \/ prepare' = NewPrepare /\ missing' = {} /\ app' # "LibraryPrefetch"

LEMMA BusIsFree == BusFree \in BOOLEAN
BY DEF BusFree

LEMMA EmptyFrom ==
  ASSUME NEW s
  PROVE  From(<<>>, s)
BY EmptySeq DEF From

LEMMA NoQueueTyped == NoQueue \in Queues /\ ~NoQueue.active /\ NoQueue.books = <<>>
BY EmptySeq DEF NoQueue, Queues

LEMMA NoRestoreTyped == NoRestore \in Places
BY DEF NoRestore, Places

LEMMA PlaceTyped ==
  ASSUME NEW v \in Views
  PROVE  [path |-> v.path, page |-> v.page] \in Places
<1>1. v.path \in Folders /\ v.page \in Nat
  BY DEF Views
<1>2. \A folder \in Folders : folder \in Int
  BY CardFacts
<1> QED
  BY <1>1, <1>2 DEF Places

LEMMA OpenFolderBrowses ==
  ASSUME LibraryTypes, OpenFolder
  PROVE  Browses
<1>1. PICK entry \in ToSet(EntriesOn(view, scanner.entries, view.page)) :
        /\ entry.path \in Folders
        /\ history' = Append(history, [path |-> view.path, page |-> view.page])
        /\ left' = [left EXCEPT ![view.path] = view.page]
        /\ StartDirectory(view, entry.path, BusFree)
  BY DEF OpenFolder
<1>2. view \in Views /\ scanner \in Scanners /\ queue \in Queues
  BY DEF LibraryTypes
<1>3. /\ scanner' \in Scanners /\ scanner' \in StartScan(scanner, card, entry.path, BusFree)
      /\ view' \in Views /\ From(view'.previews, view.previews)
      /\ queue' \in Queues /\ ~queue'.active /\ queue'.books = <<>>
      /\ parser' = NoParser /\ dirty' = TRUE
  BY <1>1, <1>2, BusIsFree, StartDirectoryDoes
<1>4. Scans
  BY <1>1, <1>3 DEF Scans
<1>5. [path |-> view.path, page |-> view.page] \in Places
  BY <1>2, PlaceTyped
<1>6. history' \in Seq(Places)
  BY <1>1, <1>5, AppendProperties DEF LibraryTypes
<1>7. left' \in [Folders -> Nat]
  BY <1>1, <1>2 DEF Views, LibraryTypes
<1> QED
  BY <1>3, <1>4, <1>6, <1>7, EmptyFrom, NoRestoreTyped
     DEF Browses, OpenFolder, Browsing, Touched, cardVars, prepareVars, LibraryTypes

LEMMA PoppedHistory ==
  ASSUME history \in Seq(Places), history # <<>>
  PROVE  /\ Last(history) = history[Len(history)] /\ Last(history) \in Places
         /\ Front(history) \in Seq(Places) /\ Len(Front(history)) = Len(history) - 1
         /\ \A i \in 1 .. Len(history) - 1 : Front(history)[i] = history[i]
<1>1. Len(history) \in Nat \ {0} /\ \A i \in 1 .. Len(history) : history[i] \in Places
  BY EmptySeq, LenProperties, ElementOfSeq
<1> DEFINE n == Len(history) - 1
<1>2. Front(history) = SubSeq(history, 1, n)
  BY DEF Front
<1>3. n \in Nat /\ \A i \in 1 .. n : history[i] \in Places
  BY <1>1
<1> HIDE DEF n
<1>4. /\ SubSeq(history, 1, n) \in Seq(Places)
      /\ Len(SubSeq(history, 1, n)) = IF 1 <= n THEN n - 1 + 1 ELSE 0
      /\ \A i \in 1 .. n - 1 + 1 : SubSeq(history, 1, n)[i] = history[1 + i - 1]
  BY <1>3, SubSeqProperties
<1>5. Len(SubSeq(history, 1, n)) = n /\ \A i \in 1 .. n : SubSeq(history, 1, n)[i] = history[i]
  BY <1>3, <1>4
<1> QED
  BY <1>1, <1>2, <1>4, <1>5 DEF Last, n

LEMMA OpenParentBrowses ==
  ASSUME LibraryTypes, OpenParent
  PROVE  Browses
<1>1. view \in Views /\ scanner \in Scanners /\ queue \in Queues /\ view.path \in Folders
  BY DEF LibraryTypes, Views
<1>2. Parent[view.path] \in Folders
  BY <1>1, CardFacts DEF OpenParent
<1>3. /\ scanner' \in Scanners /\ scanner' \in StartScan(scanner, card, Parent[view.path], BusFree)
      /\ view' \in Views /\ From(view'.previews, view.previews)
      /\ queue' \in Queues /\ ~queue'.active /\ queue'.books = <<>>
      /\ parser' = NoParser /\ dirty' = TRUE
  BY <1>1, <1>2, BusIsFree, StartDirectoryDoes DEF OpenParent
<1>4. Scans
  BY <1>2, <1>3 DEF Scans
<1>5. history' \in Seq(Places) /\ restore' \in Places
  BY PoppedHistory, NoRestoreTyped DEF OpenParent, LibraryTypes
<1> QED
  BY <1>3, <1>4, <1>5, EmptyFrom
     DEF Browses, OpenParent, Browsing, Touched, cardVars, prepareVars, LibraryTypes

LEMMA TurnPageBrowses ==
  ASSUME LibraryTypes, TurnPage
  PROVE  Browses
<1>1. view \in Views /\ scanner.entries \in Seq(Listings) /\ view.page \in Nat /\ scanner' = scanner
  BY DEF LibraryTypes, Views, Scanners, TurnPage, browserVars
<1>2. CASE dirty' = FALSE /\ UNCHANGED <<view, queue, parser, busy>>
  BY <1>2, FromSame
     DEF Browses, Scans, TurnPage, Browsing, Touched, cardVars, browserVars, prepareVars, LibraryTypes
<1>3. ASSUME NEW page \in Nat, SchedulePreviews([view EXCEPT !.page = page], scanner.entries)
      PROVE  Browses
  <2>1. [view EXCEPT !.page = page] \in Views /\ [view EXCEPT !.page = page].previews = view.previews
    BY <1>1, <1>3 DEF Views
  <2>2. Rescheduled([view EXCEPT !.page = page], scanner.entries)
    BY <1>1, <1>3, <2>1, SchedulePreviewsDoes DEF LibraryTypes
  <2>3. view' \in Views /\ From(view'.previews, view.previews)
    BY <2>1, <2>2 DEF Rescheduled, Shows
  <2> QED
    BY <1>1, <2>2, <2>3
       DEF Browses, Scans, Rescheduled, TurnPage, Browsing, Touched, cardVars, browserVars,
           prepareVars, LibraryTypes
<1>4. \A last : \A page \in {view.page - 1, view.page, view.page + 1} \cap 0 .. last : page \in Nat
  BY <1>1
<1> QED
  BY <1>2, <1>3, <1>4 DEF TurnPage

(* The steps that show the browser again, with the model set anew *)
LEMMA ModelRescheduled ==
  ASSUME LibraryTypes, NEW entries \in Seq(Listings),
         SchedulePreviews(SetModel(view, view.path, entries), entries)
  PROVE  Rescheduled(SetModel(view, view.path, entries), entries) /\ Shows(view', view)
<1>1. view \in Views /\ view.path \in Folders
  BY DEF LibraryTypes, Views
<1>2. [view EXCEPT !.path = view.path] = view
  BY <1>1 DEF Views
<1>3. Shows(SetModel(view, view.path, entries), view)
  BY <1>1, <1>2, SetModelShows
<1>4. SetModel(view, view.path, entries) \in Views
  BY <1>3 DEF Shows
<1>5. Rescheduled(SetModel(view, view.path, entries), entries)
  BY <1>4, SchedulePreviewsDoes DEF LibraryTypes
<1> QED
  BY <1>3, <1>5, FromTrans DEF Shows, Rescheduled

LEMMA ReturnBrowses ==
  ASSUME LibraryTypes, CloseBook \/ FinishCardPrefetch
  PROVE  Browses
<1>1. scanner.entries \in Seq(Listings) /\ scanner' = scanner
  BY DEF LibraryTypes, Scanners, CloseBook, FinishCardPrefetch, browserVars
<1>2. SchedulePreviews(SetModel(view, view.path, scanner.entries), scanner.entries)
  BY DEF CloseBook, FinishCardPrefetch
<1>3. Rescheduled(SetModel(view, view.path, scanner.entries), scanner.entries) /\ Shows(view', view)
  BY <1>1, <1>2, ModelRescheduled
<1>4. /\ view' \in Views /\ From(view'.previews, view.previews)
      /\ queue' \in Queues /\ ~queue'.active /\ From(queue'.books, scanner'.entries)
      /\ parser' = NoParser /\ dirty' \in BOOLEAN /\ busy' \in BOOLEAN
  BY <1>1, <1>3 DEF Rescheduled, Shows
<1>5. CASE CloseBook
  BY <1>1, <1>4, <1>5
     DEF Browses, Scans, CloseBook, Touched, cardVars, browserVars, prepareVars, LibraryTypes
<1>6. CASE FinishCardPrefetch
  BY <1>1, <1>4, <1>6
     DEF Browses, Scans, FinishCardPrefetch, Touched, cardVars, browserVars, LibraryTypes
<1> QED
  BY <1>5, <1>6

LEMMA CloseMenuBrowses ==
  ASSUME LibraryTypes, CloseMenu
  PROVE  Browses
<1>1. scanner.entries \in Seq(Listings) /\ scanner' = scanner /\ view \in Views
  BY DEF LibraryTypes, Scanners, CloseMenu, browserVars
<1>2. Rescheduled(view, scanner.entries)
  BY <1>1, SchedulePreviewsDoes DEF LibraryTypes, CloseMenu
<1> QED
  BY <1>1, <1>2
     DEF Browses, Scans, Rescheduled, Shows, CloseMenu, Touched, cardVars, browserVars, prepareVars,
         LibraryTypes

LEMMA RedrawBrowses ==
  ASSUME LibraryTypes, ParserSound, DismissError \/ Render
  PROVE  Browses
<1>1. scanner.entries \in Seq(Listings) /\ scanner' = scanner /\ view \in Views /\ view.path \in Folders
  BY DEF LibraryTypes, Scanners, Views, DismissError, Render, browserVars
<1>2. CASE Render
  <2>1. Shows(view', view) /\ dirty' \in BOOLEAN /\ busy' \in BOOLEAN
    BY <1>1, <1>2, DrawnShows DEF Render, LibraryTypes
  <2> QED
    BY <1>1, <1>2, <2>1
       DEF Browses, Scans, Shows, Render, cardVars, browserVars, prepareVars, LibraryTypes
<1>3. CASE DismissError
  <2> DEFINE w == SetModel(view, view.path, scanner.entries)
  <2>1. [view EXCEPT !.path = view.path] = view
    BY <1>1 DEF Views
  <2>2. Shows(w, view)
    BY <1>1, <2>1, SetModelShows
  <2>3. Drawn(w, scanner.entries, TRUE)
    BY <1>3 DEF DismissError
  <2> HIDE DEF w
  <2>4. Shows(view', w) /\ dirty' \in BOOLEAN /\ busy' \in BOOLEAN
    BY <1>1, <2>2, <2>3, DrawnShows DEF LibraryTypes, Shows
  <2>5. Shows(view', view)
    BY <2>2, <2>4, FromTrans DEF Shows
  <2> QED
    BY <1>1, <1>3, <2>4, <2>5
       DEF Browses, Scans, Shows, DismissError, Touched, cardVars, browserVars, prepareVars,
           LibraryTypes, ParserSound
<1> QED
  BY <1>2, <1>3

LEMMA LeaveBrowses ==
  ASSUME LibraryTypes, OpenBook \/ OpenMenu
  PROVE  Browses
<1>1. view \in Views /\ scanner \in Scanners /\ queue \in Queues
  BY DEF LibraryTypes
<1>2. CASE OpenBook
  <2>1. view' = [view EXCEPT !.previews = <<>>] /\ queue' = [queue EXCEPT !.active = FALSE]
    BY <1>2 DEF OpenBook
  <2>2. <<>> \in Seq(Covers)
    BY EmptySeq
  <2>3. view' \in Views /\ From(view'.previews, view.previews)
    BY <1>1, <2>1, <2>2, EmptyFrom DEF Views
  <2>4. queue' \in Queues /\ ~queue'.active /\ queue'.books = queue.books
    BY <1>1, <2>1 DEF Queues
  <2> QED
    BY <1>2, <2>3, <2>4
       DEF Browses, Scans, OpenBook, Browsing, Touched, cardVars, browserVars, prepareVars,
           LibraryTypes
<1>3. CASE OpenMenu
  <2>1. queue' \in Queues /\ ~queue'.active /\ From(queue'.books, scanner'.entries)
    BY <1>3, NoQueueTyped, EmptyFrom DEF OpenMenu
  <2> QED
    BY <1>3, <2>1, FromSame
       DEF Browses, Scans, OpenMenu, Browsing, Touched, cardVars, browserVars, prepareVars,
           LibraryTypes
<1> QED
  BY <1>2, <1>3

LEMMA PortalBrowses ==
  ASSUME LibraryTypes, StartPortal \/ BeginUpload
  PROVE  Browses
<1>1. view \in Views /\ scanner \in Scanners /\ queue \in Queues
  BY DEF LibraryTypes
<1>2. CASE StartPortal
  <2>1. queue' \in Queues /\ ~queue'.active /\ From(queue'.books, scanner'.entries)
    BY <1>2, NoQueueTyped, EmptyFrom DEF StartPortal
  <2> QED
    BY <1>2, <2>1, FromSame
       DEF Browses, Scans, StartPortal, browserVars, LibraryTypes
<1>3. CASE BeginUpload
  BY <1>3, FromSame DEF Browses, Scans, BeginUpload, browserVars, prepareVars, LibraryTypes
<1> QED
  BY <1>2, <1>3

LEMMA StayBrowses ==
  ASSUME LibraryTypes, PanelIdles \/ UNCHANGED vars
  PROVE  Browses
<1>1. CASE PanelIdles
  BY <1>1, FromSame
     DEF Browses, Scans, PanelIdles, cardVars, browserVars, prepareVars, LibraryTypes
<1>2. CASE UNCHANGED vars
  BY <1>2, FromSame
     DEF Browses, Scans, vars, cardVars, browserVars, prepareVars, LibraryTypes
<1> QED
  BY <1>1, <1>2

LEMMA NextBatchTyped ==
  ASSUME LibraryTypes, Apart(scanner), NEW t \in NextBatch(scanner, card, BusFree)
  PROVE  t \in Scanners
<1>1. CASE BusFree
  <2>1. t \in NextBatch(scanner, card, TRUE)
    BY <1>1 DEF NextBatch
  <2> QED
    BY <2>1, BatchTaken DEF LibraryTypes, Takes
<1>2. CASE ~BusFree
  BY <1>2 DEF NextBatch, LibraryTypes
<1> QED
  BY <1>1, <1>2

LEMMA ScanBrowses ==
  ASSUME LibraryTypes, Apart(scanner), Scan
  PROVE  Browses
<1>1. view \in Views /\ scanner \in Scanners /\ queue \in Queues /\ view.path \in Folders
  BY DEF LibraryTypes, Views
<1>2. scanner' \in Scanners /\ Scans
  BY NextBatchTyped DEF Scan, Scans
<1>3. scanner'.entries \in Seq(Listings)
  BY <1>2 DEF Scanners
<1>4. CASE scanner'.running
  <2>1. Drawn(view, scanner'.entries, dirty) /\ UNCHANGED <<restore, left, queue, parser>>
    BY <1>4 DEF Scan
  <2>2. Shows(view', view) /\ dirty' \in BOOLEAN /\ busy' \in BOOLEAN
    BY <1>1, <1>3, <2>1, DrawnShows DEF LibraryTypes
  <2> QED
    BY <1>2, <2>1, <2>2 DEF Browses, Shows, Scan, cardVars, prepareVars, LibraryTypes
<1>5. CASE ~scanner'.running
  <2> DEFINE model == SetModel(view, view.path, scanner'.entries)
             here == restore.path = view.path
             w == IF here THEN SetPage(model, scanner'.entries, restore.page) ELSE model
  <2>1. /\ SchedulePreviews(w, scanner'.entries)
        /\ restore' = IF here THEN NoRestore ELSE restore
        /\ left' = IF here THEN [left EXCEPT ![view.path] = 0] ELSE left
    BY <1>5 DEF Scan
  <2>2. [view EXCEPT !.path = view.path] = view
    BY <1>1 DEF Views
  <2>3. Shows(model, view)
    BY <1>1, <1>3, <2>2, SetModelShows
  <2>4. restore.page \in Nat
    BY DEF LibraryTypes, Places
  <2> HIDE DEF model
  <2>5. Shows(w, view)
    <3>1. model \in Views
      BY <2>3 DEF Shows
    <3>2. Shows(SetPage(model, scanner'.entries, restore.page), model)
      BY <1>3, <2>4, <3>1, SetPageShows
    <3> QED
      BY <2>3, <3>2, FromTrans DEF Shows
  <2> HIDE DEF w
  <2>6. w \in Views
    BY <2>5 DEF Shows
  <2>7. Rescheduled(w, scanner'.entries)
    BY <1>3, <2>1, <2>6, SchedulePreviewsDoes DEF LibraryTypes
  <2>8. view' \in Views /\ From(view'.previews, view.previews)
    BY <2>5, <2>7, FromTrans DEF Rescheduled, Shows
  <2>9. restore' \in Places /\ left' \in [Folders -> Nat]
    <3>1. restore \in Places /\ left \in [Folders -> Nat]
      BY DEF LibraryTypes
    <3>2. [left EXCEPT ![view.path] = 0] \in [Folders -> Nat]
      BY <1>1, <3>1
    <3> HIDE DEF here
    <3> QED
      BY <2>1, <3>1, <3>2, NoRestoreTyped
  <2> QED
    BY <1>2, <2>7, <2>8, <2>9 DEF Browses, Rescheduled, Scan, cardVars, prepareVars, LibraryTypes
<1> QED
  BY <1>4, <1>5

(* The steps that collect nothing and in which the card stays as it is *)
BrowserStep ==
  \/ StartPortal \/ BeginUpload \/ (User /\ ~BeginCardPrefetch)
  \/ Scan \/ Render \/ PanelIdles \/ UNCHANGED vars

LEMMA BrowserStepBrowses ==
  ASSUME LibraryTypes, ParserSound, Apart(scanner), BrowserStep
  PROVE  Browses
BY OpenFolderBrowses, OpenParentBrowses, TurnPageBrowses, ReturnBrowses, CloseMenuBrowses,
   RedrawBrowses, LeaveBrowses, PortalBrowses, StayBrowses, ScanBrowses DEF BrowserStep, User
-----------------------------------------------------------------------------
(* At first nothing is listed, and what is there is still to be read.      *)
LEMMA NoneGone ==
  ASSUME NEW s, NEW folder, Listed(s) = {}, s.unread = Holds(card, folder)
  PROVE  /\ \A item \in s.unread : item \in Holds(card, folder)
         /\ InSight(Listed(s)) \cup {Entry(card, item) : item \in ToRead(s)} = Wanted(folder)
<1>1. InSight(Listed(s)) = {}
  BY DEF InSight
<1>2. \A item \in Holds(card, folder) : ~Gone(item)
  BY DEF Holds, Exists, Gone, Lost
<1>3. ToRead(s) = Holds(card, folder) \ Others
  BY <1>2 DEF ToRead
<1> QED
  BY <1>1, <1>3 DEF Wanted

(* The scan of a folder while the card stays as it is                      *)
LEMMA StartScanSound ==
  ASSUME LibraryTypes, NEW folder \in Folders, NEW busFree \in BOOLEAN,
         scanner' \in StartScan(scanner, card, folder, busFree),
         scanner' # scanner \/ busFree, card' = card
  PROVE  ScanSound' /\ Listed(scanner') = {}
<1>1. \/ scanner' = [NewScanner EXCEPT !.path = folder, !.running = TRUE, !.unread = Holds(card, folder)]
      \/ scanner' = [NewScanner EXCEPT !.path = folder, !.failed = TRUE]
  BY DEF StartScan
<1>2. Listed(scanner') = {}
  <2>1. <<>> \in Seq(Listings) /\ Len(<<>>) = 0
    BY EmptySeq
  <2>2. DOMAIN <<>> = {}
    BY <2>1, LenProperties
  <2>3. scanner'.entries = <<>>
    BY <1>1 DEF NewScanner
  <2> QED
    BY <2>2, <2>3 DEF Listed
<1>3. Apart(scanner')
  BY <1>2 DEF Apart, Distinct
<1>4. CASE scanner' = [NewScanner EXCEPT !.path = folder, !.running = TRUE, !.unread = Holds(card, folder)]
  <2>1. /\ scanner'.running /\ scanner'.unread = Holds(card, folder) /\ scanner'.path = folder
    BY <1>4 DEF NewScanner
  <2>2. /\ \A item \in scanner'.unread : item \in Holds(card, folder)
        /\ InSight(Listed(scanner')) \cup {Entry(card, item) : item \in ToRead(scanner')} =
             Wanted(folder)
    BY <1>2, <2>1, NoneGone
  <2>3. /\ Holds(card, folder)' = Holds(card, folder) /\ Wanted(folder)' = Wanted(folder)
        /\ \A item : Gone(item)' <=> Gone(item)
    BY DEF Holds, Wanted, Entry, Gone
  <2>4. /\ InSight(Listed(scanner))' = InSight(Listed(scanner'))
        /\ ToRead(scanner)' = ToRead(scanner')
    BY <2>3 DEF InSight, ToRead, Listed
  <2>5. {Entry(card, item) : item \in ToRead(scanner)}' =
          {Entry(card, item) : item \in ToRead(scanner')}
    BY <2>4 DEF Entry
  <2>6. Apart(scanner)'
    BY <1>3 DEF Apart, Distinct, Listed
  <2>7. (\A item \in scanner.unread : item \in Holds(card, scanner.path))'
    BY <2>1, <2>2, <2>3
  <2>8. (InSight(Listed(scanner)) \cup {Entry(card, item) : item \in ToRead(scanner)} =
           Wanted(scanner.path))'
    BY <2>1, <2>2, <2>3, <2>4, <2>5
  <2> QED
    BY <1>2, <2>1, <2>6, <2>7, <2>8 DEF ScanSound
<1>5. CASE scanner' = [NewScanner EXCEPT !.path = folder, !.failed = TRUE]
  <2>1. ~scanner'.running /\ scanner'.unread = {} /\ scanner'.failed
    BY <1>5 DEF NewScanner
  <2> QED
    BY <1>2, <1>3, <2>1 DEF ScanSound
<1> QED
  BY <1>1, <1>2, <1>4, <1>5

LEMMA BatchSound ==
  ASSUME LibraryTypes, ScanSound, ListsSound, scanner.running,
         scanner' \in NextBatch(scanner, card, TRUE), UNCHANGED <<card, changed>>
  PROVE  /\ ScanSound'
         /\ \A entry \in Listed(scanner') : entry.path \in Books => Current(entry.path, entry.stamp)
<1>1. scanner \in Scanners /\ Apart(scanner) /\ card \in [Books -> -2 .. MaxVersion] /\ scanner.unread \in SUBSET Items
  BY DEF LibraryTypes, ScanSound, Scanners
<1>2. PICK batch \in SUBSET scanner.unread :
        \E kept \in SUBSET (batch \ Others) : Takes(scanner, scanner', batch, kept)
  BY <1>1, BatchTaken
<1>p. PICK kept \in SUBSET (batch \ Others) : Takes(scanner, scanner', batch, kept)
  BY <1>2
<1>3. /\ scanner'.path = scanner.path /\ scanner'.failed = scanner.failed
      /\ scanner'.unread = scanner.unread \ batch /\ (~scanner'.running => batch = scanner.unread)
      /\ \A item \in kept : item \in Books => Exists(card[item])
      /\ Apart(scanner')
      /\ Listed(scanner') = Listed(scanner) \cup {Entry(card, item) : item \in kept}
      /\ ~scanner'.truncated =>
           /\ ~scanner.truncated
           /\ kept = {item \in batch \ Others : item \in Books => Exists(card[item])}
  BY <1>p DEF Takes
<1>4. \A item \in kept : item \in Books => Current(item, card[item])
  <2>1. ASSUME NEW item \in kept, item \in Books
        PROVE  Current(item, card[item])
    <3>1. card[item] \in Int /\ Exists(card[item])
      BY <1>1, <1>3, <2>1
    <3> QED
      BY <3>1 DEF Current, NotNewer, Exists
  <2> QED
    BY <2>1
<1>5. \A entry \in Listed(scanner') : entry.path \in Books => Current(entry.path, entry.stamp)
  <2>1. \A item \in kept :
          Entry(card, item).path = item /\ (item \in Books => Entry(card, item).stamp = card[item])
    BY DEF Entry
  <2> QED
    BY <1>3, <1>4, <2>1 DEF ListsSound
<1>6. ASSUME ~changed, ~scanner'.failed, ~scanner'.truncated
      PROVE  InSight(Listed(scanner')) \cup {Entry(card, item) : item \in ToRead(scanner')}
               = Wanted(scanner'.path)
  <2>1. \A item \in scanner.unread : item \in Holds(card, scanner.path) \/ Gone(item)
    BY <1>6 DEF ScanSound
  <2>2. \A item \in scanner.unread : (item \in Books => Exists(card[item])) <=> ~Gone(item)
    BY <2>1 DEF Holds, Gone, Exists, Lost
  <2>3. kept = {item \in batch \ Others : ~Gone(item)}
    BY <1>3, <1>6, <2>2
  <2>4. InSight(Listed(scanner)) \cup {Entry(card, item) : item \in ToRead(scanner)}
          = Wanted(scanner.path)
    BY <1>3, <1>6 DEF ScanSound
  <2>5. ToRead(scanner) = kept \cup ToRead(scanner')
    BY <1>3, <2>3 DEF ToRead
  <2>6. {Entry(card, item) : item \in ToRead(scanner)} =
          {Entry(card, item) : item \in kept} \cup {Entry(card, item) : item \in ToRead(scanner')}
    <3> DEFINE a == ToRead(scanner)
               b == ToRead(scanner')
    <3>1. a = kept \cup b
      BY <2>5
    <3> HIDE DEF a, b
    <3> QED
      <4>1. {Entry(card, item) : item \in a} =
              {Entry(card, item) : item \in kept} \cup {Entry(card, item) : item \in b}
        BY <3>1
      <4> QED
        BY <4>1 DEF a, b
  <2>7. InSight(Listed(scanner')) =
          InSight(Listed(scanner)) \cup {Entry(card, item) : item \in kept}
    <3>1. \A item \in kept : Entry(card, item).path = item /\ ~Gone(item)
      BY <2>3 DEF Entry
    <3> QED
      BY <1>3, <3>1 DEF InSight
  <2> QED
    BY <1>3, <2>4, <2>6, <2>7
<1>7. /\ \A folder \in Folders : Wanted(folder)' = Wanted(folder)
      /\ \A item : Gone(item)' <=> Gone(item)
  BY DEF Wanted, Entry, Holds, Gone
<1>8. scanner'.running /\ ~changed =>
        \A item \in scanner'.unread : item \in Holds(card, scanner'.path) \/ Gone(item)
  BY <1>3 DEF ScanSound
<1>9. ~scanner'.running => scanner'.unread = {}
  BY <1>3
<1>10. /\ InSight(Listed(scanner))' = InSight(Listed(scanner'))
       /\ ToRead(scanner)' = ToRead(scanner')
  BY <1>7 DEF InSight, ToRead, Listed
<1>11. {Entry(card, item) : item \in ToRead(scanner)}' =
          {Entry(card, item) : item \in ToRead(scanner')}
  BY <1>10 DEF Entry
<1>12. Apart(scanner)'
  BY <1>3 DEF Apart, Distinct, Listed
<1>13. Wanted(scanner.path)' = Wanted(scanner'.path) /\ Holds(card, scanner.path)' = Holds(card, scanner'.path)
  BY DEF Wanted, Entry, Holds
<1>14. (scanner.running /\ ~changed =>
          \A item \in scanner.unread : item \in Holds(card, scanner.path) \/ Gone(item))'
  BY <1>7, <1>8, <1>13
<1>15. (~changed /\ ~scanner.failed /\ ~scanner.truncated =>
          InSight(Listed(scanner)) \cup {Entry(card, item) : item \in ToRead(scanner)} =
            Wanted(scanner.path))'
  BY <1>6, <1>10, <1>11, <1>13
<1>16. (~scanner.running => scanner.unread = {})'
  BY <1>9
<1>17. ScanSound'
  BY <1>12, <1>14, <1>15, <1>16 DEF ScanSound
<1> QED
  BY <1>5, <1>17

LEMMA ScansSound ==
  ASSUME LibraryTypes, ScanSound, ListsSound, Scans, UNCHANGED <<card, changed>>
  PROVE  /\ ScanSound'
         /\ \A entry \in Listed(scanner') : entry.path \in Books => Current(entry.path, entry.stamp)
<1>1. CASE scanner' = scanner
  BY <1>1 DEF ScanSound, ListsSound, Wanted, InSight, ToRead, Gone, Apart, Distinct
<1>2. ASSUME NEW folder \in Folders, scanner' \in StartScan(scanner, card, folder, BusFree),
             scanner' # scanner
      PROVE  ScanSound' /\ Listed(scanner') = {}
  BY <1>2, BusIsFree, StartScanSound
<1>3. CASE scanner.running /\ scanner' \in NextBatch(scanner, card, BusFree) /\ scanner' # scanner
  <2>1. scanner' \in NextBatch(scanner, card, TRUE)
    BY <1>3 DEF NextBatch
  <2> QED
    BY <1>3, <2>1, BatchSound
<1> QED
  BY <1>1, <1>2, <1>3 DEF Scans
-----------------------------------------------------------------------------
(* The browser's steps keep all that is known of covers and scans.         *)
LEMMA BrowsesTyped ==
  ASSUME LibraryTypes, Browses
  PROVE  LibraryTypes'
<1>1. NewPrepare \in Preparations
  BY EmptySeq DEF NewPrepare, Preparations
<1>2. NoParser \in Parsers
  BY VersionFacts DEF NoParser, Parsers
<1> QED
  BY <1>1, <1>2 DEF LibraryTypes, Browses, prepareVars

LEMMA BrowsesLists ==
  ASSUME LibraryTypes, ScanSound, ListsSound, Browses
  PROVE  ScanSound' /\ ListsSound'
<1>1. /\ ScanSound'
      /\ \A entry \in Listed(scanner') : entry.path \in Books => Current(entry.path, entry.stamp)
  BY ScansSound DEF Browses
<1>2. \A book, version : Current(book, version)' <=> Current(book, version)
  BY DEF Browses, Current, NotNewer
<1>3. \A book, version : NotNewer(book, version)' <=> NotNewer(book, version)
  BY DEF Browses, NotNewer
<1>4. \A i \in 1 .. Len(queue'.books) : Current(queue'.books[i].path, queue'.books[i].stamp)
  <2>1. CASE queue'.books = queue.books
    BY <2>1 DEF ListsSound
  <2>2. CASE From(queue'.books, scanner'.entries)
    <3> SUFFICES ASSUME NEW i \in 1 .. Len(queue'.books)
                 PROVE  Current(queue'.books[i].path, queue'.books[i].stamp)
      OBVIOUS
    <3>1. PICK j \in 1 .. Len(scanner'.entries) : queue'.books[i] = scanner'.entries[j]
      BY <2>2 DEF From
    <3>2. scanner'.entries \in Seq(Listings) /\ queue'.books \in Seq(Records)
      BY DEF Browses, Scanners, Queues
    <3>3. scanner'.entries[j] \in Listed(scanner')
      BY <3>2, LenProperties DEF Listed
    <3>4. queue'.books[i].path \in Books
      <4>1. queue'.books[i] \in Records
        BY <3>2, ElementOfSeq
      <4> QED
        BY <4>1 DEF Records
    <3> QED
      BY <1>1, <3>1, <3>3, <3>4
  <2> QED
    BY <2>1, <2>2 DEF Browses
<1>5. /\ \A i \in 1 .. Len(prepare'.records) :
           NotNewer(prepare'.records[i].path, prepare'.records[i].stamp)
      /\ \A entry \in missing' : NotNewer(entry.path, entry.stamp)
  <2>1. CASE UNCHANGED prepareVars
    BY <2>1 DEF ListsSound, prepareVars
  <2>2. CASE prepare' = NewPrepare /\ missing' = {}
    BY <2>2, EmptySeq DEF NewPrepare
  <2> QED
    BY <2>1, <2>2 DEF Browses
<1> QED
  BY <1>1, <1>2, <1>3, <1>4, <1>5 DEF ListsSound

LEMMA BrowsesCovers ==
  ASSUME LibraryTypes, CacheSound, PreviewsSound, ParserSound, Browses
  PROVE  CacheSound' /\ PreviewsSound' /\ ParserSound'
<1>1. \A book, version : Current(book, version)' <=> Current(book, version)
  BY DEF Browses, Current, NotNewer
<1>2. CacheSound'
  BY DEF CacheSound, Browses, NotNewer
<1>3. PreviewsSound'
  <2> SUFFICES ASSUME NEW i \in 1 .. Len(view'.previews)
               PROVE  Current(view'.previews[i].path, view'.previews[i].version)
    BY <1>1 DEF PreviewsSound
  <2>1. PICK j \in 1 .. Len(view.previews) : view'.previews[i] = view.previews[j]
    BY DEF Browses, From
  <2> QED
    BY <2>1 DEF PreviewsSound
<1>4. parser'.phase = "ReadPackage" =>
        parser'.book \in Books /\ Current(parser'.book, parser'.version)
  BY DEF Browses, ParserSound, NoParser
<1>5. queue'.active =>
        /\ app' = "FileBrowser" /\ parser'.phase = "ReadPackage"
        /\ queue'.index < Len(queue'.books)
        /\ parser'.book = queue'.books[queue'.index + 1].path
        /\ queue'.books[queue'.index + 1].stamp <= parser'.version
  BY DEF Browses, ParserSound
<1>6. prepare'.active =>
        /\ app' = "LibraryPrefetch" /\ prepare'.book \in Records
        /\ parser'.phase = "ReadPackage" =>
             parser'.book = prepare'.book.path /\ prepare'.book.stamp <= parser'.version
  <2>1. CASE UNCHANGED prepareVars /\ (app' = app \/ (app # "LibraryPrefetch" /\ app' # "LibraryPrefetch"))
    <3>1. prepare'.active => app' = "LibraryPrefetch" /\ prepare'.book \in Records
      BY <2>1 DEF ParserSound, prepareVars
    <3>2. parser' = parser \/ parser'.phase # "ReadPackage"
      BY DEF Browses, NoParser
    <3> QED
      BY <2>1, <3>1, <3>2 DEF ParserSound, prepareVars
  <2>2. CASE prepare' = NewPrepare
    BY <2>2 DEF NewPrepare
  <2> QED
    BY <2>1, <2>2 DEF Browses
<1> QED
  BY <1>1, <1>2, <1>3, <1>4, <1>5, <1>6 DEF ParserSound

LEMMA BrowsesPreparation ==
  ASSUME PreparationSound, Browses
  PROVE  PreparationSound'
<1>1. CASE UNCHANGED prepareVars /\ (app' = app \/ (app # "LibraryPrefetch" /\ app' # "LibraryPrefetch"))
  <2>1. \A entry : Unchanged(entry)' <=> Unchanged(entry)
    BY DEF Unchanged, Browses
  <2>2. \A book : Recorded(prepare, book)' <=> Recorded(prepare, book)
    BY <1>1 DEF Recorded, prepareVars
  <2>3. \A done : SearchedSo(prepare, done)' <=> SearchedSo(prepare, done)
    BY <1>1, <2>1, <2>2 DEF SearchedSo, Reached, prepareVars
  <2> QED
    BY <1>1, <2>1, <2>2, <2>3 DEF PreparationSound, Counts, prepareVars
<1>2. CASE app' # "LibraryPrefetch"
  BY <1>2 DEF PreparationSound, Counts
<1> QED
  BY <1>1, <1>2 DEF Browses
-----------------------------------------------------------------------------
(***************************************************************************)
(* A client brings a book, removes one or loses one: every version in use  *)
(* stays one that is not newer than the book, and what was replaced stays  *)
(* replaced.                                                               *)
(***************************************************************************)
CardChanges ==
  /\ UNCHANGED <<cache, app, browserVars, view, queue, parser, prepareVars, dirty, busy>>
  /\ portal' \in {"Off", "On", "Receiving"} /\ changed' \in BOOLEAN
  /\ card' \in [Books -> -2 .. MaxVersion]
  /\ \A book \in Books :
       \/ card'[book] \in {card[book], -1, Lost}
       \/ card[book] >= 0 /\ card'[book] = card[book] + 1
  /\ ~changed' => ~changed /\ \A book \in Books : card'[book] \in {card[book], Lost}

LEMMA UploadChanges ==
  ASSUME LibraryTypes, EndUpload \/ DeleteBook
  PROVE  CardChanges \/ Browses
<1>1. card \in [Books -> -2 .. MaxVersion]
  BY DEF LibraryTypes
<1>2. ASSUME NEW book \in Uploadable, card[book] \in 0 .. MaxVersion - 1,
             card' = [card EXCEPT ![book] = @ + 1], changed' = TRUE, EndUpload
      PROVE  CardChanges
  <2>1. book \in Books /\ card[book] >= 0 /\ card[book] + 1 \in -2 .. MaxVersion
    BY <1>1, <1>2, CardFacts, VersionFacts
  <2>2. /\ card' \in [Books -> -2 .. MaxVersion]
        /\ \A b \in Books : card'[b] = IF b = book THEN card[b] + 1 ELSE card[b]
    BY <1>1, <1>2, <2>1
  <2> QED
    BY <1>2, <2>1, <2>2 DEF CardChanges, EndUpload
<1>3. ASSUME NEW book \in Uploadable, card' = [card EXCEPT ![book] = -1], DeleteBook
      PROVE  CardChanges
  <2>1. book \in Books
    BY CardFacts
  <2>2. /\ card' \in [Books -> -2 .. MaxVersion]
        /\ \A b \in Books : card'[b] = IF b = book THEN -1 ELSE card[b]
    BY <1>1, <1>3, <2>1, VersionFacts
  <2>3. /\ UNCHANGED <<cache, app, browserVars, view, queue, parser, prepareVars, dirty, busy>>
        /\ portal' \in {"Off", "On", "Receiving"} /\ changed' = TRUE
    BY <1>3 DEF DeleteBook, LibraryTypes
  <2> QED
    BY <2>2, <2>3 DEF CardChanges
<1>5. ASSUME NEW book \in Uploadable, card' = [card EXCEPT ![book] = Lost], changed' = changed,
             EndUpload
      PROVE  CardChanges
  <2>1. book \in Books /\ Lost \in -2 .. MaxVersion /\ changed \in BOOLEAN
    BY CardFacts, VersionFacts DEF Lost, LibraryTypes
  <2>2. /\ card' \in [Books -> -2 .. MaxVersion]
        /\ \A b \in Books : card'[b] = IF b = book THEN Lost ELSE card[b]
    BY <1>1, <1>5, <2>1
  <2> QED
    BY <1>5, <2>1, <2>2 DEF CardChanges, EndUpload
<1>4. CASE EndUpload /\ UNCHANGED <<card, changed>>
  BY <1>4, FromSame DEF Browses, Scans, EndUpload, browserVars, prepareVars, LibraryTypes
<1> QED
  BY <1>2, <1>3, <1>4, <1>5 DEF EndUpload, DeleteBook

(* A book that is lost unnoticed is neither in sight nor wanted any more.  *)
LEMMA LossSeen ==
  ASSUME ScanSound, LibraryTypes, CardChanges, ~changed'
  PROVE  ScanSound'
<1>1. /\ ~changed /\ scanner' = scanner /\ Apart(scanner) /\ scanner \in Scanners
      /\ \A book \in Books : card'[book] \in {card[book], Lost}
  BY DEF CardChanges, browserVars, ScanSound, LibraryTypes
<1>2. /\ \A item : Gone(item) => Gone(item)'
      /\ \A item : ~Gone(item)' => ~Gone(item) /\ Entry(card, item)' = Entry(card, item)
  BY <1>1 DEF Gone, Entry
<1>3. /\ \A folder, item : item \in Holds(card, folder) => item \in Holds(card, folder)' \/ Gone(item)'
      /\ \A folder, item : item \in Holds(card, folder)' =>
           item \in Holds(card, folder) /\ ~Gone(item)'
  BY <1>1 DEF Holds, Exists, Gone, Lost
<1>4. ASSUME ~scanner.failed, ~scanner.truncated
      PROVE  (InSight(Listed(scanner)) \cup {Entry(card, item) : item \in ToRead(scanner)})'
               = Wanted(scanner.path)'
  <2> DEFINE sight == InSight(Listed(scanner))
             read == {Entry(card, item) : item \in ToRead(scanner)}
  <2>1. sight \cup read = Wanted(scanner.path)
    BY <1>1, <1>4 DEF ScanSound
  <2>2. \A item : Entry(card, item).path = item
    BY DEF Entry
  <2>3. Listed(scanner)' = Listed(scanner) /\ scanner.path' = scanner.path
    BY <1>1 DEF Listed
  <2>4. ASSUME NEW entry \in sight'
        PROVE  entry \in Wanted(scanner.path)'
    <3>1. entry \in Listed(scanner) /\ ~Gone(entry.path)' /\ ~Gone(entry.path)
      BY <1>2, <2>3 DEF InSight
    <3>2. entry \in Wanted(scanner.path)
      BY <2>1, <3>1 DEF InSight
    <3>3. PICK item \in Holds(card, scanner.path) \ Others : entry = Entry(card, item)
      BY <3>2 DEF Wanted
    <3>4. entry.path = item
      BY <2>2, <3>3
    <3>5. item \in Holds(card, scanner.path)' /\ entry = Entry(card, item)'
      BY <1>2, <1>3, <2>3, <3>1, <3>3, <3>4
    <3> QED
      BY <3>3, <3>5 DEF Wanted
  <2>5. ASSUME NEW entry \in read'
        PROVE  entry \in Wanted(scanner.path)'
    <3>1. PICK item \in ToRead(scanner)' : entry = Entry(card, item)'
      OBVIOUS
    <3>2. item \in ToRead(scanner) /\ ~Gone(item)' /\ item \notin Others
      BY <1>1, <1>2, <3>1 DEF ToRead
    <3>3. Entry(card, item) \in Wanted(scanner.path)
      BY <2>1, <3>2
    <3>4. item \in Holds(card, scanner.path)
      BY <2>2, <3>3 DEF Wanted
    <3>5. item \in Holds(card, scanner.path)'
      BY <1>3, <2>3, <3>2, <3>4
    <3> QED
      BY <3>1, <3>2, <3>5 DEF Wanted
  <2>6. ASSUME NEW entry \in Wanted(scanner.path)'
        PROVE  entry \in (sight \cup read)'
    <3>1. PICK item \in Holds(card, scanner.path)' \ Others : entry = Entry(card, item)'
      BY DEF Wanted
    <3>2. item \in Holds(card, scanner.path) /\ ~Gone(item)' /\ entry = Entry(card, item)
      BY <1>2, <1>3, <2>3, <3>1
    <3>3. entry \in sight \cup read
      BY <2>1, <3>1, <3>2 DEF Wanted
    <3>4. CASE entry \in sight
      BY <2>2, <2>3, <3>2, <3>4 DEF InSight
    <3>5. CASE entry \in read
      <4>1. PICK other \in ToRead(scanner) : entry = Entry(card, other)
        BY <3>5
      <4>2. item = other
        <5>1. Entry(card, item).path = item /\ Entry(card, other).path = other
          BY <2>2
        <5>2. Entry(card, item) = Entry(card, other)
          BY <3>2, <4>1
        <5> QED
          BY <5>1, <5>2
      <4>3. item \in ToRead(scanner)'
        BY <1>1, <3>2, <4>1, <4>2 DEF ToRead
      <4> QED
        BY <3>1, <4>3
    <3> QED
      BY <3>3, <3>4, <3>5
  <2> QED
    BY <2>4, <2>5, <2>6
<1>5. Apart(scanner)'
  BY <1>1 DEF Apart, Distinct
<1> QED
  BY <1>1, <1>2, <1>3, <1>4, <1>5 DEF ScanSound

LEMMA CardChangesKeep ==
  ASSUME LibraryInv, CardChanges
  PROVE  /\ LibraryTypes' /\ CacheSound' /\ ListsSound' /\ ParserSound' /\ PreviewsSound'
         /\ ScanSound' /\ PreparationSound'
<1>1. LibraryTypes'
  BY DEF LibraryInv, LibraryTypes, CardChanges, browserVars, prepareVars
<1>2. card \in [Books -> -2 .. MaxVersion]
  BY DEF LibraryInv, LibraryTypes
<1>3. ASSUME NEW book \in Books, NEW version \in Int, NotNewer(book, version)
      PROVE  NotNewer(book, version)'
  BY <1>2, <1>3 DEF NotNewer, CardChanges, Lost
<1>4. ASSUME NEW book \in Books, NEW version \in Int, Current(book, version)
      PROVE  Current(book, version)'
  BY <1>3, <1>4 DEF Current, CardChanges
<1>5. UNCHANGED <<cache, app, scanner, view, queue, parser, prepare, missing>>
  BY DEF CardChanges, browserVars, prepareVars
<1>6. CacheSound'
  <2> SUFFICES ASSUME NEW slot \in Slots, cache[slot] # NoThumbnail
               PROVE  NotNewer(cache[slot].path, cache[slot].version)' /\ cache[slot].stamp <= cache[slot].version
    BY <1>5 DEF CacheSound
  <2>1. cache[slot] \in Thumbnails
    BY DEF LibraryInv, LibraryTypes
  <2>2. /\ cache[slot].path \in Books /\ cache[slot].version \in Int
        /\ NotNewer(cache[slot].path, cache[slot].version) /\ cache[slot].stamp <= cache[slot].version
    BY <2>1, VersionFacts DEF LibraryInv, CacheSound, Thumbnails
  <2>3. cache[slot].path' = cache[slot].path
    BY <1>5
  <2> QED
    BY <1>3, <1>5, <2>2
<1>7. ListsSound'
  <2>1. ASSUME NEW entry \in Listed(scanner), entry.path \in Books
        PROVE  Current(entry.path, entry.stamp)'
    <3>1. scanner.entries \in Seq(Listings)
      BY DEF LibraryInv, LibraryTypes, Scanners
    <3>2. entry \in Listings
      BY <3>1, ListFinite DEF Listed
    <3>3. entry.stamp \in Int /\ Current(entry.path, entry.stamp)
      BY <2>1, <3>2, VersionFacts DEF LibraryInv, ListsSound, Listings
    <3> QED
      BY <1>4, <2>1, <3>3
  <2>2. ASSUME NEW i \in 1 .. Len(queue.books)
        PROVE  Current(queue.books[i].path, queue.books[i].stamp)'
    <3>1. queue.books \in Seq(Records)
      BY DEF LibraryInv, LibraryTypes, Queues
    <3>2. queue.books[i] \in Records
      BY <3>1, ElementOfSeq
    <3>3. /\ queue.books[i].path \in Books /\ queue.books[i].stamp \in Int
          /\ Current(queue.books[i].path, queue.books[i].stamp)
      BY <3>2, VersionFacts DEF LibraryInv, ListsSound, Records
    <3> QED
      BY <1>4, <1>5, <3>3
  <2>3. ASSUME NEW i \in 1 .. Len(prepare.records)
        PROVE  NotNewer(prepare.records[i].path, prepare.records[i].stamp)'
    <3>1. prepare.records \in Seq(Records)
      BY DEF LibraryInv, LibraryTypes, Preparations
    <3>2. prepare.records[i] \in Records
      BY <3>1, ElementOfSeq
    <3>3. /\ prepare.records[i].path \in Books /\ prepare.records[i].stamp \in Int
          /\ NotNewer(prepare.records[i].path, prepare.records[i].stamp)
      BY <3>2, VersionFacts DEF LibraryInv, ListsSound, Records
    <3> QED
      BY <1>3, <1>5, <3>3
  <2>4. ASSUME NEW entry \in missing
        PROVE  NotNewer(entry.path, entry.stamp)'
    <3>1. entry.path \in Books /\ entry.stamp \in Int /\ NotNewer(entry.path, entry.stamp)
      BY VersionFacts DEF LibraryInv, LibraryTypes, ListsSound, Records
    <3> QED
      BY <1>3, <3>1
  <2> QED
    BY <1>5, <2>1, <2>2, <2>3, <2>4 DEF ListsSound
<1>8. ParserSound'
  <2>1. ASSUME parser.phase = "ReadPackage"
        PROVE  parser.book \in Books /\ Current(parser.book, parser.version)'
    <3>1. parser.book \in Books /\ parser.version \in Int /\ Current(parser.book, parser.version)
      BY <2>1 DEF LibraryInv, LibraryTypes, ParserSound, Parsers
    <3> QED
      BY <1>4, <1>5, <3>1
  <2> QED
    BY <1>5, <2>1 DEF LibraryInv, ParserSound
<1>9. PreviewsSound'
  <2> SUFFICES ASSUME NEW i \in 1 .. Len(view.previews)
               PROVE  Current(view.previews[i].path, view.previews[i].version)'
    BY <1>5 DEF PreviewsSound
  <2>1. view.previews \in Seq(Covers)
    BY DEF LibraryInv, LibraryTypes, Views
  <2>2. view.previews[i] \in Covers
    BY <2>1, ElementOfSeq
  <2>3. /\ view.previews[i].path \in Books /\ view.previews[i].version \in Int
        /\ Current(view.previews[i].path, view.previews[i].version)
    BY <2>2 DEF LibraryInv, PreviewsSound, Covers
  <2> QED
    BY <1>4, <1>5, <2>3
<1>10. ScanSound'
  <2>1. CASE changed'
    BY <1>5, <2>1 DEF LibraryInv, ScanSound, Apart, Distinct
  <2> QED
    BY <2>1, LossSeen DEF LibraryInv
<1>11. PreparationSound'
  <2>1. ASSUME NEW entry \in missing, Unchanged(entry)'
        PROVE  Unchanged(entry)
    <3>1. entry.path \in Books /\ entry.stamp \in Int /\ NotNewer(entry.path, entry.stamp)
      BY VersionFacts DEF LibraryInv, LibraryTypes, ListsSound, Records
    <3> QED
      BY <1>2, <2>1, <3>1 DEF NotNewer, Unchanged, CardChanges, Lost
  <2>2. \A book : Recorded(prepare, book)' <=> Recorded(prepare, book)
    BY <1>5 DEF Recorded
  <2>3. ASSUME NEW done \in SUBSET Folders, SearchedSo(prepare, done)
        PROVE  SearchedSo(prepare, done)'
    BY <1>5, <2>1, <2>2, <2>3 DEF SearchedSo, Reached
  <2> QED
    BY <1>5, <2>1, <2>2, <2>3 DEF LibraryInv, PreparationSound, Counts
<1> QED
  BY <1>1, <1>6, <1>7, <1>8, <1>9, <1>10, <1>11
-----------------------------------------------------------------------------
(* stopUploadServer(): changes of the card are taken in by a new scan.     *)
Keeps ==
  /\ LibraryTypes' /\ CacheSound' /\ ListsSound' /\ ParserSound' /\ PreviewsSound'
  /\ ScanSound' /\ PreparationSound'

LEMMA BrowsesKeep ==
  ASSUME LibraryInv, Browses
  PROVE  Keeps
BY BrowsesTyped, BrowsesLists, BrowsesCovers, BrowsesPreparation DEF LibraryInv, Keeps

LEMMA StopPortalKeeps ==
  ASSUME LibraryInv, StopPortal
  PROVE  Keeps
<1>1. LibraryTypes /\ view \in Views /\ view.path \in Folders /\ scanner \in Scanners /\ queue \in Queues
  BY DEF LibraryInv, LibraryTypes, Views
<1>2. CASE ~changed
  <2>1. UNCHANGED <<app, scanner, view, queue, parser, prepareVars, dirty, changed, card, cache,
                    history, restore, left>> /\ busy' \in BOOLEAN /\ portal' = "Off"
    BY <1>1, <1>2 DEF StopPortal, LibraryTypes
  <2>2. Browses
    BY <1>1, <2>1, FromSame DEF Browses, Scans, LibraryTypes
  <2> QED
    BY <2>2, BrowsesKeep
<1>3. CASE changed
  <2> DEFINE v == [view EXCEPT !.previews = <<>>]
  <2>1. v \in Views /\ v.previews = <<>>
    BY <1>1, EmptySeq DEF Views
  <2>2. /\ UNCHANGED <<card, cache, history, restore, left>> /\ busy' \in BOOLEAN
        /\ portal' = "Off" /\ changed' = FALSE /\ app' = "FileBrowser"
        /\ prepare' = NewPrepare /\ missing' = {}
        /\ StartDirectory(v, view.path, TRUE)
    BY <1>1, <1>3 DEF StopPortal, LibraryTypes
  <2> HIDE DEF v
  <2>3. /\ scanner' \in Scanners /\ scanner' \in StartScan(scanner, card, view.path, TRUE)
        /\ view' \in Views /\ From(view'.previews, v.previews)
        /\ queue' \in Queues /\ ~queue'.active /\ queue'.books = <<>>
        /\ parser' = NoParser /\ dirty' = TRUE
    BY <1>1, <2>1, <2>2, StartDirectoryDoes
  <2>4. NewPrepare \in Preparations /\ NoParser \in Parsers
    BY EmptySeq, VersionFacts DEF NewPrepare, Preparations, NoParser, Parsers
  <2>5. LibraryTypes'
    BY <1>1, <2>2, <2>3, <2>4 DEF LibraryTypes
  <2>6. CacheSound'
    BY <2>2 DEF LibraryInv, CacheSound, NotNewer
  <2>7. ScanSound' /\ Listed(scanner') = {}
    BY <1>1, <2>2, <2>3, StartScanSound
  <2>8. Len(queue'.books) = 0 /\ Len(prepare'.records) = 0
    BY <2>2, <2>3, EmptySeq DEF NewPrepare
  <2>9. ListsSound'
    BY <2>2, <2>7, <2>8 DEF ListsSound
  <2>10. ParserSound'
    BY <2>2, <2>3 DEF ParserSound, NoParser, NewPrepare
  <2>11. PreviewsSound'
    BY <2>1, <2>3, EmptySeq DEF PreviewsSound, From
  <2>12. PreparationSound'
    BY <2>2 DEF PreparationSound, Counts
  <2> QED
    BY <2>5, <2>6, <2>7, <2>9, <2>10, <2>11, <2>12 DEF Keeps
<1> QED
  BY <1>2, <1>3

(* beginCardPrefetch() *)
LEMMA BeginCardPrefetchKeeps ==
  ASSUME LibraryInv, BeginCardPrefetch
  PROVE  Keeps
<1>1. LibraryTypes /\ card \in [Books -> -2 .. MaxVersion]
  BY DEF LibraryInv, LibraryTypes
<1>2. /\ UNCHANGED <<card, changed, portal, cache, scanner, history, restore, left, view, queue,
                     parser, dirty>>
      /\ app = "LibraryMenu" /\ app' = "LibraryPrefetch" /\ busy' = TRUE
  BY DEF BeginCardPrefetch, Touched, cardVars, browserVars
<1>3. missing' = {Entry(card, book) : book \in {b \in Books : Exists(card[b])}}
  BY DEF BeginCardPrefetch
<1>4. \/ prepare' = [NewPrepare EXCEPT !.phase = "Scanning", !.folders = {Root}]
      \/ prepare' = [NewPrepare EXCEPT !.phase = "Done", !.truncated = TRUE]
  BY DEF BeginCardPrefetch
<1>5. prepare' \in Preparations /\ ~prepare'.active /\ prepare'.records = <<>>
  <2>1. NewPrepare \in Preparations
    BY EmptySeq DEF NewPrepare, Preparations
  <2>2. {Root} \in SUBSET Folders
    BY CardFacts
  <2>3. [NewPrepare EXCEPT !.phase = "Scanning", !.folders = {Root}] \in Preparations
    BY <2>1, <2>2 DEF Preparations
  <2>4. [NewPrepare EXCEPT !.phase = "Done", !.truncated = TRUE] \in Preparations
    BY <2>1 DEF Preparations
  <2>5. ~prepare'.active /\ prepare'.records = <<>>
    BY <1>4 DEF NewPrepare
  <2> QED
    BY <1>4, <2>3, <2>4, <2>5
<1>6. \A entry \in missing' : entry \in Records /\ NotNewer(entry.path, entry.stamp)
  <2>1. ASSUME NEW book \in Books, Exists(card[book])
        PROVE  card[book] \in Versions /\ card[book] >= 1
    <3>1. card[book] \in -2 .. MaxVersion /\ card[book] > 0
      BY <1>1, <2>1 DEF Exists
    <3> QED
      BY <3>1, VersionFacts
  <2> QED
    BY <1>3, <2>1, VersionFacts DEF Entry, Records, NotNewer
<1>7. LibraryTypes'
  BY <1>1, <1>2, <1>5, <1>6 DEF LibraryTypes
<1>8. CacheSound' /\ PreviewsSound' /\ ScanSound'
  BY <1>2 DEF LibraryInv, CacheSound, PreviewsSound, NotNewer, Current, ScanSound, Apart, Distinct,
              Wanted, InSight, ToRead, Gone
<1>9. ListsSound'
  <2>1. Len(prepare'.records) = 0
    BY <1>5, EmptySeq
  <2> QED
    BY <1>2, <1>6, <2>1 DEF LibraryInv, ListsSound, Current, NotNewer
<1>10. ParserSound'
  BY <1>2, <1>5 DEF LibraryInv, ParserSound, Current, NotNewer
<1>11. PreparationSound'
  <2>1. CASE prepare' = [NewPrepare EXCEPT !.phase = "Scanning", !.folders = {Root}]
    <3>1. /\ prepare'.phase = "Scanning" /\ prepare'.folders = {Root} /\ prepare'.folder = NoBook
          /\ ~prepare'.torn /\ prepare'.remaining = 0 /\ ~prepare'.truncated
      BY <2>1 DEF NewPrepare
    <3>2. \A item \in Items : Parent[item] # NoBook
      BY CardFacts
    <3>3. \A folder \in Folders \ {Root} : folder \in Items
      BY CardFacts
    <3>4. \A entry \in missing' : entry.path \in Items
      BY <1>6, CardFacts DEF Records
    <3>5. SearchedSo(prepare, {})'
      BY <3>1, <3>2, <3>3, <3>4 DEF SearchedSo, Reached
    <3>6. Len(prepare'.records) = 0
      BY <1>5, EmptySeq
    <3>7. \E done \in SUBSET Folders : SearchedSo(prepare, done)'
      BY <3>5
    <3> QED
      BY <1>5, <3>1, <3>6, <3>7 DEF PreparationSound, Counts
  <2>2. CASE prepare' = [NewPrepare EXCEPT !.phase = "Done", !.truncated = TRUE]
    BY <2>2 DEF NewPrepare, PreparationSound
  <2> QED
    BY <1>4, <2>1, <2>2
<1> QED
  BY <1>7, <1>8, <1>9, <1>10, <1>11 DEF Keeps
-----------------------------------------------------------------------------
(* The parser, the cache and the thumbnails in memory                      *)
LEMMA ParsedStarted ==
  ASSUME LibraryTypes, NEW book \in Books, NEW p \in Parsed(Started(book))
  PROVE  \/ p = FailedParser
         \/ /\ BusFree /\ Exists(card[book])
            /\ p \in Parsers /\ p.book = book /\ p.phase = "ReadPackage" /\ p.version = card[book]
<1> DEFINE q == Started(book)
<1>1. NoParser \in [book : {NoBook}, phase : {"Idle"}, version : {0}]
  BY DEF NoParser
<1>2. q \in [book : {book}, phase : {"OpenArchive"}, version : {0}]
  BY <1>1 DEF Started
<1> HIDE DEF q
<1>3. q.book = book /\ q.phase = "OpenArchive" /\ card[book] \in Int
  BY <1>2 DEF LibraryTypes
<1>4. \/ p = FailedParser
      \/ /\ BusFree /\ Exists(card[book])
         /\ p = [q EXCEPT !.phase = "ReadPackage", !.version = card[book]]
  BY <1>3 DEF Parsed, q
<1>5. Exists(card[book]) => card[book] \in 0 .. MaxVersion
  <2>1. card[book] \in -2 .. MaxVersion
    BY DEF LibraryTypes
  <2> QED
    BY <2>1, VersionFacts DEF Exists
<1> QED
  BY <1>2, <1>3, <1>4, <1>5 DEF Parsers

LEMMA ParsedOn ==
  ASSUME LibraryTypes, NEW p \in Parsed(parser)
  PROVE  \/ p = FailedParser
         \/ /\ BusFree /\ parser.phase = "ReadPackage"
            /\ p = [parser EXCEPT !.phase = "Ready"]
            /\ p.phase = "Ready" /\ p.book = parser.book /\ p.version = parser.version
<1>1. parser \in Parsers
  BY DEF LibraryTypes
<1> QED
  BY <1>1 DEF Parsed, Parsers

LEMMA Failed == FailedParser.phase = "Failed" /\ FailedParser \notin Parsers
BY DEF FailedParser, NoParser, Parsers

LEMMA SavesSound ==
  ASSUME LibraryTypes, CacheSound, NEW entry \in Records, NEW version \in 0 .. MaxVersion,
         NEW busFree,
         NotNewer(entry.path, version), entry.stamp <= version,
         cache' \in Saves(cache, entry, version, busFree), card' = card
  PROVE  CacheSound' /\ cache' \in [Slots -> Thumbnails \cup {NoThumbnail}]
<1>1. entry.path \in Books /\ entry.stamp \in Versions /\ version \in Versions
  BY VersionFacts DEF Records, NotNewer
<1> DEFINE slot == Slot[entry.path]
           file == [path |-> entry.path, stamp |-> entry.stamp, version |-> version]
<1>2. slot \in Slots /\ file \in Thumbnails
  BY <1>1 DEF Slots, Thumbnails
<1>3. cache \in [Slots -> Thumbnails \cup {NoThumbnail}]
  BY DEF LibraryTypes
<1>4. \/ cache' = cache \/ cache' = [cache EXCEPT ![slot] = NoThumbnail]
      \/ cache' = [cache EXCEPT ![slot] = file]
  BY DEF Saves
<1>5. file.path = entry.path /\ file.stamp = entry.stamp /\ file.version = version
  OBVIOUS
<1> HIDE DEF slot, file
<1>6. cache' \in [Slots -> Thumbnails \cup {NoThumbnail}]
  BY <1>2, <1>3, <1>4
<1>7. \A s \in Slots : cache'[s] \in {cache[s], NoThumbnail, file}
  BY <1>2, <1>3, <1>4
<1>8. \A book, v : NotNewer(book, v)' <=> NotNewer(book, v)
  BY DEF NotNewer
<1>9. CacheSound'
  BY <1>5, <1>7, <1>8 DEF CacheSound
<1> QED
  BY <1>6, <1>9

LEMMA SetPreviewAdds ==
  ASSUME NEW v \in Views, NEW book \in Books, NEW version \in Int
  PROVE  LET w == SetPreview(v, book, version)
         IN /\ w \in Views /\ w.path = v.path
            /\ \A i \in 1 .. Len(w.previews) :
                 \/ \E j \in 1 .. Len(v.previews) : w.previews[i] = v.previews[j]
                 \/ w.previews[i] = [path |-> book, version |-> version]
<1> DEFINE others == {i \in DOMAIN v.previews : v.previews[i].path # book}
           kept == Pick(v.previews, others)
           cover == [path |-> book, version |-> version]
           all == Append(kept, cover)
           new == IF Len(all) > MaxPreviews THEN Tail(all) ELSE all
           Known(c) == (\E j \in 1 .. Len(v.previews) : c = v.previews[j]) \/ c = cover
<1>1. SetPreview(v, book, version) = [v EXCEPT !.previews = new]
  BY DEF SetPreview
<1>2. v.previews \in Seq(Covers) /\ cover \in Covers
  BY DEF Views, Covers
<1>3. others \subseteq 1 .. Len(v.previews)
  BY <1>2, LenProperties
<1> HIDE DEF others, cover
<1>4. kept \in Seq(Covers) /\ From(kept, v.previews)
  BY <1>2, <1>3, PickFrom
<1> HIDE DEF kept
<1>5. /\ all \in Seq(Covers) /\ all # <<>> /\ Len(all) = Len(kept) + 1 /\ Len(kept) \in Nat
      /\ \A i \in 1 .. Len(kept) : all[i] = kept[i]
      /\ all[Len(kept) + 1] = cover
  BY <1>2, <1>4, AppendProperties, LenProperties
<1>6. \A i \in 1 .. Len(all) : Known(all[i])
  <2> SUFFICES ASSUME NEW i \in 1 .. Len(all) PROVE Known(all[i])
    OBVIOUS
  <2>1. CASE i \in 1 .. Len(kept)
    BY <1>4, <1>5, <2>1 DEF From
  <2>2. CASE i = Len(kept) + 1
    BY <1>5, <2>2
  <2> QED
    BY <1>5, <2>1, <2>2
<1> HIDE DEF all, Known
<1>7. /\ Tail(all) \in Seq(Covers) /\ Len(Tail(all)) = Len(all) - 1
      /\ \A i \in 1 .. Len(Tail(all)) : Tail(all)[i] = all[i + 1]
  BY <1>5, HeadTailProperties
<1>8. \A i \in 1 .. Len(Tail(all)) : Known(Tail(all)[i])
  <2>1. \A i \in 1 .. Len(Tail(all)) : i + 1 \in 1 .. Len(all)
    BY <1>5, <1>7
  <2> QED
    BY <1>6, <1>7, <2>1
<1>9. new \in Seq(Covers) /\ \A i \in 1 .. Len(new) : Known(new[i])
  BY <1>5, <1>6, <1>7, <1>8
<1> HIDE DEF new
<1>10. /\ [v EXCEPT !.previews = new] \in Views /\ [v EXCEPT !.previews = new].previews = new
       /\ [v EXCEPT !.previews = new].path = v.path
  BY <1>9 DEF Views
<1> QED
  BY <1>1, <1>9, <1>10 DEF Known, cover
-----------------------------------------------------------------------------
(* serviceLibraryPreviews()                                                *)
LEMMA ScanStays ==
  ASSUME ScanSound, UNCHANGED <<card, changed, scanner>>
  PROVE  ScanSound'
BY DEF ScanSound, Apart, Distinct, Wanted, InSight, ToRead, Gone

LEMMA PreparationStays ==
  ASSUME PreparationSound, UNCHANGED <<card, app, prepare, missing>>
  PROVE  PreparationSound'
<1>1. \A entry : Unchanged(entry)' <=> Unchanged(entry)
  BY DEF Unchanged
<1>2. \A book : Recorded(prepare, book)' <=> Recorded(prepare, book)
  BY DEF Recorded
<1>3. \A done : SearchedSo(prepare, done)' <=> SearchedSo(prepare, done)
  BY <1>1, <1>2 DEF SearchedSo, Reached
<1> QED
  BY <1>1, <1>2, <1>3 DEF PreparationSound, Counts

LEMMA CountedDoes ==
  ASSUME LibraryTypes, NEW v \in Views, NEW p, Counted(v, p)
  PROVE  /\ view' \in Views /\ view'.path = v.path /\ From(view'.previews, v.previews)
         /\ queue' \in Queues /\ queue'.books = queue.books /\ ~queue'.active
         /\ parser' = p /\ dirty' \in BOOLEAN /\ busy' \in BOOLEAN
<1> DEFINE complete == queue.index + 1 = queue.visible
           loading == v.loading /\ ~complete
           w == [v EXCEPT !.loading = @ /\ ~complete]
<1>1. queue \in Queues /\ scanner.entries \in Seq(Listings) /\ busy \in BOOLEAN
  BY DEF LibraryTypes, Scanners
<1>2. queue' \in Queues /\ queue'.books = queue.books /\ ~queue'.active
  <2>1. queue' = [queue EXCEPT !.index = @ + 1, !.active = FALSE]
    BY DEF Counted
  <2> DEFINE next == queue.index + 1
  <2>2. queue' = [queue EXCEPT !.index = next, !.active = FALSE] /\ next \in Nat
    BY <1>1, <2>1 DEF Queues
  <2> HIDE DEF next
  <2> QED
    BY <1>1, <2>2 DEF Queues
<1>3. w = [v EXCEPT !.loading = loading] /\ loading \in BOOLEAN /\ complete \in BOOLEAN
  BY DEF Views
<1>4. Drawn(w, scanner.entries, complete) /\ parser' = p
  BY DEF Counted
<1> HIDE DEF w, loading, complete
<1>5. w \in Views /\ w.previews = v.previews /\ w.path = v.path
  BY <1>3 DEF Views
<1>6. Shows(view', w) /\ dirty' \in BOOLEAN /\ busy' \in BOOLEAN
  BY <1>1, <1>3, <1>4, <1>5, DrawnShows
<1> QED
  BY <1>2, <1>4, <1>5, <1>6 DEF Shows

(* A cover is shown that is current. *)
LEMMA CoverShown ==
  ASSUME LibraryTypes, PreviewsSound, NEW book \in Books, NEW version \in Int, NEW p,
         Current(book, version), UNCHANGED <<card, changed>>,
         Counted(SetPreview(view, book, version), p)
  PROVE  /\ PreviewsSound' /\ view' \in Views /\ view'.path = view.path
         /\ queue' \in Queues /\ queue'.books = queue.books /\ ~queue'.active
         /\ parser' = p /\ dirty' \in BOOLEAN /\ busy' \in BOOLEAN
<1> DEFINE w == SetPreview(view, book, version)
<1>1. view \in Views
  BY DEF LibraryTypes
<1>2. /\ w \in Views /\ w.path = view.path
      /\ \A i \in 1 .. Len(w.previews) :
           \/ \E j \in 1 .. Len(view.previews) : w.previews[i] = view.previews[j]
           \/ w.previews[i] = [path |-> book, version |-> version]
  BY <1>1, SetPreviewAdds
<1> HIDE DEF w
<1>3. /\ view' \in Views /\ view'.path = w.path /\ From(view'.previews, w.previews)
      /\ queue' \in Queues /\ queue'.books = queue.books /\ ~queue'.active
      /\ parser' = p /\ dirty' \in BOOLEAN /\ busy' \in BOOLEAN
  BY <1>2, CountedDoes DEF w
<1>4. \A i \in 1 .. Len(w.previews) : Current(w.previews[i].path, w.previews[i].version)
  BY <1>2 DEF PreviewsSound
<1>5. \A i \in 1 .. Len(view'.previews) : Current(view'.previews[i].path, view'.previews[i].version)
  BY <1>3, <1>4 DEF From
<1>6. PreviewsSound'
  BY <1>5 DEF PreviewsSound, Current, NotNewer
<1> QED
  BY <1>2, <1>3, <1>6

LEMMA ServicePreviewsKeeps ==
  ASSUME LibraryInv, ServiceLibraryPreviews
  PROVE  Keeps /\ view'.path = view.path
<1> DEFINE entry == queue.books[queue.index + 1]
<1>1. /\ LibraryTypes /\ CacheSound /\ ListsSound /\ ParserSound /\ PreviewsSound /\ ScanSound
      /\ PreparationSound
  BY DEF LibraryInv
<1>2. queue \in Queues /\ queue.index + 1 \in 1 .. Len(queue.books) /\ app = "FileBrowser"
  <2>1. queue \in Queues /\ queue.index \in Nat /\ queue.books \in Seq(Records)
    BY <1>1 DEF LibraryTypes, Queues
  <2> QED
    BY <2>1, LenProperties DEF ServiceLibraryPreviews, Collecting
<1>3. entry \in Records /\ Current(entry.path, entry.stamp)
  <2>1. queue.books \in Seq(Records)
    BY <1>2 DEF Queues
  <2> QED
    BY <1>1, <1>2, <2>1, ElementOfSeq DEF ListsSound
<1>4. /\ entry.path \in Books /\ entry.stamp \in Int
      /\ card \in [Books -> -2 .. MaxVersion] /\ view \in Views
  BY <1>1, <1>3, VersionFacts DEF Records, LibraryTypes
<1>5. UNCHANGED <<card, changed, portal, app, scanner, history, restore, left, prepare, missing>>
  BY DEF ServiceLibraryPreviews, cardVars, browserVars, prepareVars
<1>6. \A book, version : Current(book, version)' <=> Current(book, version)
  BY <1>5 DEF Current, NotNewer
<1>7. \A book, version : NotNewer(book, version)' <=> NotNewer(book, version)
  BY <1>5 DEF NotNewer
<1>8. ScanSound' /\ PreparationSound'
  BY <1>1, <1>5, ScanStays, PreparationStays
<1>9. ASSUME queue'.books = queue.books
      PROVE  ListsSound'
  BY <1>1, <1>5, <1>6, <1>7, <1>9 DEF ListsSound
<1>10. ~prepare.active
  BY <1>1, <1>2 DEF ParserSound
<1>11. ASSUME cache' \in [Slots -> Thumbnails \cup {NoThumbnail}], view' \in Views,
              queue' \in Queues, parser' \in Parsers, dirty' \in BOOLEAN, busy' \in BOOLEAN
       PROVE  LibraryTypes'
  BY <1>1, <1>5, <1>11 DEF LibraryTypes
<1>12. NoParser \in Parsers
  BY VersionFacts DEF NoParser, Parsers
<1>13. ASSUME cache' = cache
       PROVE  CacheSound' /\ cache' \in [Slots -> Thumbnails \cup {NoThumbnail}]
  BY <1>1, <1>7, <1>13 DEF CacheSound, LibraryTypes
<1>14. \/ /\ Hit(cache, entry, BusFree)
          /\ Counted(SetPreview(view, entry.path, cache[Slot[entry.path]].version), parser)
          /\ UNCHANGED cache
       \/ \E p \in Parsed(IF queue.active THEN parser ELSE Started(entry.path)) :
            \/ /\ p.phase = "ReadPackage" /\ parser' = p
               /\ queue' = [queue EXCEPT !.active = TRUE]
               /\ UNCHANGED <<cache, view, dirty, busy>>
            \/ /\ p.phase = "Ready"
               /\ cache' \in Saves(cache, entry, p.version, BusFree)
               /\ Counted(SetPreview(view, p.book, p.version), NoParser)
            \/ p.phase = "Failed" /\ Counted(view, NoParser) /\ UNCHANGED cache
  BY DEF ServiceLibraryPreviews
<1>15. ASSUME Hit(cache, entry, BusFree),
              Counted(SetPreview(view, entry.path, cache[Slot[entry.path]].version), parser),
              cache' = cache
       PROVE  Keeps /\ view'.path = view.path
  <2> DEFINE file == cache[Slot[entry.path]]
  <2>1. file.path = entry.path /\ file.stamp = entry.stamp
    BY <1>15 DEF Hit
  <2>2. Slot[entry.path] \in Slots
    BY <1>4 DEF Slots
  <2>3. file \in Thumbnails \cup {NoThumbnail}
    BY <1>1, <2>2 DEF LibraryTypes
  <2>4. file # NoThumbnail /\ file.version \in Int
    <3>1. NoThumbnail.path \notin Books
      BY CardFacts DEF NoThumbnail
    <3> HIDE DEF file, entry
    <3>2. file # NoThumbnail
      BY <1>4, <2>1, <3>1
    <3> QED
      BY <2>3, <3>2, VersionFacts DEF Thumbnails
  <2>5. NotNewer(file.path, file.version) /\ file.stamp <= file.version
    BY <1>1, <2>2, <2>4 DEF CacheSound
  <2> HIDE DEF file, entry
  <2>6. Current(entry.path, file.version)
    <3>1. card[entry.path] \in Int
      BY <1>4
    <3> QED
      BY <1>3, <1>4, <2>1, <2>4, <2>5, <3>1 DEF Current, NotNewer
  <2>7. /\ PreviewsSound' /\ view' \in Views /\ view'.path = view.path
        /\ queue' \in Queues /\ queue'.books = queue.books /\ ~queue'.active
        /\ parser' = parser /\ dirty' \in BOOLEAN /\ busy' \in BOOLEAN
    BY <1>1, <1>4, <1>5, <1>15, <2>4, <2>6, CoverShown DEF file
  <2>8. ParserSound'
    BY <1>1, <1>5, <1>6, <1>10, <2>7 DEF ParserSound
  <2>9. LibraryTypes'
    BY <1>1, <1>11, <1>13, <1>15, <2>7 DEF LibraryTypes
  <2> QED
    BY <1>8, <1>9, <1>13, <1>15, <2>7, <2>8, <2>9 DEF Keeps
<1>16. ASSUME NEW p \in Parsed(IF queue.active THEN parser ELSE Started(entry.path)),
              p.phase = "ReadPackage", parser' = p, queue' = [queue EXCEPT !.active = TRUE],
              UNCHANGED <<cache, view, dirty, busy>>
       PROVE  Keeps /\ view'.path = view.path
  <2>1. ~queue.active
    BY <1>1, <1>16, ParsedOn, Failed
  <2>2. /\ Exists(card[entry.path])
        /\ p \in Parsers /\ p.book = entry.path /\ p.version = card[entry.path]
    BY <1>1, <1>4, <1>16, <2>1, ParsedStarted, Failed
  <2>3. queue' \in Queues /\ queue'.active /\ queue'.books = queue.books /\ queue'.index = queue.index
    BY <1>2, <1>16 DEF Queues
  <2> HIDE DEF entry
  <2>4. Current(entry.path, card[entry.path]) /\ entry.stamp <= card[entry.path]
    BY <1>3, <1>4, <2>2 DEF Current, NotNewer, Exists
  <2>5. ParserSound'
    <3>1. queue'.index < Len(queue'.books)
      BY <2>3 DEF ServiceLibraryPreviews, Collecting
    <3>2. queue'.books[queue'.index + 1] = entry
      BY <2>3 DEF entry
    <3>3. Current(parser'.book, parser'.version) /\ parser'.book = entry.path
          /\ entry.stamp <= parser'.version /\ parser'.phase = "ReadPackage"
      BY <1>16, <2>2, <2>4
    <3> QED
      BY <1>2, <1>4, <1>5, <1>6, <1>10, <3>1, <3>2, <3>3 DEF ParserSound
  <2>6. PreviewsSound'
    BY <1>1, <1>6, <1>16 DEF PreviewsSound
  <2>7. LibraryTypes'
    BY <1>1, <1>11, <1>13, <1>16, <2>2, <2>3 DEF LibraryTypes
  <2> QED
    BY <1>8, <1>9, <1>13, <1>16, <2>3, <2>5, <2>6, <2>7 DEF Keeps
<1>17. ASSUME NEW p \in Parsed(IF queue.active THEN parser ELSE Started(entry.path)),
              p.phase = "Ready", cache' \in Saves(cache, entry, p.version, BusFree),
              Counted(SetPreview(view, p.book, p.version), NoParser)
       PROVE  Keeps /\ view'.path = view.path
  <2>1. queue.active
    BY <1>1, <1>4, <1>17, ParsedStarted, Failed
  <2>2. parser.phase = "ReadPackage" /\ p.book = parser.book /\ p.version = parser.version
    BY <1>1, <1>17, <2>1, ParsedOn, Failed
  <2>3. /\ p.book = entry.path /\ entry.stamp <= p.version
        /\ Current(p.book, p.version) /\ p.version \in Int /\ p.version \in 0 .. MaxVersion
    BY <1>1, <2>1, <2>2 DEF ParserSound, LibraryTypes, Parsers
  <2> HIDE DEF entry
  <2>4. CacheSound' /\ cache' \in [Slots -> Thumbnails \cup {NoThumbnail}]
    <3>1. NotNewer(entry.path, p.version)
      BY <2>3 DEF Current
    <3> QED
      BY <1>1, <1>3, <1>5, <1>17, <2>3, <3>1, SavesSound
  <2>5. /\ PreviewsSound' /\ view' \in Views /\ view'.path = view.path
        /\ queue' \in Queues /\ queue'.books = queue.books /\ ~queue'.active
        /\ parser' = NoParser /\ dirty' \in BOOLEAN /\ busy' \in BOOLEAN
    BY <1>1, <1>4, <1>5, <1>17, <2>3, CoverShown
  <2>6. ParserSound'
    BY <1>5, <1>10, <2>5 DEF ParserSound, NoParser
  <2>7. LibraryTypes'
    BY <1>11, <1>12, <2>4, <2>5
  <2> QED
    BY <1>8, <1>9, <2>4, <2>5, <2>6, <2>7 DEF Keeps
<1>18. ASSUME Counted(view, NoParser), cache' = cache
       PROVE  Keeps /\ view'.path = view.path
  <2>1. /\ view' \in Views /\ view'.path = view.path /\ From(view'.previews, view.previews)
        /\ queue' \in Queues /\ queue'.books = queue.books /\ ~queue'.active
        /\ parser' = NoParser /\ dirty' \in BOOLEAN /\ busy' \in BOOLEAN
    BY <1>1, <1>4, <1>18, CountedDoes
  <2>2. PreviewsSound'
    BY <1>1, <1>6, <2>1 DEF PreviewsSound, From
  <2>3. ParserSound'
    BY <1>5, <1>10, <2>1 DEF ParserSound, NoParser
  <2>4. LibraryTypes'
    BY <1>11, <1>12, <1>13, <1>18, <2>1
  <2> QED
    BY <1>8, <1>9, <1>13, <1>18, <2>1, <2>2, <2>3, <2>4 DEF Keeps
<1> QED
  BY <1>14, <1>15, <1>16, <1>17, <1>18
-----------------------------------------------------------------------------
(* serviceCardPrefetch(): the search                                       *)
LEMMA PreparationFields ==
  ASSUME NEW p \in Preparations
  PROVE  /\ p.folders \in SUBSET Folders /\ p.folder \in Folders \cup {NoBook}
         /\ p.unread \in SUBSET Items /\ p.records \in Seq(Records) /\ Len(p.records) \in Nat
         /\ p.torn \in BOOLEAN /\ p.remaining \in Int /\ p.active \in BOOLEAN
         /\ p.book \in Records \cup {NoEntry} /\ p.truncated \in BOOLEAN
         /\ p.phase \in {"Idle", "Scanning", "Indexing", "Done"}
<1>1. p.records \in Seq(Records)
  BY DEF Preparations
<1> QED
  BY <1>1, LenProperties DEF Preparations

(* What writing records leaves of the rest *)
SameSearch(p, w) ==
  /\ w \in Preparations /\ w.phase = p.phase /\ w.folders = p.folders /\ w.folder = p.folder
  /\ w.unread = p.unread /\ w.active = p.active /\ w.book = p.book

(* The records of w are those of p and some of these books, or all of them *)
(* when nothing was cut short.                                             *)
RecordsAdded(p, w, books) ==
  /\ \A i \in 1 .. Len(w.records) :
       (\E j \in 1 .. Len(p.records) : w.records[i] = p.records[j]) \/ w.records[i] \in books
  /\ ~w.truncated => ~p.truncated
  /\ ~w.truncated /\ Counts(p) =>
       /\ Counts(w)
       /\ \A j \in 1 .. Len(p.records) : \E i \in 1 .. Len(w.records) : w.records[i] = p.records[j]
       /\ \A entry \in books : \E i \in 1 .. Len(w.records) : w.records[i] = entry

(* t is s and then these books *)
Appended(s, books, t) ==
  /\ t \in Seq(Records) /\ Len(t) = Len(s) + Cardinality(books)
  /\ \A i \in 1 .. Len(t) : (\E j \in 1 .. Len(s) : t[i] = s[j]) \/ t[i] \in books
  /\ \A j \in 1 .. Len(s) : \E i \in 1 .. Len(t) : t[i] = s[j]
  /\ \A entry \in books : \E i \in 1 .. Len(t) : t[i] = entry

LEMMA SortedAppended ==
  ASSUME NEW s \in Seq(Records), NEW books \in SUBSET Records, IsFiniteSet(books), Distinct(books)
  PROVE  Appended(s, books, s \o Sorted(books))
<1> DEFINE t == Sorted(books)
           n == Cardinality(books)
           all == s \o t
<1>1. \A x \in books : x.path \in Nat
  BY CardFacts DEF Records
<1>2. /\ n \in Nat /\ t \in Seq(Records) /\ Len(t) = n
      /\ {t[k] : k \in DOMAIN t} = books
  BY <1>1, SortedLists
<1> HIDE DEF t, n
<1>3. DOMAIN t = 1 .. n /\ Len(s) \in Nat
  BY <1>2, LenProperties
<1>4. /\ all \in Seq(Records) /\ Len(all) = Len(s) + n
      /\ \A i \in 1 .. Len(s) + n : all[i] = IF i <= Len(s) THEN s[i] ELSE t[i - Len(s)]
  BY <1>2, ConcatProperties
<1> HIDE DEF all
<1>5. ASSUME NEW i \in 1 .. Len(all)
      PROVE  (\E j \in 1 .. Len(s) : all[i] = s[j]) \/ all[i] \in books
  <2>1. CASE i <= Len(s)
    BY <1>3, <1>4, <2>1
  <2>2. CASE ~(i <= Len(s))
    <3>1. i - Len(s) \in 1 .. n /\ all[i] = t[i - Len(s)]
      BY <1>2, <1>3, <1>4, <2>2
    <3> QED
      BY <1>2, <1>3, <3>1
  <2> QED
    BY <2>1, <2>2
<1>6. ASSUME NEW j \in 1 .. Len(s)
      PROVE  \E i \in 1 .. Len(all) : all[i] = s[j]
  <2>1. j \in 1 .. Len(all) /\ all[j] = s[j]
    BY <1>2, <1>3, <1>4
  <2> QED
    BY <2>1
<1>7. ASSUME NEW entry \in books
      PROVE  \E i \in 1 .. Len(all) : all[i] = entry
  <2>1. PICK k \in 1 .. n : t[k] = entry
    BY <1>2, <1>3
  <2>2. Len(s) + k \in 1 .. Len(all) /\ all[Len(s) + k] = t[k]
    BY <1>2, <1>3, <1>4
  <2> QED
    BY <2>1, <2>2
<1> QED
  BY <1>2, <1>4, <1>5, <1>6, <1>7 DEF Appended, all, t, n

LEMMA WrittenDoes ==
  ASSUME NEW p \in Preparations, NEW books \in SUBSET Records, IsFiniteSet(books), Distinct(books),
         NEW w \in Written(p, books)
  PROVE  SameSearch(p, w) /\ RecordsAdded(p, w, books)
<1> DEFINE add(kept, n) == [p EXCEPT !.records = IF p.torn THEN @ ELSE @ \o Sorted(kept),
                                     !.remaining = @ + n]
           n == Cardinality(books)
<1>1. /\ p.records \in Seq(Records) /\ Len(p.records) \in Nat /\ p.remaining \in Int
      /\ p.torn \in BOOLEAN /\ p.truncated \in BOOLEAN
  BY PreparationFields
<1>2. n \in Nat
  BY FS_CardinalityType
<1>b. Appended(p.records, books, p.records \o Sorted(books))
  BY <1>1, SortedAppended
<1>3. ASSUME NEW kept \in SUBSET books, NEW m \in Int
      PROVE  /\ SameSearch(p, add(kept, m))
             /\ add(kept, m).torn = p.torn /\ add(kept, m).truncated = p.truncated
             /\ add(kept, m).remaining = p.remaining + m
             /\ add(kept, m).records = IF p.torn THEN p.records ELSE p.records \o Sorted(kept)
             /\ \A i \in 1 .. Len(add(kept, m).records) :
                  \/ \E j \in 1 .. Len(p.records) : add(kept, m).records[i] = p.records[j]
                  \/ add(kept, m).records[i] \in books
  <2>1. IsFiniteSet(kept) /\ Distinct(kept) /\ kept \in SUBSET Records
    BY FS_Subset DEF Distinct
  <2> DEFINE list == IF p.torn THEN p.records ELSE p.records \o Sorted(kept)
             count == p.remaining + m
             a == add(kept, m)
  <2>2. /\ list \in Seq(Records) /\ count \in Int
        /\ \A i \in 1 .. Len(list) :
             (\E j \in 1 .. Len(p.records) : list[i] = p.records[j]) \/ list[i] \in books
    BY <1>1, <2>1, SortedAppended DEF Appended
  <2>3. a = [p EXCEPT !.records = list, !.remaining = count]
    OBVIOUS
  <2> HIDE DEF list, count, a
  <2>4. /\ SameSearch(p, a) /\ a.torn = p.torn /\ a.truncated = p.truncated
        /\ a.remaining = count /\ a.records = list
    BY <2>2, <2>3 DEF SameSearch, Preparations
  <2> QED
    BY <2>2, <2>4 DEF list, count, a
<1>4. \/ w = add(books, n)
      \/ \E kept \in SUBSET books :
           w = [add(kept, n - 1) EXCEPT !.truncated = TRUE, !.torn = TRUE]
  BY DEF Written
<1>5. CASE w = add(books, n)
  <2>a. books \in SUBSET books /\ n \in Int
    BY <1>2
  <2> HIDE DEF add, n
  <2>1. /\ SameSearch(p, w) /\ w.torn = p.torn /\ w.truncated = p.truncated
        /\ w.remaining = p.remaining + n
        /\ w.records = IF p.torn THEN p.records ELSE p.records \o Sorted(books)
        /\ \A i \in 1 .. Len(w.records) :
             (\E j \in 1 .. Len(p.records) : w.records[i] = p.records[j]) \/ w.records[i] \in books
    BY <1>3, <1>5, <2>a
  <2>2. ASSUME Counts(p)
        PROVE  /\ Counts(w)
               /\ \A j \in 1 .. Len(p.records) : \E i \in 1 .. Len(w.records) : w.records[i] = p.records[j]
               /\ \A entry \in books : \E i \in 1 .. Len(w.records) : w.records[i] = entry
    <3>1. w.records = p.records \o Sorted(books) /\ ~w.torn /\ w.active = p.active
      BY <2>1, <2>2 DEF Counts, SameSearch
    <3> DEFINE all == p.records \o Sorted(books)
    <3>2. /\ Len(all) = Len(p.records) + n
          /\ \A j \in 1 .. Len(p.records) : \E i \in 1 .. Len(all) : all[i] = p.records[j]
          /\ \A entry \in books : \E i \in 1 .. Len(all) : all[i] = entry
      BY <1>b DEF Appended, n
    <3>3. w.records = all
      BY <3>1
    <3> HIDE DEF all
    <3>4. Counts(w)
      <4>1. ~w.torn /\ w.active = p.active /\ Len(w.records) = Len(p.records) + n
        BY <3>1, <3>2, <3>3
      <4> DEFINE one == IF p.active THEN 1 ELSE 0
      <4>2. w.remaining = p.remaining + n /\ p.remaining = Len(p.records) + one /\ one \in Int
        BY <2>1, <2>2 DEF Counts
      <4>a. one = IF w.active THEN 1 ELSE 0
        BY <4>1
      <4> HIDE DEF one
      <4>b. w.remaining = Len(w.records) + one
        BY <1>1, <1>2, <4>1, <4>2
      <4>3. w.remaining = Len(w.records) + (IF w.active THEN 1 ELSE 0)
        BY <4>a, <4>b
      <4> QED
        BY <4>1, <4>3 DEF Counts
    <3> QED
      BY <3>2, <3>3, <3>4
  <2> QED
    BY <2>1, <2>2 DEF RecordsAdded
<1>6. ASSUME NEW kept \in SUBSET books,
             w = [add(kept, n - 1) EXCEPT !.truncated = TRUE, !.torn = TRUE]
      PROVE  SameSearch(p, w) /\ RecordsAdded(p, w, books)
  <2> DEFINE a == add(kept, n - 1)
  <2>1. /\ SameSearch(p, a)
        /\ \A i \in 1 .. Len(a.records) :
             (\E j \in 1 .. Len(p.records) : a.records[i] = p.records[j]) \/ a.records[i] \in books
    <3>1. n - 1 \in Int
      BY <1>2
    <3> HIDE DEF add, n
    <3> QED
      BY <1>3, <3>1
  <2>2. w = [a EXCEPT !.truncated = TRUE, !.torn = TRUE]
    BY <1>6
  <2> HIDE DEF a
  <2>3. SameSearch(p, w) /\ w.truncated /\ w.records = a.records
    BY <2>1, <2>2 DEF SameSearch, Preparations
  <2> QED
    BY <2>1, <2>3 DEF RecordsAdded
<1> QED
  BY <1>4, <1>5, <1>6

(* The books of a batch that a record can name *)
Recordable(batch) == {b \in batch \cap Books : Exists(card[b])} \ LongPaths

(* A batch of the open folder *)
BatchDoes(p, w, batch, ended) ==
  /\ w \in Preparations /\ batch \in SUBSET p.unread
  /\ w.folders = p.folders \cup (batch \cap Folders) /\ w.unread = p.unread \ batch
  /\ w.folder = IF ended THEN NoBook ELSE p.folder
  /\ ended => batch = p.unread
  /\ w.phase = IF ended /\ w.folders = {} THEN "Indexing" ELSE p.phase
  /\ w.active = p.active /\ w.book = p.book
  /\ RecordsAdded(p, w, {Entry(card, book) : book \in Recordable(batch)})

LEMMA BatchReadDoes ==
  ASSUME LibraryTypes, NEW p \in Preparations, NEW w \in BatchRead(p)
  PROVE  \E batch \in SUBSET p.unread : \E ended \in BOOLEAN : BatchDoes(p, w, batch, ended)
<1>1. PICK batch \in Batches(p.unread, CoverBatch) :
        w \in LET found == {b \in batch \cap Books : Exists(card[b])}
                  books == {Entry(card, book) : book \in found \ LongPaths}
                  ended == Cardinality(p.unread) < CoverBatch
                  folders == p.folders \cup (batch \cap Folders)
              IN {[v EXCEPT !.unread = @ \ batch, !.folders = folders,
                            !.folder = IF ended THEN NoBook ELSE @,
                            !.phase = IF ended /\ folders = {} THEN "Indexing" ELSE @] :
                    v \in Written(p, books)}
  BY DEF BatchRead
<1> DEFINE items == {b \in batch \cap Books : Exists(card[b])} \ LongPaths
           books == {Entry(card, book) : book \in items}
           ended == Cardinality(p.unread) < CoverBatch
           folders == p.folders \cup (batch \cap Folders)
<1>2. PICK v \in Written(p, books) :
        w = [v EXCEPT !.unread = @ \ batch, !.folders = folders,
                      !.folder = IF ended THEN NoBook ELSE @,
                      !.phase = IF ended /\ folders = {} THEN "Indexing" ELSE @]
  BY <1>1
<1>3. p.unread \in SUBSET Items /\ p.folders \in SUBSET Folders
  BY PreparationFields
<1>4. /\ batch \in SUBSET p.unread /\ IsFiniteSet(batch)
      /\ ended => batch = p.unread
  BY <1>3, CardFacts, BatchFacts
<1>5. items \in SUBSET batch
  OBVIOUS
<1>6. IsFiniteSet(items)
  <2> HIDE DEF items
  <2> QED
    BY <1>4, <1>5, FS_Subset
<1>7. books \in SUBSET Records
  <2>1. ASSUME NEW book \in items
        PROVE  Entry(card, book) \in Records
    <3>1. book \in Books /\ card[book] \in -2 .. MaxVersion /\ card[book] > 0
      BY DEF Exists, LibraryTypes
    <3>2. card[book] \in Versions
      BY <3>1, VersionFacts
    <3> QED
      BY <3>1, <3>2 DEF Entry, Records
  <2> QED
    BY <2>1
<1>8. IsFiniteSet(books) /\ Distinct(books)
  <2> HIDE DEF items
  <2> QED
    BY <1>6, EntriesOf
<1> HIDE DEF books
<1>9. SameSearch(p, v) /\ RecordsAdded(p, v, books)
  BY <1>7, <1>8, WrittenDoes
<1> DEFINE folder == IF ended THEN NoBook ELSE v.folder
           phase == IF ended /\ folders = {} THEN "Indexing" ELSE v.phase
           rest == v.unread \ batch
<1>10. w = [v EXCEPT !.unread = rest, !.folders = folders, !.folder = folder, !.phase = phase]
  BY <1>2
<1>11. v \in Preparations
  BY <1>9 DEF SameSearch
<1>12. /\ folder \in Folders \cup {NoBook} /\ phase \in {"Idle", "Scanning", "Indexing", "Done"}
       /\ rest \in SUBSET Items /\ folders \in SUBSET Folders
  BY <1>3, <1>11, PreparationFields
<1> HIDE DEF folder, phase, rest, folders, ended
<1>13. /\ w \in Preparations /\ w.folders = folders /\ w.unread = rest /\ w.folder = folder
       /\ w.phase = phase /\ w.active = v.active /\ w.book = v.book /\ w.records = v.records
       /\ w.truncated = v.truncated /\ w.torn = v.torn /\ w.remaining = v.remaining
  BY <1>10, <1>11, <1>12 DEF Preparations
<1>14. RecordsAdded(p, w, books)
  BY <1>9, <1>13 DEF RecordsAdded, Counts
<1>15. /\ w.folder = IF ended THEN NoBook ELSE p.folder
       /\ w.phase = IF ended /\ w.folders = {} THEN "Indexing" ELSE p.phase
       /\ w.unread = p.unread \ batch /\ w.active = p.active /\ w.book = p.book
  BY <1>9, <1>13 DEF SameSearch, folder, phase, rest
<1>16. BatchDoes(p, w, batch, ended)
  BY <1>4, <1>13, <1>14, <1>15 DEF BatchDoes, folders, books, Recordable
<1>17. ended \in BOOLEAN
  BY DEF ended
<1> QED
  BY <1>4, <1>16, <1>17

LEMMA RecordedAdded ==
  ASSUME NEW p, NEW w, NEW books, RecordsAdded(p, w, books), ~w.truncated, Counts(p),
         w.active = p.active, w.book = p.book
  PROVE  /\ \A book : Recorded(p, book) => Recorded(w, book)
         /\ \A entry \in books : Recorded(w, entry.path)
<1>1. /\ \A j \in 1 .. Len(p.records) : \E i \in 1 .. Len(w.records) : w.records[i] = p.records[j]
      /\ \A entry \in books : \E i \in 1 .. Len(w.records) : w.records[i] = entry
  BY DEF RecordsAdded
<1>2. ASSUME NEW book, Recorded(p, book)
      PROVE  Recorded(w, book)
  <2>1. CASE p.active /\ p.book.path = book
    BY <2>1 DEF Recorded
  <2>2. ASSUME NEW j \in 1 .. Len(p.records), p.records[j].path = book
        PROVE  Recorded(w, book)
    <3>1. PICK i \in 1 .. Len(w.records) : w.records[i] = p.records[j]
      BY <1>1
    <3> QED
      BY <2>2, <3>1 DEF Recorded
  <2> QED
    BY <1>2, <2>1, <2>2 DEF Recorded
<1>3. ASSUME NEW entry \in books
      PROVE  Recorded(w, entry.path)
  <2>1. PICK i \in 1 .. Len(w.records) : w.records[i] = entry
    BY <1>1
  <2> QED
    BY <2>1 DEF Recorded
<1> QED
  BY <1>2, <1>3

(* A folder of the stack is opened. *)
LEMMA FolderOpens ==
  ASSUME LibraryTypes, NEW folder \in prepare.folders, prepare.folder = NoBook
  PROVE  LET o == FolderOpened(folder)
         IN /\ o \in Preparations /\ o.folder = folder /\ o.folders = prepare.folders \ {folder}
            /\ o.unread = Holds(card, folder) /\ o.records = prepare.records
            /\ o.active = prepare.active /\ o.book = prepare.book /\ o.phase = prepare.phase
            /\ o.torn = prepare.torn /\ o.remaining = prepare.remaining
            /\ o.truncated = prepare.truncated
<1>1. prepare \in Preparations
  BY DEF LibraryTypes
<1> DEFINE rest == prepare.folders \ {folder}
           unread == Holds(card, folder)
<1>2. rest \in SUBSET Folders /\ unread \in SUBSET Items /\ folder \in Folders
  BY <1>1 DEF Preparations, Holds
<1>3. FolderOpened(folder) = [prepare EXCEPT !.folders = rest, !.folder = folder, !.unread = unread]
  BY DEF FolderOpened
<1> HIDE DEF rest, unread
<1> QED
  BY <1>1, <1>2, <1>3 DEF Preparations, rest, unread

LEMMA OpenedSearched ==
  ASSUME LibraryTypes, ListsSound, NEW folder \in prepare.folders, prepare.folder = NoBook,
         NEW done \in SUBSET Folders, SearchedSo(prepare, done)
  PROVE  SearchedSo(FolderOpened(folder), done)
<1> DEFINE o == FolderOpened(folder)
<1>1. /\ o.folder = folder /\ o.folders = prepare.folders \ {folder}
      /\ o.unread = Holds(card, folder) /\ o.records = prepare.records
      /\ o.active = prepare.active /\ o.book = prepare.book
  BY FolderOpens
<1> HIDE DEF o
<1>2. \A book : Recorded(o, book) <=> Recorded(prepare, book)
  BY <1>1 DEF Recorded
<1>3. \A f \in Folders : f \in Reached(prepare, done) => f \in Reached(o, done)
  BY <1>1, CardFacts DEF Reached
<1>4. Root \in Reached(o, done)
  BY <1>3, CardFacts DEF SearchedSo
<1>5. \A f \in Folders \ {Root} : Parent[f] \in done => f \in Reached(o, done)
  BY <1>3 DEF SearchedSo
<1>6. \A entry \in missing : Unchanged(entry) /\ Parent[entry.path] \in done => Recorded(o, entry.path)
  BY <1>2 DEF SearchedSo
<1>7. \A f \in Folders \ {Root} : Parent[f] = folder => f \in o.unread
  BY <1>1, CardFacts DEF Holds
<1>8. ASSUME NEW entry \in missing, Unchanged(entry), Parent[entry.path] = folder
      PROVE  entry.path \in o.unread
  <2>1. entry.path \in Books /\ entry.path \in Items
    BY CardFacts DEF LibraryTypes, Records
  <2>2. card[entry.path] >= 1
    BY <1>8 DEF ListsSound, NotNewer, Unchanged
  <2>3. card[entry.path] \in Int
    BY <2>1 DEF LibraryTypes
  <2> QED
    BY <1>1, <1>8, <2>1, <2>2, <2>3 DEF Holds, Exists
<1>9. SearchedSo(o, done)
  BY <1>1, <1>4, <1>5, <1>6, <1>7, <1>8 DEF SearchedSo
<1> QED
  BY <1>9 DEF o

(* A batch is put away; with the last of them its folder was searched. *)
LEMMA BatchSearched ==
  ASSUME LibraryTypes, ListsSound, NEW p \in Preparations, p.folder \in Folders, Counts(p),
         NEW done \in SUBSET Folders, SearchedSo(p, done),
         NEW w, NEW batch, NEW ended \in BOOLEAN, BatchDoes(p, w, batch, ended), ~w.truncated
  PROVE  SearchedSo(w, IF ended THEN done \cup {p.folder} ELSE done)
<1> DEFINE books == {Entry(card, book) : book \in Recordable(batch)}
           now == IF ended THEN done \cup {p.folder} ELSE done
<1>1. /\ w.folders = p.folders \cup (batch \cap Folders) /\ w.unread = p.unread \ batch
      /\ w.folder = IF ended THEN NoBook ELSE p.folder
      /\ ended => batch = p.unread
  BY DEF BatchDoes
<1>2. /\ \A book : Recorded(p, book) => Recorded(w, book)
      /\ \A entry \in books : Recorded(w, entry.path)
  <2>1. RecordsAdded(p, w, books) /\ w.active = p.active /\ w.book = p.book
    BY DEF BatchDoes
  <2> HIDE DEF books
  <2> QED
    BY <2>1, RecordedAdded
<1>3. now \in SUBSET Folders /\ done \in SUBSET now
  OBVIOUS
<1>4. \A f \in Folders : f \in Reached(p, done) => f \in Reached(w, now)
  BY <1>1, CardFacts DEF Reached
<1>5. ASSUME NEW entry \in missing, Unchanged(entry), entry.path \in batch
      PROVE  Recorded(w, entry.path)
  <2>1. entry.path \in Books
    BY DEF LibraryTypes, Records
  <2>2. card[entry.path] >= 1 /\ card[entry.path] \in Int
    BY <1>5, <2>1 DEF ListsSound, NotNewer, Unchanged, LibraryTypes
  <2>3. Entry(card, entry.path) \in books
    BY <1>5, <2>1, <2>2 DEF Exists, Unchanged, Recordable
  <2>4. Entry(card, entry.path).path = entry.path
    BY DEF Entry
  <2> HIDE DEF books
  <2> QED
    BY <1>2, <2>3, <2>4
<1> HIDE DEF books
<1>6. \A f \in Folders \ {Root} :
        Parent[f] = p.folder => f \in w.unread \cup Reached(w, now)
  <2> SUFFICES ASSUME NEW f \in Folders \ {Root}, Parent[f] = p.folder
               PROVE  f \in w.unread \cup Reached(w, now)
    OBVIOUS
  <2>1. CASE f \in p.unread
    BY <1>1, <2>1 DEF Reached
  <2>2. CASE f \in Reached(p, done)
    BY <1>4, <2>2
  <2> QED
    BY <2>1, <2>2 DEF SearchedSo
<1>7. \A entry \in missing : Unchanged(entry) /\ Parent[entry.path] = p.folder =>
        entry.path \in w.unread \/ Recorded(w, entry.path)
  <2> SUFFICES ASSUME NEW entry \in missing, Unchanged(entry), Parent[entry.path] = p.folder
               PROVE  entry.path \in w.unread \/ Recorded(w, entry.path)
    OBVIOUS
  <2>1. entry.path \in p.unread \/ Recorded(p, entry.path)
    BY DEF SearchedSo
  <2> QED
    BY <1>1, <1>2, <1>5, <2>1
<1>8. ended => w.unread = {}
  BY <1>1
<1>9. \A f \in Folders \ {Root} : Parent[f] \in now => f \in Reached(w, now)
  <2> SUFFICES ASSUME NEW f \in Folders \ {Root}, Parent[f] \in now PROVE f \in Reached(w, now)
    OBVIOUS
  <2>1. CASE Parent[f] \in done
    BY <1>4, <2>1 DEF SearchedSo
  <2>2. CASE ended /\ Parent[f] = p.folder
    BY <1>6, <1>8, <2>2
  <2> QED
    BY <2>1, <2>2
<1>10. \A entry \in missing : Unchanged(entry) /\ Parent[entry.path] \in now =>
         Recorded(w, entry.path)
  <2> SUFFICES ASSUME NEW entry \in missing, Unchanged(entry), Parent[entry.path] \in now
               PROVE  Recorded(w, entry.path)
    OBVIOUS
  <2>1. CASE Parent[entry.path] \in done
    BY <1>2, <2>1 DEF SearchedSo
  <2>2. CASE ended /\ Parent[entry.path] = p.folder
    BY <1>7, <1>8, <2>2
  <2> QED
    BY <2>1, <2>2
<1>11. Root \in Reached(w, now)
  BY <1>4, CardFacts DEF SearchedSo
<1>12. /\ \A f \in Folders \ {Root} : Parent[f] # NoBook
       /\ \A entry \in missing : Parent[entry.path] # NoBook
  BY CardFacts DEF LibraryTypes, Records
<1>13. CASE ended
  <2>1. w.folder = NoBook
    BY <1>1, <1>13
  <2> HIDE DEF now
  <2> QED
    BY <1>3, <1>9, <1>10, <1>11, <1>12, <2>1 DEF SearchedSo, now
<1>14. CASE ~ended
  <2>1. w.folder = p.folder
    BY <1>1, <1>14
  <2> HIDE DEF now
  <2>2. SearchedSo(w, now)
    BY <1>3, <1>6, <1>7, <1>9, <1>10, <1>11, <2>1 DEF SearchedSo
  <2> QED
    BY <2>2 DEF now
<1> QED
  BY <1>13, <1>14

(* Every folder is reached from the root. *)
LEMMA AllFolders ==
  ASSUME NEW done \in SUBSET Folders, Root \in done,
         \A f \in Folders \ {Root} : Parent[f] \in done => f \in done
  PROVE  done = Folders
<1> SUFFICES ASSUME Folders \ done # {} PROVE FALSE
  OBVIOUS
<1> DEFINE R == {ss \in Nat \X Nat : ss[1] < ss[2]}
           S == Folders \ done
<1>1. S \in SUBSET Nat
  BY CardFacts
<1>2. IsWellFoundedOn(R, Nat)
  BY NatLessThanWellFounded DEF OpToRel
<1>3. PICK x \in S : \A y \in S : ~(<<y, x>> \in R)
  <2> HIDE DEF R, S
  <2> QED
    BY <1>1, <1>2, WFMin DEF S
<1>4. Parent[x] \in Folders /\ Parent[x] < x /\ x \in Folders \ {Root}
  BY CardFacts
<1>5. Parent[x] \in S
  BY <1>4
<1>6. <<Parent[x], x>> \in Nat \X Nat /\ <<Parent[x], x>>[1] < <<Parent[x], x>>[2]
  BY <1>1, <1>4, <1>5
<1> QED
  BY <1>3, <1>5, <1>6

(* When nothing is left to search, what is unchanged is in the queue's file. *)
LEMMA SearchComplete ==
  ASSUME LibraryTypes, NEW w, NEW done \in SUBSET Folders, SearchedSo(w, done),
         w.folders = {}, w.folder = NoBook
  PROVE  \A entry \in missing : Unchanged(entry) => Recorded(w, entry.path)
<1>1. \A f \in Folders : f \in Reached(w, done) => f \in done
  BY CardFacts DEF Reached
<1>2. Root \in done
  BY <1>1, CardFacts DEF SearchedSo
<1>3. \A f \in Folders \ {Root} : Parent[f] \in done => f \in done
  BY <1>1 DEF SearchedSo
<1>4. done = Folders
  BY <1>2, <1>3, AllFolders
<1>5. \A entry \in missing : Parent[entry.path] \in Folders
  BY CardFacts DEF LibraryTypes, Records
<1> QED
  BY <1>4, <1>5 DEF SearchedSo

LEMMA BatchKeepsSearch ==
  ASSUME LibraryTypes, ListsSound, NEW p \in Preparations, p.folder \in Folders,
         p.phase = "Scanning",
         ~p.truncated =>
           Counts(p) /\ ~p.active /\ \E done \in SUBSET Folders : SearchedSo(p, done),
         NEW w \in BatchRead(p), ~w.truncated
  PROVE  /\ Counts(w) /\ ~w.active
         /\ \/ w.phase = "Scanning" /\ \E done \in SUBSET Folders : SearchedSo(w, done)
            \/ w.phase = "Indexing" /\ \A entry \in missing : Unchanged(entry) => Recorded(w, entry.path)
<1>1. PICK batch \in SUBSET p.unread : \E ended \in BOOLEAN : BatchDoes(p, w, batch, ended)
  BY BatchReadDoes
<1>2. PICK ended \in BOOLEAN : BatchDoes(p, w, batch, ended)
  BY <1>1
<1>3. ~p.truncated
  BY <1>2 DEF BatchDoes, RecordsAdded
<1>4. Counts(p)
  BY <1>3
<1>5. PICK done \in SUBSET Folders : SearchedSo(p, done)
  BY <1>3
<1> DEFINE now == IF ended THEN done \cup {p.folder} ELSE done
<1>6. now \in SUBSET Folders
  OBVIOUS
<1>7. SearchedSo(w, now)
  BY <1>2, <1>4, <1>5, BatchSearched
<1> HIDE DEF now
<1>8. Counts(w) /\ ~w.active
  BY <1>2, <1>4 DEF BatchDoes, RecordsAdded
<1>9. w.phase = IF ended /\ w.folders = {} THEN "Indexing" ELSE "Scanning"
  BY <1>2 DEF BatchDoes
<1>10. w.folder = IF ended THEN NoBook ELSE p.folder
  BY <1>2 DEF BatchDoes
<1>11. CASE ended /\ w.folders = {}
  BY <1>6, <1>7, <1>8, <1>9, <1>10, <1>11, SearchComplete
<1>12. CASE ~(ended /\ w.folders = {})
  BY <1>6, <1>7, <1>8, <1>9, <1>12
<1> QED
  BY <1>11, <1>12

LEMMA ScanCardKeeps ==
  ASSUME LibraryInv, ScanCard
  PROVE  Keeps
<1>1. /\ LibraryTypes /\ CacheSound /\ ListsSound /\ ParserSound /\ PreviewsSound /\ ScanSound
      /\ PreparationSound /\ prepare \in Preparations
  BY DEF LibraryInv, LibraryTypes
<1>2. /\ UNCHANGED <<card, portal, changed, cache, app, scanner, history, restore, left, view, queue,
                     parser, missing, dirty>>
      /\ app = "LibraryPrefetch" /\ prepare.phase = "Scanning" /\ busy' \in BOOLEAN
  BY <1>1 DEF ScanCard, Preparing, Progress, cardVars, browserVars, LibraryTypes
<1>3. CASE UNCHANGED <<prepare, busy>>
  <2>1. Browses
    BY <1>1, <1>2, <1>3, FromSame DEF Browses, Scans, prepareVars, LibraryTypes
  <2> QED
    BY <2>1, BrowsesKeep
<1>4. CacheSound' /\ PreviewsSound' /\ ScanSound'
  BY <1>1, <1>2, ScanStays DEF CacheSound, PreviewsSound, NotNewer, Current
<1>5. ASSUME prepare' \in Preparations, prepare'.active = prepare.active, prepare'.book = prepare.book,
             \A i \in 1 .. Len(prepare'.records) :
               NotNewer(prepare'.records[i].path, prepare'.records[i].stamp),
             PreparationSound'
      PROVE  Keeps
  <2>1. LibraryTypes'
    BY <1>1, <1>2, <1>5 DEF LibraryTypes
  <2>2. ParserSound'
    BY <1>1, <1>2, <1>5 DEF ParserSound, Current, NotNewer
  <2>3. ListsSound'
    BY <1>1, <1>2, <1>5 DEF ListsSound, Current, NotNewer
  <2> QED
    BY <1>4, <1>5, <2>1, <2>2, <2>3 DEF Keeps
<1>6. ASSUME NEW folder \in prepare.folders, prepare' = FolderFailed(folder)
      PROVE  Keeps
  <2> DEFINE rest == prepare.folders \ {folder}
             phase == IF prepare.folders = {folder} THEN "Indexing" ELSE prepare.phase
  <2>1. rest \in SUBSET Folders /\ phase \in {"Idle", "Scanning", "Indexing", "Done"}
    BY <1>1, PreparationFields
  <2>2. prepare' = [prepare EXCEPT !.folders = rest, !.truncated = TRUE, !.phase = phase]
    BY <1>6 DEF FolderFailed
  <2> HIDE DEF rest, phase
  <2>3. /\ prepare' \in Preparations /\ prepare'.active = prepare.active
        /\ prepare'.book = prepare.book /\ prepare'.records = prepare.records
        /\ prepare'.truncated
    BY <1>1, <2>1, <2>2 DEF Preparations
  <2>4. PreparationSound'
    BY <2>3 DEF PreparationSound
  <2>5. \A i \in 1 .. Len(prepare'.records) :
          NotNewer(prepare'.records[i].path, prepare'.records[i].stamp)
    BY <1>1, <2>3 DEF ListsSound
  <2> QED
    BY <1>5, <2>3, <2>4, <2>5
<1>7. ASSUME NEW p \in Preparations, p.folder \in Folders, p.phase = "Scanning",
             p.active = prepare.active, p.book = prepare.book, p.records = prepare.records,
             ~p.truncated =>
               Counts(p) /\ ~p.active /\ \E done \in SUBSET Folders : SearchedSo(p, done),
             prepare' \in BatchRead(p)
      PROVE  Keeps
  <2>1. PICK batch \in SUBSET p.unread : \E ended \in BOOLEAN : BatchDoes(p, prepare', batch, ended)
    BY <1>1, <1>7, BatchReadDoes
  <2>2. PICK ended \in BOOLEAN : BatchDoes(p, prepare', batch, ended)
    BY <2>1
  <2>3. /\ prepare' \in Preparations /\ prepare'.active = prepare.active
        /\ prepare'.book = prepare.book
        /\ ~prepare'.truncated => ~p.truncated
    BY <1>7, <2>2 DEF BatchDoes, RecordsAdded
  <2>4. \A i \in 1 .. Len(prepare'.records) :
          NotNewer(prepare'.records[i].path, prepare'.records[i].stamp)
    <3> SUFFICES ASSUME NEW i \in 1 .. Len(prepare'.records)
                 PROVE  NotNewer(prepare'.records[i].path, prepare'.records[i].stamp)
      OBVIOUS
    <3> DEFINE books == {Entry(card, book) : book \in Recordable(batch)}
    <3>1. (\E j \in 1 .. Len(p.records) : prepare'.records[i] = p.records[j])
          \/ prepare'.records[i] \in books
      BY <2>2 DEF BatchDoes, RecordsAdded
    <3>2. \A entry \in books : NotNewer(entry.path, entry.stamp)
      BY <1>1 DEF LibraryTypes, Entry, Exists, NotNewer, Recordable
    <3> HIDE DEF books
    <3> QED
      BY <1>1, <1>7, <3>1, <3>2 DEF ListsSound
  <2>5. PreparationSound'
    <3> SUFFICES ASSUME ~prepare'.truncated
                 PROVE  PreparationSound'
      BY DEF PreparationSound
    <3>1. /\ Counts(prepare') /\ ~prepare'.active
          /\ \/ /\ prepare'.phase = "Scanning"
                /\ \E done \in SUBSET Folders : SearchedSo(prepare', done)
             \/ /\ prepare'.phase = "Indexing"
                /\ \A entry \in missing : Unchanged(entry) => Recorded(prepare', entry.path)
      BY <1>1, <1>7, <2>3, BatchKeepsSearch
    <3>2. Counts(prepare)'
      BY <3>1 DEF Counts
    <3>3. \A book : Recorded(prepare, book)' <=> Recorded(prepare', book)
      BY DEF Recorded
    <3>4. \A done \in SUBSET Folders : SearchedSo(prepare, done)' <=> SearchedSo(prepare', done)
      BY <1>2, <3>3 DEF SearchedSo, Unchanged, Reached
    <3>5. \A entry : Unchanged(entry)' <=> Unchanged(entry)
      BY <1>2 DEF Unchanged
    <3> QED
      BY <1>2, <3>1, <3>2, <3>3, <3>4, <3>5 DEF PreparationSound
  <2> QED
    BY <1>5, <2>3, <2>4, <2>5
<1>8. ~prepare.truncated =>
        Counts(prepare) /\ ~prepare.active /\ \E done \in SUBSET Folders : SearchedSo(prepare, done)
  BY <1>1, <1>2 DEF PreparationSound
<1>9. CASE prepare.folder # NoBook /\ prepare' \in BatchRead(prepare)
  <2>1. prepare.folder \in Folders
    BY <1>1, <1>9, PreparationFields
  <2> QED
    BY <1>1, <1>2, <1>7, <1>8, <1>9, <2>1
<1>10. ASSUME NEW folder \in prepare.folders, prepare.folder = NoBook,
              prepare' \in BatchRead(FolderOpened(folder))
       PROVE  Keeps
  <2> DEFINE o == FolderOpened(folder)
  <2>1. /\ o \in Preparations /\ o.folder = folder /\ o.folders = prepare.folders \ {folder}
        /\ o.records = prepare.records
        /\ o.active = prepare.active /\ o.book = prepare.book /\ o.phase = prepare.phase
        /\ o.torn = prepare.torn /\ o.remaining = prepare.remaining
        /\ o.truncated = prepare.truncated
    BY <1>1, <1>10, FolderOpens
  <2>2. folder \in Folders
    BY <1>1, PreparationFields
  <2>3. Counts(prepare) => Counts(o)
    <3> HIDE DEF o
    <3> QED
      BY <2>1 DEF Counts
  <2>4. \A done \in SUBSET Folders : SearchedSo(prepare, done) => SearchedSo(o, done)
    BY <1>1, <1>10, OpenedSearched
  <2> HIDE DEF o
  <2>5. ~o.truncated => Counts(o) /\ ~o.active /\ \E done \in SUBSET Folders : SearchedSo(o, done)
    BY <1>8, <2>1, <2>3, <2>4
  <2> QED
    BY <1>2, <1>7, <1>10, <2>1, <2>2, <2>5 DEF o
<1> QED
  BY <1>3, <1>6, <1>9, <1>10 DEF ScanCard
-----------------------------------------------------------------------------
(* serviceCardPrefetch(): the records of the queue's file                  *)
LEMMA DoneFields ==
  ASSUME NEW p \in Preparations
  PROVE  LET d == BookDone(p)
         IN /\ d \in Preparations /\ ~d.active /\ d.records = p.records /\ d.phase = p.phase
            /\ d.remaining = p.remaining - 1 /\ d.torn = p.torn /\ d.truncated = p.truncated
<1> DEFINE n == p.remaining - 1
<1>1. n \in Int
  BY PreparationFields
<1>2. BookDone(p) = [p EXCEPT !.active = FALSE, !.book = NoEntry, !.remaining = n]
  BY DEF BookDone
<1> HIDE DEF n
<1> QED
  BY <1>1, <1>2 DEF Preparations, n

LEMMA FailedFields ==
  ASSUME NEW p \in Preparations
  PROVE  LET d == BookFailed(p)
         IN d \in Preparations /\ ~d.active /\ d.records = p.records /\ d.truncated
<1> DEFINE b == BookDone(p)
<1>1. b \in Preparations /\ ~b.active /\ b.records = p.records
  BY DoneFields
<1>2. BookFailed(p) = [b EXCEPT !.truncated = TRUE]
  BY DEF BookFailed
<1> HIDE DEF b
<1> QED
  BY <1>1, <1>2 DEF Preparations

(* The next record is taken up. *)
NextRecord(p) == [p EXCEPT !.records = Tail(@), !.book = Head(p.records), !.active = TRUE]

LEMMA NextRecordFields ==
  ASSUME NEW p \in Preparations, p.records # <<>>
  PROVE  LET n == NextRecord(p)
         IN /\ n \in Preparations /\ n.active /\ n.book = Head(p.records) /\ n.book \in Records
            /\ n.book = p.records[1] /\ 1 \in 1 .. Len(p.records)
            /\ n.phase = p.phase /\ n.remaining = p.remaining /\ n.torn = p.torn
            /\ n.truncated = p.truncated
            /\ Len(n.records) = Len(p.records) - 1
            /\ \A i \in 1 .. Len(n.records) :
                 n.records[i] = p.records[i + 1] /\ i + 1 \in 1 .. Len(p.records)
<1> DEFINE rest == Tail(p.records)
           head == Head(p.records)
<1>1. p.records \in Seq(Records) /\ Len(p.records) \in Nat
  BY PreparationFields
<1>2. Len(p.records) # 0
  BY <1>1, EmptySeq
<1>3. /\ rest \in Seq(Records) /\ head \in Records /\ head = p.records[1]
      /\ Len(rest) = Len(p.records) - 1
      /\ \A i \in 1 .. Len(rest) : rest[i] = p.records[i + 1]
  BY <1>1, <1>2, HeadTailProperties
<1>4. NextRecord(p) = [p EXCEPT !.records = rest, !.book = head, !.active = TRUE]
  BY DEF NextRecord
<1> HIDE DEF rest, head
<1>5. /\ NextRecord(p) \in Preparations /\ NextRecord(p).records = rest /\ NextRecord(p).book = head
      /\ NextRecord(p).active /\ NextRecord(p).phase = p.phase
      /\ NextRecord(p).remaining = p.remaining /\ NextRecord(p).torn = p.torn
      /\ NextRecord(p).truncated = p.truncated
  BY <1>3, <1>4 DEF Preparations
<1>6. \A i \in 1 .. Len(rest) : i + 1 \in 1 .. Len(p.records)
  BY <1>1, <1>2, <1>3
<1> QED
  BY <1>1, <1>2, <1>3, <1>5, <1>6 DEF head

LEMMA NextRecorded ==
  ASSUME NEW p \in Preparations, p.records # <<>>, ~p.active, NEW book, Recorded(p, book)
  PROVE  /\ Recorded(NextRecord(p), book)
         /\ book # Head(p.records).path =>
              \E i \in 1 .. Len(NextRecord(p).records) : NextRecord(p).records[i].path = book
<1> DEFINE n == NextRecord(p)
<1>1. /\ n.active /\ n.book = Head(p.records) /\ n.book = p.records[1]
      /\ Len(n.records) = Len(p.records) - 1 /\ Len(p.records) \in Nat
      /\ \A i \in 1 .. Len(n.records) : n.records[i] = p.records[i + 1]
  BY NextRecordFields, PreparationFields
<1> HIDE DEF n
<1>2. PICK i \in 1 .. Len(p.records) : p.records[i].path = book
  BY DEF Recorded
<1>3. CASE i = 1
  <2>1. n.book.path = book
    BY <1>1, <1>2, <1>3
  <2> QED
    BY <1>1, <2>1 DEF Recorded, n
<1>4. CASE i # 1
  <2>1. i - 1 \in 1 .. Len(n.records) /\ n.records[i - 1] = p.records[i - 1 + 1] /\ i - 1 + 1 = i
    BY <1>1, <1>4
  <2>2. n.records[i - 1].path = book
    BY <1>2, <2>1
  <2> QED
    BY <2>1, <2>2 DEF Recorded, n
<1> QED
  BY <1>3, <1>4

(* What all steps on the queue's file leave alone *)
Indexing ==
  /\ UNCHANGED <<card, portal, changed, app, scanner, history, restore, left, view, queue, dirty>>
  /\ busy' \in BOOLEAN /\ app = "LibraryPrefetch" /\ prepare.phase = "Indexing"

LEMMA IndexedKeeps ==
  ASSUME LibraryInv, Indexing,
         CacheSound', cache' \in [Slots -> Thumbnails \cup {NoThumbnail}],
         parser' \in Parsers, prepare' \in Preparations, missing' \in SUBSET missing,
         \A i \in 1 .. Len(prepare'.records) :
           \E j \in 1 .. Len(prepare.records) : prepare'.records[i] = prepare.records[j],
         parser'.phase = "ReadPackage" =>
           parser'.book \in Books /\ Current(parser'.book, parser'.version),
         prepare'.active =>
           /\ prepare'.book \in Records
           /\ parser'.phase = "ReadPackage" =>
                parser'.book = prepare'.book.path /\ prepare'.book.stamp <= parser'.version,
         PreparationSound'
  PROVE  Keeps
<1>1. /\ LibraryTypes /\ ListsSound /\ ParserSound /\ PreviewsSound /\ ScanSound
  BY DEF LibraryInv
<1>2. LibraryTypes'
  BY <1>1 DEF LibraryTypes, Indexing
<1>3. PreviewsSound' /\ ScanSound'
  BY <1>1, ScanStays DEF PreviewsSound, NotNewer, Current, Indexing
<1>4. \A book, version : NotNewer(book, version)' <=> NotNewer(book, version)
  BY DEF NotNewer, Indexing
<1>5. \A book, version : Current(book, version)' <=> Current(book, version)
  BY <1>4 DEF Current, Indexing
<1>6. \A i \in 1 .. Len(prepare'.records) :
        NotNewer(prepare'.records[i].path, prepare'.records[i].stamp)
  BY <1>1 DEF ListsSound
<1>7. ListsSound'
  BY <1>1, <1>4, <1>5, <1>6 DEF ListsSound, Indexing
<1>8. ParserSound'
  BY <1>1, <1>5 DEF ParserSound, Indexing
<1> QED
  BY <1>2, <1>3, <1>7, <1>8 DEF Keeps

(* A step that looks at nothing more, warns, and leaves the cache *)
LEMMA WarnedKeeps ==
  ASSUME LibraryInv, Indexing, cache' = cache, missing' = missing,
         parser' = NoParser \/ (parser' = parser /\ ~prepare'.active),
         prepare' \in Preparations, ~prepare'.active, prepare'.truncated,
         \A i \in 1 .. Len(prepare'.records) :
           \E j \in 1 .. Len(prepare.records) : prepare'.records[i] = prepare.records[j]
  PROVE  Keeps
<1>1. /\ LibraryTypes /\ CacheSound /\ ParserSound
  BY DEF LibraryInv
<1>2. CacheSound' /\ cache' \in [Slots -> Thumbnails \cup {NoThumbnail}]
  BY <1>1 DEF CacheSound, NotNewer, Indexing, LibraryTypes
<1>3. parser' \in Parsers
  BY <1>1, VersionFacts DEF LibraryTypes, NoParser, Parsers
<1>4. parser'.phase = "ReadPackage" => parser'.book \in Books /\ Current(parser'.book, parser'.version)
  BY <1>1 DEF ParserSound, NoParser
<1>5. PreparationSound'
  BY DEF PreparationSound
<1>6. missing' \in SUBSET missing
  OBVIOUS
<1> QED
  BY <1>2, <1>3, <1>4, <1>5, <1>6, IndexedKeeps

(* A book is done with: what is unchanged is in one of the other records. *)
LEMMA DonePrepared ==
  ASSUME LibraryInv, Indexing, NEW p \in Preparations, NEW book,
         ~prepare.truncated => Counts(p), p.active, p.phase = "Indexing",
         p.truncated = prepare.truncated,
         ~prepare.truncated =>
           \A entry \in missing : Unchanged(entry) /\ entry.path # book =>
             \E i \in 1 .. Len(p.records) : p.records[i].path = entry.path,
         prepare' = BookDone(p), missing' = LookedAt(book)
  PROVE  PreparationSound'
<1> SUFFICES ASSUME ~prepare'.truncated PROVE PreparationSound'
  BY DEF PreparationSound
<1>1. /\ ~prepare'.active /\ prepare'.records = p.records /\ prepare'.phase = "Indexing"
      /\ prepare'.remaining = p.remaining - 1 /\ prepare'.torn = p.torn
      /\ prepare'.truncated = p.truncated
  BY DoneFields
<1>2. Counts(p) /\ p.remaining \in Int /\ Len(p.records) \in Nat
  BY <1>1, PreparationFields
<1>3. Counts(prepare)'
  <2>1. ~p.torn /\ p.remaining = Len(p.records) + 1
    BY <1>2 DEF Counts
  <2>2. prepare'.remaining = Len(prepare'.records) + 0
    BY <1>1, <1>2, <2>1
  <2> QED
    BY <1>1, <2>1, <2>2 DEF Counts
<1>4. ASSUME NEW entry \in missing', Unchanged(entry)'
      PROVE  Recorded(prepare, entry.path)'
  <2>1. entry \in missing /\ Unchanged(entry) /\ entry.path # book
    BY <1>4 DEF LookedAt, Unchanged, Indexing
  <2>2. \E i \in 1 .. Len(p.records) : p.records[i].path = entry.path
    BY <1>1, <2>1
  <2> QED
    BY <1>1, <2>2 DEF Recorded
<1> QED
  BY <1>1, <1>3, <1>4 DEF PreparationSound

LEMMA IndexBookKeeps ==
  ASSUME LibraryInv, Indexing, prepare.active, IndexBook
  PROVE  Keeps
<1>1. /\ LibraryTypes /\ CacheSound /\ ParserSound /\ PreparationSound /\ prepare \in Preparations
  BY DEF LibraryInv, LibraryTypes
<1>2. \A i \in 1 .. Len(prepare.records) :
        \E j \in 1 .. Len(prepare.records) : prepare.records[i] = prepare.records[j]
  OBVIOUS
<1>3. ASSUME NEW q \in Parsed(parser), q.phase = "Ready", parser' = NoParser,
             cache' \in Saves(cache, prepare.book, q.version, BusFree),
             prepare' = BookDone(prepare), missing' = LookedAt(q.book)
      PROVE  Keeps
  <2>1. parser.phase = "ReadPackage" /\ q.book = parser.book /\ q.version = parser.version
    BY <1>1, <1>3, ParsedOn, Failed
  <2>2. /\ prepare.book \in Records /\ q.book = prepare.book.path
        /\ prepare.book.stamp <= q.version /\ NotNewer(q.book, q.version) /\ q.version \in 0 .. MaxVersion
    BY <1>1, <2>1 DEF ParserSound, Current, LibraryTypes, Parsers
  <2>3. CacheSound' /\ cache' \in [Slots -> Thumbnails \cup {NoThumbnail}]
    BY <1>1, <1>3, <2>2, SavesSound DEF Indexing
  <2>4. ~prepare.truncated =>
          /\ Counts(prepare)
          /\ \A entry \in missing : Unchanged(entry) => Recorded(prepare, entry.path)
    BY <1>1 DEF PreparationSound, Indexing
  <2>5. PreparationSound'
    <3>1. ~prepare.truncated =>
            \A entry \in missing : Unchanged(entry) /\ entry.path # q.book =>
              \E i \in 1 .. Len(prepare.records) : prepare.records[i].path = entry.path
      BY <2>2, <2>4 DEF Recorded
    <3>2. prepare.phase = "Indexing"
      BY DEF Indexing
    <3> QED
      BY <1>1, <1>3, <2>4, <3>1, <3>2, DonePrepared
  <2>6. prepare' \in Preparations /\ ~prepare'.active /\ prepare'.records = prepare.records
    BY <1>1, <1>3, DoneFields
  <2>7. parser' \in Parsers /\ parser'.phase # "ReadPackage" /\ missing' \in SUBSET missing
    BY <1>3, VersionFacts DEF NoParser, Parsers, LookedAt
  <2> QED
    BY <1>2, <2>3, <2>5, <2>6, <2>7, IndexedKeeps
<1>4. ASSUME prepare' = BookFailed(prepare), UNCHANGED <<cache, missing>>, parser' = NoParser
      PROVE  Keeps
  <2>1. /\ prepare' \in Preparations /\ ~prepare'.active /\ prepare'.records = prepare.records
        /\ prepare'.truncated
    BY <1>1, <1>4, FailedFields
  <2> QED
    BY <1>2, <1>4, <2>1, WarnedKeeps
<1> QED
  BY <1>3, <1>4 DEF IndexBook

LEMMA TakeRecordKeeps ==
  ASSUME LibraryInv, Indexing, ~prepare.active, prepare.records # <<>>, cache' = cache,
         LET entry == Head(prepare.records)
             p == NextRecord(prepare)
         IN \/ /\ Hit(cache, entry, BusFree)
               /\ prepare' = BookDone(p) /\ missing' = LookedAt(entry.path)
               /\ UNCHANGED parser
            \/ /\ UNCHANGED missing
               /\ \E q \in Parsed(Started(entry.path)) :
                    \/ q = FailedParser /\ prepare' = BookFailed(p) /\ parser' = NoParser
                    \/ q # FailedParser /\ prepare' = p /\ parser' = q
  PROVE  Keeps
<1> DEFINE entry == Head(prepare.records)
           p == NextRecord(prepare)
<1>1. /\ LibraryTypes /\ CacheSound /\ ListsSound /\ ParserSound /\ PreparationSound
      /\ prepare \in Preparations
  BY DEF LibraryInv, LibraryTypes
<1>2. /\ p \in Preparations /\ p.active /\ p.book = entry /\ entry \in Records
      /\ entry = prepare.records[1] /\ 1 \in 1 .. Len(prepare.records)
      /\ p.phase = prepare.phase /\ p.remaining = prepare.remaining /\ p.torn = prepare.torn
      /\ p.truncated = prepare.truncated
      /\ Len(p.records) = Len(prepare.records) - 1
      /\ \A i \in 1 .. Len(p.records) :
           p.records[i] = prepare.records[i + 1] /\ i + 1 \in 1 .. Len(prepare.records)
  BY <1>1, NextRecordFields
<1>3. ~prepare.truncated =>
        \A book : Recorded(prepare, book) =>
          /\ Recorded(p, book)
          /\ book # entry.path => \E i \in 1 .. Len(p.records) : p.records[i].path = book
  BY <1>1, NextRecorded
<1>4. \/ /\ prepare' = BookDone(p) /\ missing' = LookedAt(entry.path)
         /\ UNCHANGED parser
      \/ /\ UNCHANGED missing
         /\ \E q \in Parsed(Started(entry.path)) :
              \/ q = FailedParser /\ prepare' = BookFailed(p) /\ parser' = NoParser
              \/ q # FailedParser /\ prepare' = p /\ parser' = q
  OBVIOUS
<1> HIDE DEF entry, p
<1>5. \A i \in 1 .. Len(p.records) :
        \E j \in 1 .. Len(prepare.records) : p.records[i] = prepare.records[j]
  BY <1>2
<1>6. CacheSound' /\ cache' \in [Slots -> Thumbnails \cup {NoThumbnail}]
  BY <1>1 DEF CacheSound, NotNewer, Indexing, LibraryTypes
<1>7. ~prepare.truncated =>
        /\ Counts(prepare)
        /\ \A e \in missing : Unchanged(e) => Recorded(prepare, e.path)
  BY <1>1 DEF PreparationSound, Indexing
<1>8. ~prepare.truncated => Counts(p)
  <2> SUFFICES ASSUME ~prepare.truncated PROVE Counts(p)
    OBVIOUS
  <2>1. ~prepare.torn /\ prepare.remaining = Len(prepare.records) + 0 /\ Len(prepare.records) \in Nat
    BY <1>1, <1>7, PreparationFields DEF Counts
  <2>2. p.remaining = Len(p.records) + 1
    BY <1>2, <2>1
  <2> QED
    BY <1>2, <2>1, <2>2 DEF Counts
<1>9. CASE prepare' = BookDone(p) /\ missing' = LookedAt(entry.path) /\ parser' = parser
  <2>1. PreparationSound'
    <3>1. ~prepare.truncated =>
            \A e \in missing : Unchanged(e) /\ e.path # entry.path =>
              \E i \in 1 .. Len(p.records) : p.records[i].path = e.path
      BY <1>3, <1>7
    <3>2. p.phase = "Indexing"
      BY <1>2 DEF Indexing
    <3> QED
      BY <1>2, <1>8, <1>9, <3>1, <3>2, DonePrepared
  <2>2. prepare' \in Preparations /\ ~prepare'.active /\ prepare'.records = p.records
    BY <1>2, <1>9, DoneFields
  <2>3. /\ parser' \in Parsers /\ missing' \in SUBSET missing
        /\ parser'.phase = "ReadPackage" =>
             parser'.book \in Books /\ Current(parser'.book, parser'.version)
    BY <1>1, <1>9 DEF LibraryTypes, LookedAt, ParserSound
  <2> QED
    BY <1>5, <1>6, <2>1, <2>2, <2>3, IndexedKeeps
<1>10. CASE missing' = missing /\ prepare' = BookFailed(p) /\ parser' = NoParser
  <2>1. /\ prepare' \in Preparations /\ ~prepare'.active /\ prepare'.records = p.records
        /\ prepare'.truncated
    BY <1>2, <1>10, FailedFields
  <2> QED
    BY <1>5, <1>10, <2>1, WarnedKeeps
<1>11. ASSUME NEW q \in Parsed(Started(entry.path)), q # FailedParser, prepare' = p, parser' = q,
              missing' = missing
       PROVE  Keeps
  <2>1. entry.path \in Books
    BY <1>2 DEF Records
  <2>2. /\ Exists(card[entry.path]) /\ q \in Parsers
        /\ q.book = entry.path /\ q.version = card[entry.path]
    BY <1>1, <1>11, <2>1, ParsedStarted
  <2>3. NotNewer(entry.path, entry.stamp)
    BY <1>1, <1>2 DEF ListsSound
  <2>4. card[entry.path] \in Int
    BY <1>1, <2>1 DEF LibraryTypes
  <2>5. entry.stamp <= card[entry.path] /\ Current(entry.path, card[entry.path])
    BY <2>2, <2>3, <2>4 DEF NotNewer, Current, Exists
  <2>6. PreparationSound'
    <3> SUFFICES ASSUME ~prepare'.truncated PROVE PreparationSound'
      BY DEF PreparationSound
    <3>1. /\ Counts(p) /\ p.phase = "Indexing"
          /\ \A e \in missing : Unchanged(e) => Recorded(p, e.path)
      BY <1>2, <1>3, <1>7, <1>8, <1>11 DEF Indexing
    <3>2. Counts(prepare)' /\ \A book : Recorded(prepare, book)' <=> Recorded(p, book)
      BY <1>11, <3>1 DEF Counts, Recorded
    <3>3. \A e : Unchanged(e)' <=> Unchanged(e)
      BY DEF Unchanged, Indexing
    <3> QED
      BY <1>11, <3>1, <3>2, <3>3 DEF PreparationSound
  <2>7. missing' \in SUBSET missing
    BY <1>11
  <2> QED
    BY <1>2, <1>5, <1>6, <1>11, <2>1, <2>2, <2>5, <2>6, <2>7, IndexedKeeps
<1> QED
  BY <1>4, <1>9, <1>10, <1>11

LEMMA IndexCardKeeps ==
  ASSUME LibraryInv, IndexCard
  PROVE  Keeps
<1>1. /\ LibraryTypes /\ CacheSound /\ ParserSound /\ PreparationSound /\ prepare \in Preparations
      /\ busy \in BOOLEAN
  BY DEF LibraryInv, LibraryTypes
<1>2. ASSUME busy' \in BOOLEAN
      PROVE  Indexing
  BY <1>2 DEF Indexing, IndexCard, Preparing, cardVars, browserVars
<1>3. \A i \in 1 .. Len(prepare.records) :
        \E j \in 1 .. Len(prepare.records) : prepare.records[i] = prepare.records[j]
  OBVIOUS
<1>4. CASE prepare.active /\ IndexBook
  BY <1>1, <1>2, <1>4, IndexBookKeeps DEF IndexBook, Progress
<1>5. CASE /\ ~prepare.active /\ prepare.remaining = 0
           /\ prepare' = [prepare EXCEPT !.phase = "Done"] /\ busy' = TRUE
           /\ UNCHANGED <<cache, parser, missing>>
  <2>1. /\ prepare' \in Preparations /\ ~prepare'.active /\ prepare'.records = prepare.records
        /\ prepare'.phase = "Done" /\ prepare'.remaining = prepare.remaining
        /\ prepare'.torn = prepare.torn /\ prepare'.truncated = prepare.truncated
    BY <1>1, <1>5 DEF Preparations
  <2>2. Indexing
    BY <1>2, <1>5
  <2>3. PreparationSound'
    <3> SUFFICES ASSUME ~prepare'.truncated PROVE PreparationSound'
      BY DEF PreparationSound
    <3>1. /\ Counts(prepare) /\ Len(prepare.records) \in Nat
          /\ \A entry \in missing : Unchanged(entry) => Recorded(prepare, entry.path)
      BY <1>1, <2>1, <2>2, PreparationFields DEF PreparationSound, Indexing
    <3>2. Len(prepare.records) + 0 = 0 /\ ~prepare.torn
      BY <1>5, <3>1 DEF Counts
    <3>3. Len(prepare.records) = 0
      BY <3>1, <3>2
    <3>4. \A entry \in missing : ~Unchanged(entry)
      BY <1>5, <3>1, <3>3 DEF Recorded
    <3>5. \A entry \in missing' : ~Unchanged(entry)'
      BY <1>5, <2>2, <3>4 DEF Unchanged, Indexing
    <3>6. Counts(prepare)'
      BY <1>5, <2>1, <3>2, <3>3 DEF Counts
    <3> QED
      BY <2>1, <3>5, <3>6 DEF PreparationSound
  <2>4. CacheSound' /\ cache' \in [Slots -> Thumbnails \cup {NoThumbnail}]
    BY <1>1, <1>5, <2>2 DEF CacheSound, NotNewer, Indexing, LibraryTypes
  <2>5. /\ parser' \in Parsers /\ missing' \in SUBSET missing
        /\ parser'.phase = "ReadPackage" =>
             parser'.book \in Books /\ Current(parser'.book, parser'.version)
    BY <1>1, <1>5 DEF LibraryTypes, ParserSound
  <2> QED
    BY <1>3, <2>1, <2>2, <2>3, <2>4, <2>5, IndexedKeeps
<1>6. CASE ~prepare.active /\ prepare' = RestUnreadable(prepare) /\ UNCHANGED <<cache, parser, missing, busy>>
  <2>a. 0 \in Int /\ prepare' = [prepare EXCEPT !.truncated = TRUE, !.remaining = 0]
    BY <1>6 DEF RestUnreadable
  <2>1. /\ prepare' \in Preparations /\ ~prepare'.active /\ prepare'.records = prepare.records
        /\ prepare'.truncated
    BY <1>1, <1>6, <2>a DEF Preparations
  <2> QED
    BY <1>1, <1>2, <1>3, <1>6, <2>1, WarnedKeeps
<1>7. CASE ~prepare.active /\ prepare' = BookFailed(prepare) /\ UNCHANGED <<cache, parser, missing>> /\ Progress
  <2>1. /\ prepare' \in Preparations /\ ~prepare'.active /\ prepare'.records = prepare.records
        /\ prepare'.truncated
    BY <1>1, <1>7, FailedFields
  <2> QED
    BY <1>1, <1>2, <1>3, <1>7, <2>1, WarnedKeeps DEF Progress
<1>8. CASE /\ ~prepare.active /\ prepare.records # <<>>
           /\ LET entry == Head(prepare.records)
                  p == [prepare EXCEPT !.records = Tail(@), !.book = entry, !.active = TRUE]
              IN \/ /\ Hit(cache, entry, BusFree)
                    /\ prepare' = BookDone(p) /\ missing' = LookedAt(entry.path)
                    /\ UNCHANGED parser /\ Progress
                 \/ /\ ~Hit(cache, entry, BusFree) /\ UNCHANGED missing
                    /\ \E q \in Parsed(Started(entry.path)) :
                         \/ /\ q = FailedParser /\ prepare' = BookFailed(p) /\ parser' = NoParser
                            /\ Progress
                         \/ q # FailedParser /\ prepare' = p /\ parser' = q /\ UNCHANGED busy
           /\ UNCHANGED cache
  <2>1. busy' \in BOOLEAN
    BY <1>1, <1>8 DEF Progress
  <2>2. Indexing
    BY <1>2, <2>1
  <2> QED
    BY <1>8, <2>2, TakeRecordKeeps DEF NextRecord
<1>9. CASE ~prepare.active /\ ReadRecord
  BY <1>6, <1>7, <1>8, <1>9 DEF ReadRecord
<1> QED
  BY <1>4, <1>5, <1>9 DEF IndexCard

(* Whatever the step, all but the places is kept. *)
LEMMA StepKeeps ==
  ASSUME LibraryInv, [Next]_vars
  PROVE  Keeps
<1>1. LibraryTypes /\ ParserSound /\ Apart(scanner)
  BY DEF LibraryInv, ScanSound
<1>2. CASE BrowserStep
  BY <1>1, <1>2, BrowserStepBrowses, BrowsesKeep
<1>3. CASE EndUpload \/ DeleteBook
  BY <1>1, <1>3, UploadChanges, BrowsesKeep, CardChangesKeep DEF Keeps
<1> QED
  BY <1>2, <1>3, StopPortalKeeps, BeginCardPrefetchKeeps, ServicePreviewsKeeps, ScanCardKeeps,
     IndexCardKeeps
     DEF Next, Portal, User, Tick, ServiceCardPrefetch, BrowserStep
-----------------------------------------------------------------------------
(* Where the user is, and the pages that are come back to                  *)
LEMMA SetPageExact ==
  ASSUME NEW v \in Views, NEW w, w.path = v.path, NEW entries, NEW page
  PROVE  SetPage(v, entries, page).page = Smaller(page, PageCount(w, entries) - 1)
<1>1. PageCount(w, entries) = PageCount(v, entries)
  BY DEF PageCount, ItemCount, ParentItems
<1>2. SetPage(v, entries, page).page = Smaller(page, PageCount(v, entries) - 1)
  BY DEF SetPage, Views
<1> QED
  BY <1>1, <1>2

(* The end of a scan, which uses up the place to come back to *)
Returned ==
  /\ restore.path = view.path /\ ~scanner'.running
  /\ restore' = NoRestore /\ left' = [left EXCEPT ![view.path] = 0]
  /\ view'.page = Smaller(restore.page, PageCount(view', scanner'.entries) - 1)

LEMMA ScanReturns ==
  ASSUME LibraryTypes, Apart(scanner), Scan
  PROVE  /\ view'.path = view.path /\ history' = history
         /\ Returned \/ UNCHANGED <<restore, left>>
         /\ ~scanner'.running /\ restore.path = view.path => Returned
<1>1. view \in Views /\ scanner \in Scanners /\ view.path \in Folders /\ restore.page \in Nat
  BY DEF LibraryTypes, Views, Places
<1>2. scanner'.entries \in Seq(Listings)
  BY NextBatchTyped DEF Scan, Scanners
<1>3. history' = history
  BY DEF Scan
<1>4. CASE scanner'.running
  <2>1. Drawn(view, scanner'.entries, dirty) /\ UNCHANGED <<restore, left>>
    BY <1>4 DEF Scan
  <2>2. Shows(view', view)
    BY <1>1, <1>2, <2>1, DrawnShows DEF LibraryTypes
  <2> QED
    BY <1>3, <1>4, <2>1, <2>2 DEF Shows
<1>5. CASE ~scanner'.running
  <2> DEFINE model == SetModel(view, view.path, scanner'.entries)
             w == SetPage(model, scanner'.entries, restore.page)
  <2>1. [view EXCEPT !.path = view.path] = view
    BY <1>1 DEF Views
  <2>2. Shows(model, view)
    BY <1>1, <1>2, <2>1, SetModelShows
  <2>3. CASE restore.path = view.path
    <3>1. /\ SchedulePreviews(w, scanner'.entries)
          /\ restore' = NoRestore /\ left' = [left EXCEPT ![view.path] = 0]
      BY <1>5, <2>3 DEF Scan
    <3> HIDE DEF model
    <3>2. model \in Views /\ model.path = view.path
      BY <2>2 DEF Shows
    <3>3. Shows(w, model)
      BY <1>1, <1>2, <3>2, SetPageShows
    <3>4. w \in Views /\ w.path = view.path
      BY <3>2, <3>3 DEF Shows
    <3>5. Rescheduled(w, scanner'.entries)
      <4> HIDE DEF w
      <4> QED
        BY <1>2, <3>1, <3>4, SchedulePreviewsDoes DEF LibraryTypes
    <3>6. view'.path = view.path /\ view'.page = w.page
      <4> HIDE DEF w
      <4> QED
        BY <3>4, <3>5 DEF Rescheduled, Shows
    <3>7. w.page = Smaller(restore.page, PageCount(view', scanner'.entries) - 1)
      BY <3>2, <3>6, SetPageExact
    <3> QED
      BY <1>3, <1>5, <2>3, <3>1, <3>6, <3>7 DEF Returned
  <2>4. CASE restore.path # view.path
    <3>1. SchedulePreviews(model, scanner'.entries) /\ restore' = restore /\ left' = left
      BY <1>5, <2>4 DEF Scan
    <3> HIDE DEF model
    <3>2. model \in Views /\ model.path = view.path
      BY <2>2 DEF Shows
    <3>3. Rescheduled(model, scanner'.entries)
      BY <1>2, <3>1, <3>2, SchedulePreviewsDoes DEF LibraryTypes
    <3> QED
      BY <1>3, <2>4, <3>1, <3>2, <3>3 DEF Rescheduled, Shows
  <2> QED
    BY <2>3, <2>4
<1> QED
  BY <1>4, <1>5

(* No other step but those of the user between folders *)
LEMMA PathStays ==
  ASSUME LibraryInv, [Next]_vars, ~Scan, ~OpenFolder, ~OpenParent
  PROVE  view'.path = view.path /\ UNCHANGED <<history, restore, left>>
<1>1. /\ LibraryTypes /\ view \in Views /\ view.path \in Folders /\ scanner \in Scanners
      /\ queue \in Queues /\ busy \in BOOLEAN /\ view.page \in Nat
  BY DEF LibraryInv, LibraryTypes, Views
<1>2. scanner.entries \in Seq(Listings)
  BY <1>1 DEF Scanners
<1>3. CASE StartPortal \/ BeginUpload \/ EndUpload \/ DeleteBook \/ OpenMenu \/ BeginCardPrefetch
           \/ ScanCard \/ IndexCard \/ PanelIdles \/ UNCHANGED vars
  BY <1>3 DEF StartPortal, BeginUpload, EndUpload, DeleteBook, OpenMenu, BeginCardPrefetch, ScanCard,
              IndexCard, PanelIdles, vars, browserVars
<1>4. CASE StopPortal
  <2>1. UNCHANGED <<history, restore, left>>
    BY <1>4 DEF StopPortal, browserVars
  <2>2. CASE ~changed
    BY <1>4, <2>1, <2>2 DEF StopPortal
  <2>3. CASE changed
    <3> DEFINE v == [view EXCEPT !.previews = <<>>]
    <3>1. v \in Views
      BY <1>1, EmptySeq DEF Views
    <3>2. StartDirectory(v, view.path, TRUE)
      BY <1>4, <2>3 DEF StopPortal
    <3> HIDE DEF v
    <3> QED
      BY <1>1, <2>1, <3>1, <3>2, StartDirectoryDoes
  <2> QED
    BY <2>2, <2>3 DEF LibraryTypes
<1>5. CASE TurnPage
  <2>1. UNCHANGED <<history, restore, left>>
    BY <1>5 DEF TurnPage, browserVars
  <2>2. ASSUME NEW page \in Nat, SchedulePreviews([view EXCEPT !.page = page], scanner.entries)
        PROVE  view'.path = view.path
    <3>1. [view EXCEPT !.page = page] \in Views /\ [view EXCEPT !.page = page].path = view.path
      BY <1>1, <2>2 DEF Views
    <3>2. Rescheduled([view EXCEPT !.page = page], scanner.entries)
      BY <1>1, <1>2, <2>2, <3>1, SchedulePreviewsDoes
    <3> QED
      BY <3>1, <3>2 DEF Rescheduled, Shows
  <2>3. \A last : \A page \in {view.page - 1, view.page, view.page + 1} \cap 0 .. last : page \in Nat
    BY <1>1
  <2> QED
    BY <1>5, <2>1, <2>2, <2>3 DEF TurnPage
<1>6. CASE OpenBook
  BY <1>1, <1>6 DEF OpenBook, browserVars, Views
<1>7. CASE CloseBook \/ FinishCardPrefetch
  BY <1>1, <1>2, <1>7, ModelRescheduled DEF CloseBook, FinishCardPrefetch, browserVars, Shows
<1>8. CASE CloseMenu
  BY <1>1, <1>2, <1>8, SchedulePreviewsDoes DEF CloseMenu, browserVars, Rescheduled, Shows
<1>9. CASE DismissError
  <2> DEFINE w == SetModel(view, view.path, scanner.entries)
  <2>1. [view EXCEPT !.path = view.path] = view
    BY <1>1 DEF Views
  <2>2. Shows(w, view)
    BY <1>1, <1>2, <2>1, SetModelShows
  <2>3. Drawn(w, scanner.entries, TRUE) /\ UNCHANGED <<history, restore, left>>
    BY <1>9 DEF DismissError, browserVars
  <2> HIDE DEF w
  <2>4. Shows(view', w)
    BY <1>1, <1>2, <2>2, <2>3, DrawnShows DEF Shows
  <2> QED
    BY <2>2, <2>3, <2>4 DEF Shows
<1>10. CASE Render
  BY <1>1, <1>2, <1>10, DrawnShows DEF Render, browserVars, Shows
<1>11. CASE ServiceLibraryPreviews
  BY <1>11, ServicePreviewsKeeps DEF ServiceLibraryPreviews, browserVars
<1> QED
  BY <1>3, <1>4, <1>5, <1>6, <1>7, <1>8, <1>9, <1>10, <1>11
     DEF Next, Portal, User, Tick, ServiceCardPrefetch

LEMMA ScanPlaces ==
  ASSUME LibraryTypes, PlacesKept, Apart(scanner), Scan
  PROVE  PlacesKept'
<1>1. view'.path = view.path /\ history' = history /\ (Returned \/ UNCHANGED <<restore, left>>)
  BY ScanReturns
<1>2. /\ view.path \in Folders /\ view.path \in Nat /\ left \in [Folders -> Nat]
      /\ history \in Seq(Places) /\ Len(history) \in Nat
  BY CardFacts, LenProperties DEF LibraryTypes, Views
<1>3. \A i \in 1 .. Len(history) : Down(i)' <=> Down(i)
  BY <1>1 DEF Down, At
<1>4. CASE UNCHANGED <<restore, left>>
  BY <1>1, <1>3, <1>4 DEF PlacesKept
<1>5. CASE Returned
  <2>1. ASSUME NEW i \in 1 .. Len(history), Down(i)
        PROVE  history[i].path # view.path
    <3>1. Len(history) \in i .. Len(history) /\ ~(Len(history) + 1 <= Len(history))
      BY <1>2
    <3>2. At(i) < At(Len(history) + 1)
      BY <2>1, <3>1 DEF Down
    <3>3. history[i].path < view.path
      BY <1>2, <3>1, <3>2 DEF At
    <3> QED
      BY <1>2, <3>3
  <2>2. ASSUME NEW i \in 1 .. Len(history), Down(i)
        PROVE  history[i].page = left'[history[i].path]
    <3>1. history[i].path \in Folders /\ history[i].page = left[history[i].path]
      BY <2>2 DEF PlacesKept
    <3> QED
      BY <1>2, <1>5, <2>1, <2>2, <3>1 DEF Returned
  <2>3. restore'.path # view'.path
    BY <1>1, <1>2, <1>5 DEF Returned, NoRestore
  <2> QED
    BY <1>1, <1>3, <2>2, <2>3 DEF PlacesKept
<1> QED
  BY <1>1, <1>4, <1>5

LEMMA OpenFolderPlaces ==
  ASSUME LibraryTypes, PlacesKept, OpenFolder
  PROVE  PlacesKept'
<1>1. PICK entry \in ToSet(EntriesOn(view, scanner.entries, view.page)) :
        /\ entry.path \in Folders
        /\ history' = Append(history, [path |-> view.path, page |-> view.page])
        /\ left' = [left EXCEPT ![view.path] = view.page]
        /\ StartDirectory(view, entry.path, BusFree)
  BY DEF OpenFolder
<1>2. /\ view \in Views /\ view.path \in Folders /\ view.path \in Nat /\ left \in [Folders -> Nat]
      /\ history \in Seq(Places) /\ Len(history) \in Nat /\ scanner \in Scanners /\ queue \in Queues
  BY CardFacts, LenProperties DEF LibraryTypes, Views
<1>3. view'.path = entry.path
  BY <1>1, <1>2, BusIsFree, StartDirectoryDoes
<1> DEFINE n == Len(history)
           place == [path |-> view.path, page |-> view.page]
<1>4. place \in Places /\ place.path = view.path /\ place.page = view.page
  BY <1>2, PlaceTyped
<1>5. history' = Append(history, place)
  BY <1>1
<1> HIDE DEF place
<1>6. /\ Len(history') = n + 1 /\ history'[n + 1] = place
      /\ \A i \in 1 .. n : history'[i] = history[i]
  BY <1>2, <1>4, <1>5, AppendProperties
<1>7. \A i \in 1 .. n + 1 : At(i)' = At(i)
  BY <1>2, <1>4, <1>6 DEF At
<1>8. ASSUME NEW i \in 1 .. n, Down(i)'
      PROVE  Down(i) /\ history[i].path # view.path
  <2>1. \A j \in i .. n + 1 : At(j)' < At(j + 1)' /\ At(i)' < At(j + 1)'
    BY <1>6, <1>8 DEF Down
  <2>2. \A j \in i .. n : j \in i .. n + 1 /\ j \in 1 .. n + 1 /\ j + 1 \in 1 .. n + 1 /\ i \in 1 .. n + 1
    BY <1>2
  <2>3. \A j \in i .. n : At(j) < At(j + 1) /\ At(i) < At(j + 1)
    BY <1>7, <2>1, <2>2
  <2>4. n \in i .. n /\ ~(n + 1 <= n)
    BY <1>2
  <2>5. history[i].path < view.path
    BY <1>2, <2>3, <2>4 DEF At
  <2> QED
    BY <1>2, <2>3, <2>5 DEF Down
<1>9. ASSUME NEW i \in 1 .. Len(history')
      PROVE  history'[i].path \in Folders /\ (Down(i)' => history'[i].page = left'[history'[i].path])
  <2>1. CASE i = n + 1
    BY <1>1, <1>2, <1>4, <1>6, <2>1
  <2>2. CASE i # n + 1
    <3>1. i \in 1 .. n /\ history'[i] = history[i]
      BY <1>2, <1>6, <2>2
    <3>2. /\ history[i].path \in Folders
          /\ Down(i) => history[i].page = left[history[i].path]
      BY <3>1 DEF PlacesKept
    <3> QED
      BY <1>1, <1>2, <1>8, <3>1, <3>2
  <2> QED
    BY <2>1, <2>2
<1>10. restore'.path # view'.path
  <2>1. entry.path \in Nat /\ restore' = NoRestore
    BY <1>1, CardFacts DEF OpenFolder
  <2> QED
    BY <1>3, <2>1 DEF NoRestore
<1> QED
  BY <1>9, <1>10 DEF PlacesKept

LEMMA OpenParentPlaces ==
  ASSUME LibraryTypes, PlacesKept, OpenParent
  PROVE  PlacesKept'
<1> DEFINE n == Len(history)
           parent == Parent[view.path]
<1>1. /\ view \in Views /\ view.path \in Folders \ {Root} /\ view.path \in Nat
      /\ history \in Seq(Places) /\ n \in Nat /\ scanner \in Scanners /\ queue \in Queues
  BY CardFacts, LenProperties DEF LibraryTypes, Views, OpenParent
<1>2. parent \in Folders /\ parent \in Nat /\ parent < view.path
  BY <1>1, CardFacts
<1>3. view'.path = parent /\ left' = left
  BY <1>1, <1>2, BusIsFree, StartDirectoryDoes DEF OpenParent
<1>4. \A i \in 1 .. n : history[i].path \in Folders /\ history[i].path \in Nat
  BY CardFacts DEF PlacesKept
<1> HIDE DEF parent
<1>5. CASE history # <<>> /\ Last(history).path = parent
  <2>1. restore' = Last(history) /\ history' = Front(history)
    BY <1>5 DEF OpenParent, parent
  <2>2. /\ restore' = history[n] /\ Len(history') = n - 1
        /\ \A i \in 1 .. n - 1 : history'[i] = history[i]
    BY <1>1, <1>5, <2>1, PoppedHistory
  <2>3. n \in 1 .. n
    BY <1>1, <1>5, EmptySeq
  <2>4. At(n) = parent /\ At(n + 1) = view.path /\ \A i \in 1 .. n : At(i) = history[i].path
    BY <1>1, <1>5, <2>1, <2>2, <2>3 DEF At
  <2>5. \A i \in 1 .. n : At(i)' = At(i)
    BY <1>1, <1>3, <2>2, <2>3, <2>4 DEF At
  <2>6. Down(n)
    BY <1>1, <1>2, <2>4 DEF Down
  <2>7. ASSUME NEW i \in 1 .. n - 1, Down(i)'
        PROVE  Down(i)
    <3>1. \A j \in i .. n - 1 : At(j)' < At(j + 1)' /\ At(i)' < At(j + 1)'
      BY <2>2, <2>7 DEF Down
    <3>2. \A j \in i .. n - 1 : j \in 1 .. n /\ j + 1 \in 1 .. n /\ i \in 1 .. n
      BY <1>1
    <3>3. \A j \in i .. n - 1 : At(j) < At(j + 1) /\ At(i) < At(j + 1)
      BY <2>5, <3>1, <3>2
    <3>4. n - 1 \in i .. n - 1 /\ n - 1 + 1 = n /\ i \in 1 .. n
      BY <1>1
    <3>5. At(i) < parent /\ At(i) \in Nat
      BY <1>4, <2>4, <3>3, <3>4
    <3>6. At(n) < At(n + 1) /\ At(i) < At(n + 1)
      BY <1>1, <1>2, <2>4, <3>5
    <3>7. \A j \in i .. n : j \in i .. n - 1 \/ j = n
      BY <1>1
    <3> QED
      BY <3>3, <3>6, <3>7 DEF Down
  <2>8. ASSUME NEW i \in 1 .. Len(history')
        PROVE  history'[i].path \in Folders /\ (Down(i)' => history'[i].page = left'[history'[i].path])
    <3>1. i \in 1 .. n - 1 /\ i \in 1 .. n /\ history'[i] = history[i]
      BY <1>1, <2>2
    <3> QED
      BY <1>3, <2>7, <3>1 DEF PlacesKept
  <2>9. restore'.page = left'[restore'.path]
    BY <1>3, <2>2, <2>3, <2>6 DEF PlacesKept
  <2> QED
    BY <2>8, <2>9 DEF PlacesKept
<1>6. CASE ~(history # <<>> /\ Last(history).path = parent)
  <2>1. restore' = NoRestore /\ history' = history
    BY <1>6 DEF OpenParent, parent
  <2>2. ASSUME NEW i \in 1 .. n, Down(i)'
        PROVE  Down(i)
    <3>1. \A j \in i .. n : At(j)' < At(j + 1)' /\ At(i)' < At(j + 1)'
      BY <2>1, <2>2 DEF Down
    <3>2. \A j \in 1 .. n : At(j)' = At(j) /\ At(j) = history[j].path
      BY <2>1 DEF At
    <3>3. At(n + 1) = view.path
      BY <1>1 DEF At
    <3>4. ASSUME NEW j \in i .. n
          PROVE  At(j) < At(j + 1) /\ At(i) < At(j + 1)
      <4>1. j \in 1 .. n /\ i \in 1 .. n
        BY <1>1
      <4>2. At(j) \in Nat /\ At(i) \in Nat
        BY <1>4, <3>2, <4>1
      <4>3. CASE j = n
        <5>a. At(j)' < At(j + 1)' /\ At(i)' < At(j + 1)'
          BY <3>1
        <5>b. At(j + 1)' = parent
          BY <1>1, <1>3, <2>1, <4>3 DEF At
        <5>1. At(j) < parent /\ At(i) < parent
          BY <3>2, <4>1, <5>a, <5>b
        <5> QED
          BY <1>1, <1>2, <3>3, <4>2, <4>3, <5>1
      <4>4. CASE j # n
        <5>1. j + 1 \in 1 .. n
          BY <1>1, <4>1, <4>4
        <5> QED
          BY <3>1, <3>2, <4>1, <5>1
      <4> QED
        BY <4>3, <4>4
    <3> QED
      BY <3>4 DEF Down
  <2>3. restore'.path # view'.path
    BY <1>2, <1>3, <2>1 DEF NoRestore
  <2>4. \A i \in 1 .. n : Down(i)' => Down(i)
    BY <2>2
  <2> HIDE DEF n
  <2> QED
    BY <1>3, <2>1, <2>3, <2>4 DEF PlacesKept, n
<1> QED
  BY <1>5, <1>6

LEMMA StepPlaces ==
  ASSUME LibraryInv, [Next]_vars
  PROVE  PlacesKept'
<1>1. LibraryTypes /\ PlacesKept /\ Apart(scanner)
  BY DEF LibraryInv, ScanSound
<1>2. CASE ~Scan /\ ~OpenFolder /\ ~OpenParent
  <2>1. view'.path = view.path /\ UNCHANGED <<history, restore, left>>
    BY <1>2, PathStays
  <2>2. \A i \in 1 .. Len(history) : Down(i)' <=> Down(i)
    BY <2>1 DEF Down, At
  <2> QED
    BY <1>1, <2>1, <2>2 DEF PlacesKept
<1> QED
  BY <1>1, <1>2, ScanPlaces, OpenFolderPlaces, OpenParentPlaces
-----------------------------------------------------------------------------
LEMMA InitTypes ==
  ASSUME Init
  PROVE  LibraryTypes /\ Listed(scanner) = {} /\ ScanSound
<1>1. card \in [Books -> -2 .. MaxVersion] /\ cache \in [Slots -> Thumbnails \cup {NoThumbnail}]
  <2>1. \A version \in 0 .. 1 : version \in -2 .. MaxVersion
    BY VersionFacts
  <2> QED
    BY <2>1 DEF Init
<1>2. Home \in Folders
  BY CardFacts
<1>3. \/ scanner = [NewScanner EXCEPT !.path = Home, !.running = TRUE, !.unread = Holds(card, Home)]
      \/ scanner = [NewScanner EXCEPT !.path = Home, !.failed = TRUE]
  BY DEF Init, StartScan
<1>4. scanner \in Scanners
  BY <1>2, <1>3, EmptySeq DEF NewScanner, Scanners, Holds
<1>5. scanner.entries = <<>>
  BY <1>3 DEF NewScanner
<1>6. Listed(scanner) = {}
  <2>1. <<>> \in Seq(Listings) /\ Len(<<>>) = 0
    BY EmptySeq
  <2>2. DOMAIN <<>> = {}
    BY <2>1, LenProperties
  <2> QED
    BY <1>5, <2>2 DEF Listed
<1>7. ScanSound
  <2>1. \/ scanner.running /\ scanner.unread = Holds(card, Home) /\ scanner.path = Home
        \/ ~scanner.running /\ scanner.unread = {} /\ scanner.failed
    BY <1>3 DEF NewScanner
  <2>2. Apart(scanner)
    BY <1>6 DEF Apart, Distinct
  <2> QED
    BY <1>6, <2>1, <2>2, NoneGone DEF ScanSound
<1>8. view \in Views
  BY <1>2, EmptySeq DEF Init, NewView, Views
<1>9. history \in Seq(Places)
  BY EmptySeq DEF Init
<1>10. prepare \in Preparations /\ parser \in Parsers
  BY EmptySeq, VersionFacts DEF Init, NewPrepare, Preparations, NoParser, Parsers
<1>11. LibraryTypes
  BY <1>1, <1>4, <1>8, <1>9, <1>10, NoQueueTyped, NoRestoreTyped DEF Init, LibraryTypes
<1> QED
  BY <1>6, <1>7, <1>11

LEMMA InitSound ==
  ASSUME Init
  PROVE  LibraryInv
<1>1. LibraryTypes /\ Listed(scanner) = {} /\ ScanSound
  BY InitTypes
<1>2. /\ Len(history) = 0 /\ Len(queue.books) = 0 /\ Len(prepare.records) = 0
      /\ Len(view.previews) = 0
  BY EmptySeq DEF Init, NoQueue, NewPrepare, NewView
<1>3. PlacesKept
  <2>1. restore.path = -1 /\ view.path \in Nat
    BY CardFacts DEF Init, NoRestore, NewView
  <2> QED
    BY <1>2, <2>1 DEF PlacesKept
<1>4. CacheSound
  BY DEF Init, CacheSound
<1>5. ListsSound
  BY <1>1, <1>2 DEF Init, ListsSound
<1>6. ParserSound
  BY DEF Init, ParserSound, NoParser, NoQueue, NewPrepare
<1>7. PreviewsSound
  BY <1>2 DEF PreviewsSound
<1>8. PreparationSound
  BY DEF Init, PreparationSound
<1> QED
  BY <1>1, <1>3, <1>4, <1>5, <1>6, <1>7, <1>8 DEF LibraryInv

(***************************************************************************)
(* The inductive invariant of the library: what it lists, shows, caches    *)
(* and has still to look at, and the places it goes back to, are those of  *)
(* the card and of the user, however the portal's changes, refusals of the *)
(* bus and failures fall between the ticks.                                *)
(***************************************************************************)
THEOREM LibraryInvariant == Spec => []LibraryInv
<1>1. Init => LibraryInv
  BY InitSound
<1>2. LibraryInv /\ [Next]_vars => LibraryInv'
  BY StepKeeps, StepPlaces DEF Keeps, LibraryInv
<1> QED
  BY <1>1, <1>2, PTL DEF Spec

(***************************************************************************)
(* A cover shown in the library (LibraryThumbnailCache::load(), the        *)
(* previews of FileBrowserView) is that of the version of the book now on  *)
(* the card, unless the portal's changes are still to be taken in, or the  *)
(* book was lost in an upload of which the library is not told.            *)
(***************************************************************************)
THEOREM CoverIsTheBooks == Spec => []PreviewIsOwn
<1>1. LibraryInv => PreviewIsOwn
  <2> SUFFICES ASSUME LibraryInv, ~changed, NEW i \in DOMAIN view.previews
               PROVE  card[view.previews[i].path] \in {view.previews[i].version, Lost}
    BY DEF PreviewIsOwn
  <2>1. i \in 1 .. Len(view.previews)
    BY LenProperties DEF LibraryInv, LibraryTypes, Views
  <2> QED
    BY <2>1 DEF LibraryInv, PreviewsSound, Current
<1> QED
  BY <1>1, LibraryInvariant, PTL

(***************************************************************************)
(* A folder's list (DirectoryScanner::processNextBatch()) that does not    *)
(* say it was truncated has every folder and book of it, and nothing else  *)
(* but a book that was lost in an upload.                                  *)
(***************************************************************************)
THEOREM ListHasEverything == Spec => []ListIsComplete
<1>1. LibraryInv => ListIsComplete
  <2> SUFFICES ASSUME LibraryInv, ~changed, ~scanner.running, ~scanner.failed, ~scanner.truncated
               PROVE  InSight(Listed(scanner)) = Wanted(scanner.path)
    BY DEF ListIsComplete, Wanted, InSight
  <2>1. ToRead(scanner) = {}
    BY DEF LibraryInv, ScanSound, ToRead
  <2> QED
    BY <2>1 DEF LibraryInv, ScanSound
<1> QED
  BY <1>1, LibraryInvariant, PTL

(***************************************************************************)
(* The preparation of the card (serviceCardPrefetch()) that ends without a *)
(* warning looked at every book that was on the card when it began and is  *)
(* there unchanged, in whatever folder, batch and record it was found,     *)
(* unless its path is too long for a record.                               *)
(***************************************************************************)
THEOREM NothingPassedOver == Spec => []DoneMeansTried
<1>1. LibraryInv => DoneMeansTried
  BY DEF LibraryInv, PreparationSound, DoneMeansTried, Unchanged
<1> QED
  BY <1>1, LibraryInvariant, PTL

(* A folder that does not open when the portal's changes are taken in *)
LEMMA EmptyList ==
  ASSUME LibraryTypes, StopPortal, ~scanner'.running, scanner.running
  PROVE  /\ view'.page = 0 /\ PageCount(view', scanner'.entries) = 1
<1>1. view \in Views /\ view.path \in Folders /\ scanner \in Scanners /\ changed \in BOOLEAN
  BY DEF LibraryTypes, Views
<1>2. StartDirectory([view EXCEPT !.previews = <<>>], view.path, TRUE)
  BY <1>1 DEF StopPortal
<1> DEFINE v == [view EXCEPT !.previews = <<>>]
<1>3. v \in Views /\ v.path = view.path /\ v.page \in Nat
  BY <1>1, EmptySeq DEF Views
<1>4. scanner' \in StartScan(scanner, card, view.path, TRUE)
  BY <1>2 DEF StartDirectory
<1>5. scanner'.entries = <<>>
  BY <1>1, <1>4, StartScanTyped
<1>6. view' = SetPage(v, <<>>, v.page)
  <2>1. view' = SetModel(v, view.path, <<>>)
    BY <1>2, <1>5 DEF StartDirectory
  <2> HIDE DEF v
  <2>2. [v EXCEPT !.path = view.path] = v
    BY <1>3 DEF Views
  <2> QED
    BY <1>3, <2>1, <2>2 DEF SetModel
<1> HIDE DEF v
<1>7. <<>> \in Seq(Listings) /\ Len(<<>>) = 0
  BY EmptySeq
<1>8. Shows(view', v)
  BY <1>3, <1>6, <1>7, SetPageShows
<1>9. PageCount(view', <<>>) = 1
  <2>1. ItemCount(view', <<>>) \in {0, 1}
    BY <1>7 DEF ItemCount, ParentItems
  <2>2. PageSize \in Nat \ {0}
    BY CardFacts
  <2>3. (1 + PageSize - 1) \div PageSize = 1
    BY <2>2
  <2> QED
    BY <2>1, <2>3 DEF PageCount
<1>10. view'.page = Smaller(v.page, PageCount(view', <<>>) - 1)
  BY <1>3, <1>6, <1>8, SetPageExact DEF Shows
<1> QED
  BY <1>3, <1>5, <1>9, <1>10 DEF Smaller

(***************************************************************************)
(* Returning from a subfolder (browserRestorePath_ and Page_, serviced     *)
(* when the scan ends) shows the page on which the folder was last left,   *)
(* or the last there is; also when the scan was refused in between or the  *)
(* portal changed the card.                                                *)
(***************************************************************************)
THEOREM ReturnsToPage == Spec => RestoresPage
<1> DEFINE A == scanner.running /\ ~scanner'.running /\ restore.path = view.path =>
                  view'.page = Smaller(left[view.path], PageCount(view', scanner'.entries) - 1)
<1>1. LibraryInv /\ [Next]_vars => [A]_vars
  <2> SUFFICES ASSUME LibraryInv, [Next]_vars, scanner.running, ~scanner'.running,
                      restore.path = view.path
               PROVE  view'.page = Smaller(left[view.path], PageCount(view', scanner'.entries) - 1)
    OBVIOUS
  <2>1. LibraryTypes /\ PlacesKept /\ Apart(scanner)
    BY DEF LibraryInv, ScanSound
  <2>2. restore.page = left[view.path] /\ left[view.path] \in Nat
    BY <2>1 DEF PlacesKept, LibraryTypes, Views
  <2>3. CASE Scan
    BY <2>1, <2>2, <2>3, ScanReturns DEF Returned
  <2>4. CASE StopPortal
    BY <2>1, <2>2, <2>4, EmptyList DEF Smaller
  <2>5. CASE ~Scan /\ ~StopPortal
    <3>1. scanner' = scanner
      BY <2>5 DEF Next, Portal, User, Tick, ServiceCardPrefetch, StartPortal, BeginUpload, EndUpload,
                  DeleteBook, TurnPage, OpenFolder, OpenParent, OpenBook, CloseBook, DismissError,
                  OpenMenu, CloseMenu, BeginCardPrefetch, FinishCardPrefetch, ServiceLibraryPreviews,
                  ScanCard, IndexCard, Render, PanelIdles, Browsing, vars, browserVars
    <3> QED
      BY <3>1
  <2> QED
    BY <2>3, <2>4, <2>5
<1> QED
  BY <1>1, LibraryInvariant, PTL DEF Spec, RestoresPage
-----------------------------------------------------------------------------
(***************************************************************************)
(* The previews on the page, which is never given up for one to come       *)
(***************************************************************************)
OnPage(v, entries, book) == \E b \in ToSet(VisibleBooks(v, entries)) : b.path = book

(* What is newer than a preview on the page, and what is to come, leaves   *)
(* room for it.                                                            *)
Room(v, entries, coming) ==
  \A i \in 1 .. Len(v.previews) :
    OnPage(v, entries, v.previews[i].path) => Len(v.previews) - i + coming < MaxPreviews

Waiting == Len(queue.books) - queue.index

(* Between a page being listed and being drawn no cover is collected, and  *)
(* the previews may be in any order: then they were all given up before.   *)
RoomInv ==
  /\ queue.visible <= PageSize /\ Len(queue.books) <= queue.visible + PageSize
  /\ app = "Book" => view.previews = <<>>
  /\ ~scanner.running /\ Waiting > 0 =>
       IF dirty THEN view.previews = <<>> ELSE Room(view, scanner.entries, Waiting)

LEMMA Positions ==
  ASSUME NEW n \in Nat
  PROVE  IsFiniteSet(1 .. n) /\ Cardinality(1 .. n) = n
BY FS_Interval

(* Pick() keeps the order: these are the positions it takes. *)
Picked(s, I, r) ==
  /\ r \in [1 .. Cardinality(I) -> I]
  /\ \A k \in 1 .. Cardinality(I) : Pick(s, I)[k] = s[r[k]]
  /\ \A k \in 1 .. Cardinality(I), l \in 1 .. Cardinality(I) : k < l => r[k] < r[l]

LEMMA PickOrder ==
  ASSUME NEW E, NEW s \in Seq(E), NEW I \in SUBSET (DOMAIN s)
  PROVE  \E r : Picked(s, I, r)
<1> DEFINE R == {ij \in I \X I : ij[1] < ij[2]}
           r == Ranked(I, R)
           n == Cardinality(I)
<1>1. DOMAIN s = 1 .. Len(s) /\ Len(s) \in Nat /\ I \subseteq Nat
  BY LenProperties
<1>2. IsFiniteSet(I)
  <2>1. IsFiniteSet(1 .. Len(s))
    BY <1>1, FS_Interval
  <2> QED
    BY <1>1, <2>1, FS_Subset
<1>3. \A x \in I, y \in I : <<x, y>> \in R <=> x < y
  OBVIOUS
<1>4. Pick(s, I) = [k \in DOMAIN r |-> s[r[k]]]
  BY DEF Pick
<1> HIDE DEF R
<1>5. StrictOrder(I, R)
  BY <1>1, <1>3 DEF StrictOrder
<1>6. /\ n \in Nat /\ r \in [1 .. n -> I]
      /\ \A k \in 1 .. n, l \in 1 .. n : k < l => <<r[k], r[l]>> \in R
  BY <1>2, <1>5, RankedLists
<1> HIDE DEF r, n
<1>7. \A k \in 1 .. n, l \in 1 .. n : k < l => r[k] < r[l]
  BY <1>3, <1>6
<1> QED
  BY <1>4, <1>6, <1>7 DEF n, Picked

(* Of numbers that grow, those to come are not more than there is room for. *)
LEMMA Growing ==
  ASSUME NEW m \in Nat, NEW n \in Nat, NEW r \in [1 .. m -> 1 .. n],
         \A k \in 1 .. m, l \in 1 .. m : k < l => r[k] < r[l],
         NEW j \in 1 .. m
  PROVE  m - j <= n - r[j]
<1> DEFINE f == [k \in j + 1 .. m |-> r[k]]
           S == j + 1 .. m
           T == r[j] + 1 .. n
<1>1. r[j] \in 1 .. n
  OBVIOUS
<1>2. f \in [S -> T]
  <2>1. ASSUME NEW k \in S
        PROVE  r[k] \in T
    <3>1. k \in 1 .. m /\ j < k
      OBVIOUS
    <3>2. r[k] \in 1 .. n /\ r[j] < r[k]
      BY <3>1
    <3> QED
      BY <1>1, <3>2
  <2> QED
    BY <2>1
<1>3. \A k \in S, l \in S : f[k] = f[l] => k = l
  <2> SUFFICES ASSUME NEW k \in S, NEW l \in S, r[k] = r[l] PROVE k = l
    OBVIOUS
  <2>1. k \in 1 .. m /\ l \in 1 .. m /\ r[k] \in Int /\ r[l] \in Int
    OBVIOUS
  <2> QED
    BY <2>1
<1>4. f \in Injection(S, T)
  BY <1>2, <1>3 DEF Injection, IsInjective
<1> DEFINE a == j + 1
           b == r[j] + 1
<1>5. a \in Int /\ b \in Int /\ S = a .. m /\ T = b .. n
  BY <1>1
<1> HIDE DEF a, b
<1>6. /\ IsFiniteSet(S) /\ Cardinality(S) = IF a > m THEN 0 ELSE m - a + 1
      /\ IsFiniteSet(T) /\ Cardinality(T) = IF b > n THEN 0 ELSE n - b + 1
  <2> HIDE DEF S, T
  <2> QED
    BY <1>5, FS_Interval
<1> HIDE DEF f, S, T
<1>7. Cardinality(S) <= Cardinality(T)
  BY <1>4, <1>6, FS_Injection
<1> QED
  BY <1>1, <1>6, <1>7 DEF a, b

(* visibleBooks() *)
LEMMA PageHolds ==
  ASSUME NEW v \in Views, NEW entries \in Seq(Listings), NEW page \in Int
  PROVE  Len(BooksOn(v, entries, page)) <= PageSize
<1> DEFINE m == page * PageSize + 1 - ParentItems(v)
           first == IF m < 1 THEN 1 ELSE m
           last == Smaller(m + PageSize - 1, Len(entries))
           shown == EntriesOn(v, entries, page)
           I == {i \in DOMAIN shown : shown[i].path \in Books}
<1>1. m \in Int /\ PageSize \in Nat /\ Len(entries) \in Nat
  BY CardFacts, LenProperties DEF ParentItems
<1>2. shown = SubSeq(entries, first, last)
  BY DEF EntriesOn
<1> HIDE DEF m
<1>3. /\ first \in Int /\ first >= 1 /\ last \in Int /\ last <= Len(entries)
      /\ last - first + 1 <= PageSize
  BY <1>1 DEF Smaller
<1> HIDE DEF first, last
<1>4. shown \in Seq(Listings) /\ Len(shown) = IF first <= last THEN last - first + 1 ELSE 0
  <2>1. \A i \in first .. last : entries[i] \in Listings
    BY <1>1, <1>3, ElementOfSeq
  <2> QED
    BY <1>1, <1>2, <1>3, <2>1, SubSeqProperties
<1>5. BooksOn(v, entries, page) = Pick(shown, I)
  BY DEF BooksOn
<1>6. I \in SUBSET (DOMAIN shown)
  OBVIOUS
<1> HIDE DEF shown, I
<1>7. Len(Pick(shown, I)) = Cardinality(I)
  BY <1>4, <1>6, PickLists
<1>8. DOMAIN shown = 1 .. Len(shown) /\ Len(shown) \in Nat
  BY <1>4, LenProperties
<1>9. Cardinality(I) <= Len(shown)
  <2>1. IsFiniteSet(1 .. Len(shown)) /\ Cardinality(1 .. Len(shown)) = Len(shown)
    BY <1>8, Positions
  <2> QED
    BY <1>6, <1>8, <2>1, FS_Subset
<1>10. Cardinality(I) \in Nat
  BY <1>4, <1>6, PickLists
<1> QED
  BY <1>1, <1>3, <1>4, <1>5, <1>7, <1>8, <1>9, <1>10
(* How many of the page's books have a preview *)
Drawing(v, entries) ==
  Cardinality({i \in DOMAIN VisibleBooks(v, entries) :
                 HasPreview(v, VisibleBooks(v, entries)[i].path)})

(* render() puts the page's previews last and loses none. *)
LEMMA RenderedRoom ==
  ASSUME NEW v \in Views, NEW entries \in Seq(Listings)
  PROVE  LET w == Rendered(v, entries)
         IN /\ \A book : HasPreview(v, book) => HasPreview(w, book)
            /\ \A i \in 1 .. Len(w.previews) :
                 OnPage(w, entries, w.previews[i].path) =>
                   Len(w.previews) - i < Drawing(v, entries)
            /\ v.previews = <<>> => w.previews = <<>>
<1> DEFINE w == Rendered(v, entries)
           drawn == VisibleBooks(v, entries)
           I == {i \in DOMAIN drawn : HasPreview(v, drawn[i].path)}
           used == Pick(drawn, I)
           unused == {i \in DOMAIN v.previews :
                        \A j \in DOMAIN drawn : drawn[j].path # v.previews[i].path}
           Of(book) == CHOOSE p \in ToSet(v.previews) : p.path = book
           kept == Pick(v.previews, unused)
           last == [i \in DOMAIN used |-> Of(used[i].path)]
<1>1. v.previews \in Seq(Covers) /\ v.page \in Int
  BY DEF Views
<1>2. drawn \in Seq(Records)
  BY <1>1, BooksOnList DEF VisibleBooks
<1>3. VisibleBooks(w, entries) = drawn
  <2>1. w \in Views /\ w.path = v.path /\ w.page = v.page
    BY RenderedShows DEF Shows
  <2> HIDE DEF w
  <2> QED
    BY <2>1 DEF VisibleBooks, BooksOn, EntriesOn, ParentItems
<1>4. w = [v EXCEPT !.previews = kept \o last]
  BY DEF Rendered
<1> HIDE DEF w
<1>5. w.previews = kept \o last
  BY <1>4 DEF Views
<1>6. I \in SUBSET (DOMAIN drawn) /\ unused \in SUBSET (DOMAIN v.previews)
  OBVIOUS
<1>7. \A b \in ToSet(drawn) : \E j \in DOMAIN drawn : drawn[j] = b
  BY <1>2, LenProperties DEF ToSet
<1>8. \A j \in DOMAIN drawn : HasPreview(v, drawn[j].path) => j \in I
  OBVIOUS
<1>9. \A i \in I : HasPreview(v, drawn[i].path)
  OBVIOUS
<1>10. \A i \in unused, j \in DOMAIN drawn : drawn[j].path # v.previews[i].path
  OBVIOUS
<1>11. \A i \in DOMAIN v.previews : i \in unused \/ \E j \in DOMAIN drawn : drawn[j].path = v.previews[i].path
  OBVIOUS
<1> HIDE DEF I, unused, drawn
<1>12. /\ used \in Seq(Records) /\ Len(used) = Cardinality(I) /\ Cardinality(I) \in Nat
       /\ \A k \in DOMAIN used : \E i \in I : used[k] = drawn[i]
       /\ \A i \in I : \E k \in DOMAIN used : used[k] = drawn[i]
  BY <1>2, <1>6, PickLists
<1>13. /\ kept \in Seq(Covers)
       /\ \A k \in DOMAIN kept : \E i \in unused : kept[k] = v.previews[i]
       /\ \A i \in unused : \E k \in DOMAIN kept : kept[k] = v.previews[i]
  BY <1>1, <1>6, PickLists
<1> HIDE DEF used, kept
<1>14. ASSUME NEW book, HasPreview(v, book)
       PROVE  Of(book).path = book /\ Of(book) \in Covers
  <2>1. PICK i \in DOMAIN v.previews : v.previews[i].path = book
    BY <1>14 DEF HasPreview
  <2>2. v.previews[i] \in ToSet(v.previews)
    BY DEF ToSet
  <2>3. Of(book) \in ToSet(v.previews) /\ Of(book).path = book
    BY <2>1, <2>2
  <2> HIDE DEF Of
  <2>4. PICK j \in DOMAIN v.previews : Of(book) = v.previews[j]
    BY <2>3 DEF ToSet
  <2> QED
    BY <1>1, <2>3, <2>4, LenProperties, ElementOfSeq
<1> HIDE DEF Of
<1>15. \A k \in DOMAIN used : HasPreview(v, used[k].path)
  BY <1>9, <1>12
<1>16. DOMAIN used = 1 .. Len(used) /\ Len(used) \in Nat
  BY <1>12, LenProperties
<1>17. last \in [1 .. Len(used) -> Covers] /\ \A k \in 1 .. Len(used) : last[k].path = used[k].path
  BY <1>14, <1>15, <1>16
<1> HIDE DEF last
<1>18. last \in Seq(Covers) /\ Len(last) = Len(used)
  BY <1>16, <1>17, SeqDef, LenProperties
<1>19. /\ kept \o last \in Seq(Covers) /\ Len(kept \o last) = Len(kept) + Len(last)
       /\ \A i \in 1 .. Len(kept) + Len(last) :
            (kept \o last)[i] = IF i <= Len(kept) THEN kept[i] ELSE last[i - Len(kept)]
       /\ Len(kept) \in Nat /\ DOMAIN kept = 1 .. Len(kept)
       /\ DOMAIN (kept \o last) = 1 .. Len(kept \o last)
  BY <1>13, <1>18, ConcatProperties, LenProperties
<1>20. ASSUME NEW book, HasPreview(v, book)
       PROVE  HasPreview(w, book)
  <2>1. PICK i \in DOMAIN v.previews : v.previews[i].path = book
    BY <1>20 DEF HasPreview
  <2>2. CASE i \in unused
    <3>1. PICK k \in 1 .. Len(kept) : kept[k] = v.previews[i]
      BY <1>13, <1>19, <2>2
    <3>2. k \in DOMAIN w.previews /\ w.previews[k] = kept[k]
      BY <1>5, <1>16, <1>18, <1>19
    <3> QED
      BY <2>1, <3>1, <3>2 DEF HasPreview
  <2>3. CASE i \notin unused
    <3>1. PICK j \in I : drawn[j].path = book
      BY <1>8, <1>11, <1>20, <2>1, <2>3
    <3>2. PICK k \in 1 .. Len(used) : used[k] = drawn[j]
      BY <1>12, <1>16
    <3>3. k + Len(kept) \in DOMAIN w.previews /\ w.previews[k + Len(kept)] = last[k]
      BY <1>5, <1>16, <1>18, <1>19
    <3> QED
      BY <1>17, <3>1, <3>2, <3>3 DEF HasPreview
  <2> QED
    BY <2>2, <2>3
<1>21. ASSUME NEW i \in 1 .. Len(w.previews), OnPage(w, entries, w.previews[i].path)
       PROVE  Len(w.previews) - i < Cardinality(I)
  <2>1. PICK j \in DOMAIN drawn : drawn[j].path = w.previews[i].path
    BY <1>3, <1>7, <1>21 DEF OnPage
  <2>2. ASSUME i <= Len(kept) PROVE FALSE
    <3>1. i \in DOMAIN kept /\ w.previews[i] = kept[i]
      BY <1>5, <1>16, <1>18, <1>19, <2>2
    <3> QED
      BY <1>10, <1>13, <2>1, <3>1
  <2> QED
    BY <1>5, <1>12, <1>16, <1>18, <1>19, <2>2
<1>22. ASSUME v.previews = <<>>
       PROVE  w.previews = <<>>
  <2>1. DOMAIN v.previews = {}
    BY <1>22, <1>1, EmptySeq, LenProperties
  <2>2. Len(kept) = 0
    BY <1>13, <1>19, <2>1, <1>6
  <2>3. Len(used) = 0
    BY <1>15, <1>16, <2>1 DEF HasPreview
  <2>4. Len(kept \o last) = 0
    BY <1>18, <1>19, <2>2, <2>3
  <2> QED
    BY <1>5, <1>19, <2>4, EmptySeq
<1>23. Drawing(v, entries) = Cardinality(I)
  BY DEF Drawing, I, drawn
<1> HIDE DEF w
<1>24. Rendered(v, entries) = w
  BY DEF w
<1> QED
  BY <1>20, <1>21, <1>22, <1>23, <1>24
(* The page's books are drawn with a preview, or queued. *)
LEMMA ScheduledRoom ==
  ASSUME NEW v \in Views, NEW entries \in Seq(Listings)
  PROVE  LET q == Scheduled(v, entries)
         IN /\ q.index = 0 /\ q.visible \in Nat /\ Drawing(v, entries) \in Nat
            /\ q.visible + Drawing(v, entries) <= PageSize
            /\ Len(q.books) <= q.visible + PageSize
<1> DEFINE here == VisibleBooks(v, entries)
           next == BooksOn(v, entries, v.page + 1)
           H == {i \in DOMAIN here : HasPreview(v, here[i].path)}
           L == {i \in DOMAIN here : ~HasPreview(v, here[i].path)}
           N == {i \in DOMAIN next : ~HasPreview(v, next[i].path)}
           q == Scheduled(v, entries)
<1>1. v.page \in Int /\ v.page + 1 \in Int
  BY DEF Views
<1>2. here \in Seq(Records) /\ Len(here) <= PageSize
  BY <1>1, BooksOnList, PageHolds DEF VisibleBooks
<1>3. next \in Seq(Records) /\ Len(next) <= PageSize
  BY <1>1, BooksOnList, PageHolds
<1>4. q = [books |-> Pick(here, L) \o Pick(next, N), index |-> 0, active |-> FALSE,
           visible |-> Len(Pick(here, L))]
  BY DEF Scheduled
<1>5. H \cup L = DOMAIN here /\ H \cap L = {} /\ L \in SUBSET (DOMAIN here) /\ N \in SUBSET (DOMAIN next)
  OBVIOUS
<1>6. Drawing(v, entries) = Cardinality(H)
  BY DEF Drawing
<1> HIDE DEF here, next, H, L, N, q
<1>7. DOMAIN here = 1 .. Len(here) /\ Len(here) \in Nat /\ DOMAIN next = 1 .. Len(next) /\ Len(next) \in Nat
  BY <1>2, <1>3, LenProperties
<1>8. /\ IsFiniteSet(DOMAIN here) /\ Cardinality(DOMAIN here) = Len(here)
      /\ IsFiniteSet(DOMAIN next) /\ Cardinality(DOMAIN next) = Len(next)
  BY <1>7, Positions
<1>9. /\ Pick(here, L) \in Seq(Records) /\ Len(Pick(here, L)) = Cardinality(L)
      /\ Pick(next, N) \in Seq(Records) /\ Len(Pick(next, N)) = Cardinality(N)
  BY <1>2, <1>3, <1>5, PickLists
<1>10. IsFiniteSet(H) /\ IsFiniteSet(L) /\ IsFiniteSet(N) /\ Cardinality(N) <= Len(next)
  <2>1. H \in SUBSET (DOMAIN here)
    BY <1>5
  <2> QED
    BY <1>5, <1>8, <2>1, FS_Subset
<1>11. Cardinality(H) + Cardinality(L) = Len(here)
  <2>1. Cardinality(H \cup L) = Cardinality(H) + Cardinality(L) - Cardinality(H \cap L)
    BY <1>10, FS_Union
  <2>2. Cardinality(H \cap L) = 0
    BY <1>5, FS_EmptySet
  <2>3. Cardinality(H) \in Nat /\ Cardinality(L) \in Nat
    BY <1>10, FS_CardinalityType
  <2> QED
    BY <1>5, <1>8, <2>1, <2>2, <2>3
<1>12. Cardinality(H) \in Nat /\ Cardinality(L) \in Nat /\ Cardinality(N) \in Nat
  BY <1>10, FS_CardinalityType
<1>13. Len(Pick(here, L) \o Pick(next, N)) = Cardinality(L) + Cardinality(N)
  BY <1>9, ConcatProperties
<1>14. /\ q.index = 0 /\ q.visible = Cardinality(L) /\ Len(q.books) = Cardinality(L) + Cardinality(N)
  BY <1>4, <1>9, <1>13
<1>15. PageSize \in Nat
  BY CardFacts
<1>16. /\ q.visible + Cardinality(H) <= PageSize /\ Len(q.books) <= q.visible + PageSize
  BY <1>2, <1>3, <1>7, <1>10, <1>11, <1>12, <1>14, <1>15
<1> QED
  BY <1>6, <1>12, <1>14, <1>16 DEF q

(* Nothing that is shown is lost. *)
Kept(v, w) == \A book : HasPreview(v, book) => HasPreview(w, book)

LEMMA SchedulingRoom ==
  ASSUME NEW v \in Views, NEW entries \in Seq(Listings), ~busy, 2 * PageSize <= MaxPreviews,
         SchedulePreviews(v, entries)
  PROVE  /\ Kept(v, view') /\ dirty' = FALSE
         /\ queue'.visible <= PageSize /\ Len(queue'.books) <= queue'.visible + PageSize
         /\ Room(view', entries, Len(queue'.books) - queue'.index)
         /\ v.previews = <<>> => view'.previews = <<>>
<1> DEFINE w == [v EXCEPT !.loading = queue'.visible # 0]
<1>1. w \in Views /\ w.path = v.path /\ w.previews = v.previews /\ w.page = v.page
  BY DEF Views
<1>2. view' = Rendered(w, entries) /\ dirty' = FALSE /\ queue' = Scheduled(v, entries)
  BY DEF SchedulePreviews, Drawn
<1> HIDE DEF w
<1>3. \A book : HasPreview(w, book) <=> HasPreview(v, book)
  BY <1>1 DEF HasPreview
<1>4. VisibleBooks(w, entries) = VisibleBooks(v, entries)
  BY <1>1 DEF VisibleBooks, BooksOn, EntriesOn, ParentItems
<1>5. Drawing(w, entries) = Drawing(v, entries)
  BY <1>3, <1>4 DEF Drawing
<1>6. /\ queue'.index = 0 /\ queue'.visible \in Nat /\ Drawing(v, entries) \in Nat
      /\ queue'.visible + Drawing(v, entries) <= PageSize
      /\ Len(queue'.books) <= queue'.visible + PageSize
  BY <1>2, ScheduledRoom
<1>7. /\ Kept(w, view') /\ (w.previews = <<>> => view'.previews = <<>>)
      /\ \A i \in 1 .. Len(view'.previews) :
           OnPage(view', entries, view'.previews[i].path) =>
             Len(view'.previews) - i < Drawing(w, entries)
  BY <1>1, <1>2, RenderedRoom DEF Kept
<1>8. queue'.books \in Seq(Records) /\ Len(queue'.books) \in Nat
  BY <1>2, ScheduledOnList, LenProperties DEF Queues
<1>9. view'.previews \in Seq(Covers) /\ Len(view'.previews) \in Nat
  BY <1>1, <1>2, RenderedShows, LenProperties DEF Shows, Views
<1>10. PageSize \in Nat /\ MaxPreviews \in Nat
  BY CardFacts
<1>11. Room(view', entries, Len(queue'.books) - queue'.index)
  <2> SUFFICES ASSUME NEW i \in 1 .. Len(view'.previews),
                      OnPage(view', entries, view'.previews[i].path)
               PROVE  Len(view'.previews) - i + (Len(queue'.books) - queue'.index) < MaxPreviews
    BY DEF Room
  <2>1. Len(view'.previews) - i < Drawing(v, entries)
    BY <1>5, <1>7
  <2> DEFINE a == Len(view'.previews)
             b == Len(queue'.books)
             c == queue'.visible
             e == Drawing(v, entries)
  <2>2. a \in Nat /\ b \in Nat /\ c \in Nat /\ e \in Nat /\ i \in Int
    BY <1>6, <1>8, <1>9
  <2>3. a - i < e /\ c + e <= PageSize /\ b <= c + PageSize /\ queue'.index = 0
    BY <1>6, <2>1
  <2> HIDE DEF a, b, c, e
  <2>4. a - i + (b - queue'.index) < MaxPreviews
    BY <1>10, <2>2, <2>3
  <2> QED
    BY <2>4 DEF a, b
<1> QED
  BY <1>1, <1>2, <1>3, <1>6, <1>7, <1>10, <1>11 DEF Kept

(* setPreview() where there is room *)
LEMMA SetPreviewRoom ==
  ASSUME NEW v \in Views, NEW entries \in Seq(Listings), NEW book \in Books, NEW version \in Int,
         NEW coming \in Nat, coming < MaxPreviews, Room(v, entries, coming + 1)
  PROVE  LET w == SetPreview(v, book, version)
         IN /\ Room(w, entries, coming)
            /\ \A b : HasPreview(v, b) /\ OnPage(v, entries, b) => HasPreview(w, b)
<1> DEFINE others == {i \in DOMAIN v.previews : v.previews[i].path # book}
           kept == Pick(v.previews, others)
           cover == [path |-> book, version |-> version]
           all == Append(kept, cover)
           new == IF Len(all) > MaxPreviews THEN Tail(all) ELSE all
           w == SetPreview(v, book, version)
           m == Cardinality(others)
           n == Len(v.previews)
<1>1. w = [v EXCEPT !.previews = new]
  BY DEF SetPreview
<1>2. v.previews \in Seq(Covers) /\ cover \in Covers /\ cover.path = book
  BY DEF Views, Covers
<1>3. DOMAIN v.previews = 1 .. n /\ n \in Nat
  BY <1>2, LenProperties
<1>4. /\ others \in SUBSET (DOMAIN v.previews) /\ \A i \in others : v.previews[i].path # book
      /\ \A i \in DOMAIN v.previews : i \in others \/ v.previews[i].path = book
  OBVIOUS
<1> HIDE DEF others, cover
<1>5. /\ kept \in Seq(Covers) /\ Len(kept) = m /\ m \in Nat
      /\ \A i \in others : \E k \in DOMAIN kept : kept[k] = v.previews[i]
  BY <1>2, <1>4, PickLists
<1>6. PICK r : Picked(v.previews, others, r)
  BY <1>2, <1>4, PickOrder
<1>7. /\ r \in [1 .. m -> 1 .. n] /\ \A k \in 1 .. m : kept[k] = v.previews[r[k]]
      /\ \A k \in 1 .. m, l \in 1 .. m : k < l => r[k] < r[l]
  <2>1. /\ r \in [1 .. m -> others] /\ \A k \in 1 .. m : kept[k] = v.previews[r[k]]
        /\ \A k \in 1 .. m, l \in 1 .. m : k < l => r[k] < r[l]
    BY <1>6 DEF Picked
  <2> HIDE DEF kept, m, n
  <2> QED
    BY <1>3, <1>4, <2>1
<1> HIDE DEF kept, m, n
<1>8. \A k \in 1 .. m : m - k <= n - r[k] /\ r[k] \in 1 .. n
  BY <1>3, <1>5, <1>7, Growing
<1>9. DOMAIN kept = 1 .. m
  BY <1>5, LenProperties
<1>10. /\ all \in Seq(Covers) /\ all # <<>> /\ Len(all) = m + 1
       /\ \A k \in 1 .. m : all[k] = kept[k]
       /\ all[m + 1] = cover
  BY <1>2, <1>5, AppendProperties, LenProperties
<1> HIDE DEF all
<1>11. /\ Tail(all) \in Seq(Covers) /\ Len(Tail(all)) = m
       /\ \A k \in 1 .. m : Tail(all)[k] = all[k + 1]
  BY <1>5, <1>10, HeadTailProperties
<1>12. MaxPreviews \in Nat \ {0}
  BY CardFacts
<1>13. PICK d \in {0, 1} :
         /\ new \in Seq(Covers) /\ Len(new) = m + 1 - d /\ (d = 1 => m + 1 > MaxPreviews)
         /\ \A k \in 1 .. m + 1 - d : new[k] = all[k + d]
  <2>1. CASE Len(all) > MaxPreviews
    BY <1>5, <1>10, <1>11, <2>1
  <2>2. CASE ~(Len(all) > MaxPreviews)
    BY <1>5, <1>10, <1>12, <2>2
  <2> QED
    BY <2>1, <2>2
<1> HIDE DEF new, w
<1>14. w.previews = new /\ w.path = v.path /\ w.page = v.page
  BY <1>1 DEF Views
<1>15. VisibleBooks(w, entries) = VisibleBooks(v, entries)
  BY <1>14 DEF VisibleBooks, BooksOn, EntriesOn, ParentItems
<1>16. \A b : OnPage(w, entries, b) <=> OnPage(v, entries, b)
  BY <1>15 DEF OnPage
<1>17. \A k \in 1 .. m : OnPage(v, entries, kept[k].path) => m - k + coming + 1 < MaxPreviews
  <2> SUFFICES ASSUME NEW k \in 1 .. m, OnPage(v, entries, kept[k].path)
               PROVE  m - k + coming + 1 < MaxPreviews
    OBVIOUS
  <2>1. r[k] \in 1 .. n /\ OnPage(v, entries, v.previews[r[k]].path) /\ m - k <= n - r[k]
    BY <1>7, <1>8
  <2>2. n - r[k] + (coming + 1) < MaxPreviews
    BY <2>1 DEF Room, n
  <2> QED
    BY <1>3, <1>5, <1>12, <2>1, <2>2
<1>18. Room(w, entries, coming)
  <2> SUFFICES ASSUME NEW i \in 1 .. Len(new), OnPage(v, entries, new[i].path)
               PROVE  Len(new) - i + coming < MaxPreviews
    BY <1>14, <1>16 DEF Room
  <2>1. i \in 1 .. m + 1 - d /\ new[i] = all[i + d]
    BY <1>13
  <2>2. CASE i + d = m + 1
    BY <1>5, <1>12, <1>13, <2>1, <2>2
  <2>3. CASE i + d \in 1 .. m
    <3>1. new[i] = kept[i + d]
      BY <1>10, <2>1, <2>3
    <3>2. m - (i + d) + coming + 1 < MaxPreviews
      BY <1>17, <2>3, <3>1
    <3> QED
      BY <1>5, <1>12, <1>13, <2>1, <3>2
  <2> QED
    BY <1>5, <2>1, <2>2, <2>3
<1>19. ASSUME NEW b, HasPreview(v, b), OnPage(v, entries, b)
       PROVE  HasPreview(w, b)
  <2>1. PICK i \in DOMAIN v.previews : v.previews[i].path = b
    BY <1>19 DEF HasPreview
  <2>2. DOMAIN new = 1 .. m + 1 - d
    BY <1>13, LenProperties
  <2>3. CASE i \notin others
    <3>1. b = book
      BY <1>4, <2>1, <2>3
    <3>2. m + 1 - d \in 1 .. m + 1 - d /\ m + 1 - d + d = m + 1
      BY <1>5, <1>12, <1>13
    <3>3. new[m + 1 - d] = cover
      BY <1>10, <1>13, <3>2
    <3> QED
      BY <1>2, <1>14, <2>2, <3>1, <3>2, <3>3 DEF HasPreview
  <2>4. CASE i \in others
    <3>1. PICK k \in 1 .. m : kept[k] = v.previews[i]
      BY <1>5, <1>9, <2>4
    <3>2. m - k + coming + 1 < MaxPreviews
      BY <1>17, <1>19, <2>1, <3>1
    <3>3. k - d \in 1 .. m + 1 - d /\ k - d + d = k
      BY <1>5, <1>12, <1>13, <3>2
    <3>4. new[k - d] = kept[k]
      BY <1>10, <1>13, <3>3
    <3> QED
      BY <1>14, <2>1, <2>2, <3>1, <3>3, <3>4 DEF HasPreview
  <2> QED
    BY <2>3, <2>4
<1> QED
  BY <1>18, <1>19 DEF w
-----------------------------------------------------------------------------
(* setModel() and setPage() leave the previews alone. *)
LEMMA PageKeepsPreviews ==
  ASSUME NEW v \in Views, NEW entries \in Seq(Listings), NEW page \in Nat
  PROVE  SetPage(v, entries, page) \in Views /\ SetPage(v, entries, page).previews = v.previews
BY PageIsInt DEF Views

LEMMA ModelKeepsPreviews ==
  ASSUME NEW v \in Views, NEW entries \in Seq(Listings), NEW folder \in Folders
  PROVE  SetModel(v, folder, entries) \in Views /\ SetModel(v, folder, entries).previews = v.previews
<1> DEFINE w == [v EXCEPT !.path = folder]
           page == IF v.path = folder THEN v.page ELSE 0
<1>1. w \in Views /\ page \in Nat /\ w.previews = v.previews
  BY DEF Views
<1>2. SetModel(v, folder, entries) = SetPage(w, entries, page)
  BY DEF SetModel
<1> HIDE DEF w, page
<1> QED
  BY <1>1, <1>2, PageKeepsPreviews

LEMMA DrawnKeeps ==
  ASSUME NEW v \in Views, NEW entries \in Seq(Listings), NEW due, Drawn(v, entries, due)
  PROVE  Kept(v, view') /\ (v.previews = <<>> => view'.previews = <<>>)
<1>1. Kept(v, v)
  BY DEF Kept
<1>2. Kept(v, Rendered(v, entries)) /\ (v.previews = <<>> => Rendered(v, entries).previews = <<>>)
  BY RenderedRoom DEF Kept
<1> QED
  BY <1>1, <1>2 DEF Drawn

LEMMA KeptSame ==
  ASSUME NEW v, NEW w, v.previews = w.previews
  PROVE  Kept(v, w)
BY DEF Kept, HasPreview

LEMMA KeptTrans ==
  ASSUME NEW u, NEW v, NEW w, Kept(u, v), Kept(v, w)
  PROVE  Kept(u, w)
BY DEF Kept

(* Without previews there is room, and nothing to lose. *)
LEMMA EmptyRoom ==
  ASSUME NEW v, v.previews = <<>>, NEW entries, NEW coming
  PROVE  Room(v, entries, coming)
<1>1. Len(v.previews) = 0
  BY EmptySeq
<1> QED
  BY <1>1 DEF Room

(* What the steps that load no cover have in common *)
RoomKept == RoomInv' /\ (Kept(view, view') \/ view'.previews = <<>>)

LEMMA RoomFacts ==
  ASSUME LibraryTypes
  PROVE  /\ view \in Views /\ view.path \in Folders /\ scanner \in Scanners /\ queue \in Queues
         /\ scanner.entries \in Seq(Listings) /\ Len(queue.books) \in Nat
         /\ queue.index \in Nat /\ queue.visible \in Nat /\ restore.page \in Nat
         /\ PageSize \in Nat \ {0} /\ MaxPreviews \in Nat
BY CardFacts, LenProperties DEF LibraryTypes, Views, Scanners, Queues, Places

LEMMA UnseenRoom ==
  ASSUME RoomInv, UNCHANGED <<app, scanner, view, queue, dirty>>
  PROVE  RoomKept
<1>1. Kept(view, view')
  BY KeptSame
<1>2. Waiting' = Waiting /\ (Room(view, scanner.entries, Waiting) => Room(view, scanner.entries, Waiting)')
  BY DEF Waiting, Room, OnPage, VisibleBooks, BooksOn, EntriesOn, ParentItems
<1> QED
  BY <1>1, <1>2 DEF RoomInv, RoomKept

LEMMA LeftRoom ==
  ASSUME LibraryTypes, RoomInv, queue' = NoQueue, app' # "Book", view' = view
  PROVE  RoomKept
<1>1. Len(NoQueue.books) = 0 /\ NoQueue.index = 0 /\ NoQueue.visible = 0
  BY EmptySeq DEF NoQueue
<1>2. Kept(view, view')
  BY KeptSame
<1> QED
  BY <1>1, <1>2, RoomFacts DEF RoomInv, RoomKept, Waiting

LEMMA DirectoryRoom ==
  ASSUME LibraryTypes, RoomInv, NEW v \in Views, NEW folder \in Folders, NEW busFree \in BOOLEAN,
         StartDirectory(v, folder, busFree), app' # "Book", v.previews \in {view.previews, <<>>}
  PROVE  RoomKept
<1>1. scanner' \in Scanners
  BY RoomFacts, StartDirectoryDoes
<1>2. view'.previews = v.previews
  BY <1>1, ModelKeepsPreviews DEF StartDirectory, Scanners
<1>3. Kept(view, view') \/ view'.previews = <<>>
  BY <1>2, KeptSame
<1>4. queue'.books = <<>> /\ queue'.visible = queue.visible /\ queue'.index = queue.index
  BY RoomFacts DEF StartDirectory, Queues
<1>5. Len(queue'.books) = 0
  BY <1>4, EmptySeq
<1> QED
  BY <1>3, <1>4, <1>5, RoomFacts DEF RoomInv, RoomKept, Waiting

LEMMA ScheduledStepRoom ==
  ASSUME LibraryTypes, RoomInv, NEW v \in Views, v.previews = view.previews,
         scanner'.entries \in Seq(Listings), ~busy, 2 * PageSize <= MaxPreviews,
         SchedulePreviews(v, scanner'.entries), app' = app \/ app' # "Book"
  PROVE  RoomKept
<1>1. /\ Kept(v, view') /\ dirty' = FALSE
      /\ queue'.visible <= PageSize /\ Len(queue'.books) <= queue'.visible + PageSize
      /\ Room(view', scanner'.entries, Len(queue'.books) - queue'.index)
      /\ v.previews = <<>> => view'.previews = <<>>
  BY SchedulingRoom
<1>2. Kept(view, view')
  BY <1>1, KeptSame, KeptTrans
<1>3. Room(view, scanner.entries, Waiting)'
  BY <1>1 DEF Room, OnPage, VisibleBooks, BooksOn, EntriesOn, ParentItems, Waiting
<1> QED
  BY <1>1, <1>2, <1>3 DEF RoomInv, RoomKept
(* The steps in which the browser's list or page may change *)
LEMMA TurnPageRoom ==
  ASSUME LibraryTypes, RoomInv, 2 * PageSize <= MaxPreviews, TurnPage
  PROVE  RoomKept
<1>1. /\ scanner' = scanner /\ app' = app /\ ~scanner.running /\ ~busy
      /\ scanner'.entries \in Seq(Listings)
  BY RoomFacts DEF TurnPage, Browsing, browserVars
<1>2. PICK page \in {view.page - 1, view.page, view.page + 1} \cap
                    0 .. PageCount(view, scanner.entries) - 1 :
        IF page # view.page
          THEN SchedulePreviews([view EXCEPT !.page = page], scanner.entries)
          ELSE dirty' = FALSE /\ UNCHANGED <<view, queue, parser, busy>>
  BY DEF TurnPage
<1>3. CASE page # view.page
  <2>1. page \in Nat
    BY RoomFacts DEF Views
  <2> DEFINE v == [view EXCEPT !.page = page]
  <2>2. v \in Views /\ v.previews = view.previews
    BY <2>1, RoomFacts DEF Views
  <2>3. SchedulePreviews(v, scanner'.entries)
    BY <1>1, <1>2, <1>3
  <2> HIDE DEF v
  <2> QED
    BY <1>1, <2>2, <2>3, ScheduledStepRoom
<1>4. CASE page = view.page
  <2>1. dirty' = FALSE /\ UNCHANGED <<view, queue>>
    BY <1>2, <1>4
  <2>2. Kept(view, view')
    BY <2>1, KeptSame
  <2>3. Waiting' = Waiting /\ (Room(view, scanner.entries, Waiting) => Room(view, scanner.entries, Waiting)')
    BY <1>1, <2>1 DEF Waiting, Room, OnPage, VisibleBooks, BooksOn, EntriesOn, ParentItems
  <2>4. view.previews = <<>> => Room(view, scanner.entries, Waiting)
    BY EmptyRoom
  <2> QED
    BY <1>1, <2>1, <2>2, <2>3, <2>4 DEF RoomInv, RoomKept
<1> QED
  BY <1>3, <1>4

LEMMA BrowserRoom ==
  ASSUME LibraryTypes, RoomInv, 2 * PageSize <= MaxPreviews, CloseBook \/ CloseMenu \/ FinishCardPrefetch
  PROVE  RoomKept
<1>1. /\ scanner' = scanner /\ app' = "FileBrowser" /\ ~busy /\ scanner'.entries \in Seq(Listings)
  BY RoomFacts DEF CloseBook, CloseMenu, FinishCardPrefetch, browserVars
<1>2. PICK v \in {view, SetModel(view, view.path, scanner.entries)} :
        SchedulePreviews(v, scanner'.entries)
  BY <1>1 DEF CloseBook, CloseMenu, FinishCardPrefetch
<1>3. v \in Views /\ v.previews = view.previews
  BY RoomFacts, ModelKeepsPreviews
<1> QED
  BY <1>1, <1>2, <1>3, ScheduledStepRoom

LEMMA OpenRoom ==
  ASSUME LibraryTypes, RoomInv, OpenFolder \/ OpenParent \/ (StopPortal /\ changed)
  PROVE  RoomKept
<1>1. app' # "Book"
  BY DEF OpenFolder, OpenParent, StopPortal, Browsing
<1>2. CASE OpenFolder
  BY <1>1, <1>2, RoomFacts, BusIsFree, DirectoryRoom DEF OpenFolder
<1>3. CASE OpenParent
  <2>1. Parent[view.path] \in Folders
    BY <1>3, RoomFacts, CardFacts DEF OpenParent
  <2> QED
    BY <1>1, <1>3, <2>1, RoomFacts, BusIsFree, DirectoryRoom DEF OpenParent
<1>4. CASE StopPortal /\ changed
  <2> DEFINE v == [view EXCEPT !.previews = <<>>]
  <2>1. v \in Views /\ v.previews = <<>>
    BY RoomFacts, EmptySeq DEF Views
  <2>2. StartDirectory(v, view.path, TRUE)
    BY <1>4 DEF StopPortal
  <2> HIDE DEF v
  <2> QED
    BY <1>1, <2>1, <2>2, RoomFacts, DirectoryRoom
<1> QED
  BY <1>2, <1>3, <1>4

LEMMA OpenBookRoom ==
  ASSUME LibraryTypes, RoomInv, OpenBook
  PROVE  RoomKept
<1>1. view'.previews = <<>>
  BY RoomFacts DEF OpenBook, Views
<1>2. /\ queue'.books = queue.books /\ queue'.index = queue.index /\ queue'.visible = queue.visible
      /\ scanner' = scanner
  BY RoomFacts DEF OpenBook, Queues, browserVars
<1>3. Room(view', scanner'.entries, Waiting')
  BY <1>1, EmptyRoom
<1>4. Room(view, scanner.entries, Waiting)'
  BY <1>3 DEF Room, OnPage, VisibleBooks, BooksOn, EntriesOn, ParentItems
<1> QED
  BY <1>1, <1>2, <1>4 DEF RoomInv, RoomKept

LEMMA RedrawRoom ==
  ASSUME LibraryTypes, RoomInv, DismissError \/ Render
  PROVE  RoomKept
<1>1. UNCHANGED <<scanner, queue>> /\ scanner.entries \in Seq(Listings)
  BY RoomFacts DEF DismissError, Render, browserVars
<1>2. PICK v \in {view, SetModel(view, view.path, scanner.entries)} : Drawn(v, scanner.entries, TRUE)
  BY DEF DismissError, Render
<1>3. v \in Views /\ v.previews = view.previews
  BY RoomFacts, ModelKeepsPreviews
<1>4. Kept(view, view') /\ (view.previews = <<>> => view'.previews = <<>>)
  BY <1>1, <1>2, <1>3, DrawnKeeps, KeptSame, KeptTrans
<1>5. view'.previews = <<>> => Room(view, scanner.entries, Waiting)'
  <2> SUFFICES ASSUME view'.previews = <<>> PROVE Room(view', scanner'.entries, Waiting')
    BY DEF Room, OnPage, VisibleBooks, BooksOn, EntriesOn, ParentItems
  <2> QED
    BY EmptyRoom
<1>6. Waiting' = Waiting
  BY <1>1 DEF Waiting
<1>7. CASE DismissError
  BY <1>1, <1>4, <1>5, <1>6, <1>7 DEF DismissError, RoomInv, RoomKept
<1>8. CASE Render
  BY <1>1, <1>4, <1>5, <1>6, <1>8 DEF Render, RoomInv, RoomKept
<1> QED
  BY <1>7, <1>8

LEMMA ScanRoom ==
  ASSUME LibraryTypes, Apart(scanner), RoomInv, 2 * PageSize <= MaxPreviews, Scan
  PROVE  RoomKept
<1>1. scanner'.entries \in Seq(Listings) /\ app' = app /\ ~busy
  BY NextBatchTyped DEF Scan, Scanners
<1>2. CASE scanner'.running
  <2>1. Drawn(view, scanner'.entries, dirty) /\ queue' = queue
    BY <1>2 DEF Scan
  <2>2. Kept(view, view') /\ (view.previews = <<>> => view'.previews = <<>>)
    BY <1>1, <2>1, RoomFacts, DrawnKeeps
  <2> QED
    BY <1>1, <1>2, <2>1, <2>2 DEF RoomInv, RoomKept
<1>3. CASE ~scanner'.running
  <2> DEFINE shown == SetModel(view, view.path, scanner'.entries)
  <2>1. PICK v \in {shown, SetPage(shown, scanner'.entries, restore.page)} :
          SchedulePreviews(v, scanner'.entries)
    BY <1>3 DEF Scan
  <2>2. shown \in Views /\ shown.previews = view.previews
    BY <1>1, RoomFacts, ModelKeepsPreviews
  <2> HIDE DEF shown
  <2>3. v \in Views /\ v.previews = view.previews
    BY <1>1, <2>2, RoomFacts, PageKeepsPreviews
  <2> QED
    BY <1>1, <2>1, <2>3, ScheduledStepRoom
<1> QED
  BY <1>2, <1>3
(* One more book is done with: the page is drawn anew after its last.      *)
LEMMA CountedRoom ==
  ASSUME LibraryTypes, RoomInv, Collecting, 2 * PageSize <= MaxPreviews,
         NEW v \in Views, v.path = view.path, v.page = view.page,
         NEW p, Counted(v, p), UNCHANGED <<app, scanner>>,
         Room(v, scanner.entries, Waiting - 1)
  PROVE  RoomInv' /\ Kept(v, view')
<1> DEFINE complete == queue.index + 1 = queue.visible
           w == [v EXCEPT !.loading = @ /\ ~complete]
<1>1. /\ queue'.books = queue.books /\ queue'.visible = queue.visible
      /\ queue'.index = queue.index + 1
  BY RoomFacts DEF Counted, Queues
<1>2. Waiting' = Waiting - 1 /\ Waiting \in Int /\ Waiting > 0
  BY <1>1, RoomFacts DEF Waiting, Collecting
<1>3. Drawn(w, scanner.entries, complete) /\ ~busy /\ ~dirty /\ ~scanner.running
      /\ app = "FileBrowser"
  BY DEF Counted, Collecting
<1>4. w \in Views /\ w.path = v.path /\ w.page = v.page /\ w.previews = v.previews
  BY DEF Views
<1> HIDE DEF w
<1>5. Kept(v, view')
  BY <1>3, <1>4, RoomFacts, DrawnKeeps, KeptSame, KeptTrans
<1>6. dirty' = FALSE
  BY <1>3 DEF Drawn
<1>7. Room(view', scanner.entries, Waiting - 1)
  <2>1. CASE complete
    <3>1. view' = Rendered(w, scanner.entries)
      BY <1>3, <2>1 DEF Drawn
    <3>2. \A i \in 1 .. Len(view'.previews) :
            OnPage(view', scanner.entries, view'.previews[i].path) =>
              Len(view'.previews) - i < Drawing(w, scanner.entries)
      BY <1>4, <3>1, RoomFacts, RenderedRoom
    <3>3. Drawing(w, scanner.entries) \in Nat /\ Drawing(w, scanner.entries) <= PageSize
      BY <1>4, RoomFacts, ScheduledRoom
    <3>4. Waiting - 1 \in Int /\ Waiting - 1 <= PageSize
      BY <1>2, <2>1, RoomFacts DEF RoomInv, Waiting
    <3>5. Len(view'.previews) \in Nat
      BY <1>4, <3>1, RoomFacts, RenderedShows, LenProperties DEF Shows, Views
    <3> SUFFICES ASSUME NEW i \in 1 .. Len(view'.previews),
                        OnPage(view', scanner.entries, view'.previews[i].path)
                 PROVE  Len(view'.previews) - i + (Waiting - 1) < MaxPreviews
      BY DEF Room
    <3>6. Len(view'.previews) - i < Drawing(w, scanner.entries)
      BY <3>2
    <3> QED
      BY <3>3, <3>4, <3>5, <3>6, RoomFacts
  <2>2. CASE ~complete
    <3>1. view' = w
      BY <1>3, <2>2 DEF Drawn
    <3>2. VisibleBooks(w, scanner.entries) = VisibleBooks(v, scanner.entries)
      BY <1>4 DEF VisibleBooks, BooksOn, EntriesOn, ParentItems
    <3> QED
      BY <1>4, <3>1, <3>2 DEF Room, OnPage
  <2> QED
    BY <2>1, <2>2
<1>8. Room(view, scanner.entries, Waiting)'
  BY <1>2, <1>7 DEF Room, OnPage, VisibleBooks, BooksOn, EntriesOn, ParentItems
<1>9. app' = "FileBrowser"
  BY <1>3
<1> QED
  BY <1>1, <1>5, <1>6, <1>8, <1>9 DEF RoomInv

(* What serviceLibraryPreviews() does to the view and its queue *)
LEMMA ServiceDoes ==
  ASSUME LibraryInv, ServiceLibraryPreviews
  PROVE  \/ \E book \in Books, version \in Int : \E p : Counted(SetPreview(view, book, version), p)
         \/ \E p : Counted(view, p)
         \/ queue' = [queue EXCEPT !.active = TRUE] /\ UNCHANGED <<view, dirty>>
<1> DEFINE entry == queue.books[queue.index + 1]
<1>1. LibraryTypes /\ ParserSound
  BY DEF LibraryInv
<1>2. entry \in Records /\ entry.path \in Books
  <2>1. queue.books \in Seq(Records) /\ queue.index + 1 \in 1 .. Len(queue.books)
    BY <1>1, RoomFacts DEF Queues, ServiceLibraryPreviews, Collecting
  <2>2. entry \in Records
    BY <2>1, ElementOfSeq
  <2> QED
    BY <2>2 DEF Records
<1>3. \/ /\ Hit(cache, entry, BusFree)
         /\ Counted(SetPreview(view, entry.path, cache[Slot[entry.path]].version), parser)
      \/ \E p \in Parsed(IF queue.active THEN parser ELSE Started(entry.path)) :
           \/ p.phase = "ReadPackage" /\ queue' = [queue EXCEPT !.active = TRUE] /\ UNCHANGED <<view, dirty>>
           \/ p.phase = "Ready" /\ Counted(SetPreview(view, p.book, p.version), NoParser)
           \/ Counted(view, NoParser)
  BY DEF ServiceLibraryPreviews
<1>4. cache[Slot[entry.path]].version \in Int
  <2>1. Slot[entry.path] \in Slots
    BY <1>2 DEF Slots
  <2>2. cache[Slot[entry.path]] \in Thumbnails \cup {NoThumbnail}
    BY <1>1, <2>1 DEF LibraryTypes
  <2> QED
    BY <2>2, VersionFacts DEF Thumbnails, NoThumbnail
<1> HIDE DEF entry
<1>5. ASSUME NEW p \in Parsed(IF queue.active THEN parser ELSE Started(entry.path)), p.phase = "Ready"
      PROVE  p.book \in Books /\ p.version \in Int
  <2>1. queue.active
    BY <1>1, <1>2, <1>5, ParsedStarted, Failed
  <2>2. parser.phase = "ReadPackage" /\ p.book = parser.book /\ p.version = parser.version
    BY <1>1, <1>5, <2>1, ParsedOn, Failed
  <2> QED
    BY <1>1, <2>2 DEF ParserSound, LibraryTypes, Parsers
<1> QED
  BY <1>2, <1>3, <1>4, <1>5

(* A cover that is loaded pushes none of the page out. *)
KeepsShown == SamePage /\ view'.previews # <<>> =>
                Previewed(view, scanner.entries) \subseteq Previewed(view', scanner'.entries)

LEMMA SamePageBooks ==
  ASSUME SamePage
  PROVE  VisibleBooks(view', scanner'.entries) = VisibleBooks(view, scanner.entries)
BY DEF SamePage, VisibleBooks, BooksOn, EntriesOn, ParentItems

LEMMA KeptShown ==
  ASSUME \A book : HasPreview(view, book) /\ OnPage(view, scanner.entries, book) =>
                     HasPreview(view', book)
  PROVE  KeepsShown
<1> SUFFICES ASSUME SamePage,
                    NEW e \in ToSet(VisibleBooks(view, scanner.entries)), HasPreview(view, e.path)
             PROVE  e.path \in Previewed(view', scanner'.entries)
  BY DEF KeepsShown, Previewed
<1>1. OnPage(view, scanner.entries, e.path)
  BY DEF OnPage
<1>2. HasPreview(view', e.path)
  BY <1>1
<1>3. e \in ToSet(VisibleBooks(view', scanner'.entries))
  BY SamePageBooks
<1> QED
  BY <1>2, <1>3 DEF Previewed

LEMMA ServiceRoom ==
  ASSUME LibraryInv, RoomInv, 2 * PageSize <= MaxPreviews, ServiceLibraryPreviews
  PROVE  RoomInv' /\ KeepsShown
<1>1. /\ LibraryTypes /\ Collecting /\ UNCHANGED <<app, scanner>>
      /\ dirty = FALSE /\ Room(view, scanner.entries, Waiting) /\ Waiting \in Int /\ Waiting > 0
      /\ Waiting - 1 \in Nat /\ Waiting - 1 < MaxPreviews
  <2>1. LibraryTypes /\ Collecting /\ UNCHANGED <<app, scanner>>
    BY DEF LibraryInv, ServiceLibraryPreviews, browserVars
  <2>2. dirty = FALSE /\ ~scanner.running /\ Waiting \in Int /\ Waiting > 0
    BY <2>1, RoomFacts DEF Collecting, Waiting, LibraryTypes
  <2>3. Waiting <= MaxPreviews
    BY <2>1, RoomFacts DEF RoomInv, Waiting
  <2> QED
    BY <2>1, <2>2, <2>3, RoomFacts DEF RoomInv
<1>2. ASSUME NEW book \in Books, NEW version \in Int, NEW p, Counted(SetPreview(view, book, version), p)
      PROVE  RoomInv' /\ KeepsShown
  <2> DEFINE w == SetPreview(view, book, version)
             coming == Waiting - 1
  <2>1. w \in Views /\ w.path = view.path
    BY <1>1, RoomFacts, SetPreviewAdds
  <2>2. w.page = view.page
    BY <1>1, RoomFacts DEF SetPreview, Views
  <2>3. coming + 1 = Waiting /\ coming \in Nat /\ coming < MaxPreviews
    BY <1>1
  <2> HIDE DEF coming
  <2>4. /\ Room(w, scanner.entries, coming)
        /\ \A b : HasPreview(view, b) /\ OnPage(view, scanner.entries, b) => HasPreview(w, b)
    BY <1>1, <2>3, RoomFacts, SetPreviewRoom
  <2> HIDE DEF w
  <2>5. RoomInv' /\ Kept(w, view')
    BY <1>1, <1>2, <2>1, <2>2, <2>4, CountedRoom DEF w, coming
  <2> QED
    BY <2>4, <2>5, KeptShown DEF Kept
<1>3. ASSUME NEW p, Counted(view, p)
      PROVE  RoomInv' /\ KeepsShown
  <2>1. Room(view, scanner.entries, Waiting - 1)
    <3> SUFFICES ASSUME NEW i \in 1 .. Len(view.previews),
                        OnPage(view, scanner.entries, view.previews[i].path)
                 PROVE  Len(view.previews) - i + (Waiting - 1) < MaxPreviews
      BY DEF Room
    <3>1. Len(view.previews) - i + Waiting < MaxPreviews
      BY <1>1 DEF Room
    <3>2. Len(view.previews) \in Nat
      BY <1>1, RoomFacts, LenProperties DEF Views
    <3> QED
      BY <1>1, <3>1, <3>2, RoomFacts
  <2>2. RoomInv' /\ Kept(view, view')
    BY <1>1, <1>3, <2>1, RoomFacts, CountedRoom
  <2> QED
    BY <2>2, KeptShown DEF Kept
<1>4. ASSUME queue' = [queue EXCEPT !.active = TRUE], UNCHANGED <<view, dirty>>
      PROVE  RoomInv' /\ KeepsShown
  <2>1. queue'.books = queue.books /\ queue'.index = queue.index /\ queue'.visible = queue.visible
    BY <1>1, <1>4, RoomFacts DEF Queues
  <2>2. Waiting' = Waiting /\ (Room(view, scanner.entries, Waiting) => Room(view, scanner.entries, Waiting)')
    <3>1. view' = view /\ scanner'.entries = scanner.entries
      BY <1>1, <1>4
    <3>2. Waiting' = Waiting
      BY <2>1 DEF Waiting
    <3> QED
      BY <3>1, <3>2 DEF Room, OnPage, VisibleBooks, BooksOn, EntriesOn, ParentItems
  <2>3. RoomInv'
    BY <1>1, <1>4, <2>1, <2>2 DEF RoomInv
  <2>4. KeepsShown
    BY <1>4, KeptSame, KeptShown DEF Kept
  <2> QED
    BY <2>3, <2>4
<1> QED
  BY <1>2, <1>3, <1>4, ServiceDoes

LEMMA StepRoom ==
  ASSUME LibraryInv, RoomInv, 2 * PageSize <= MaxPreviews, [Next]_vars
  PROVE  RoomInv' /\ KeepsShown
<1>1. LibraryTypes /\ Apart(scanner)
  BY DEF LibraryInv, ScanSound
<1>2. RoomKept => RoomInv' /\ KeepsShown
  BY KeptShown DEF RoomKept, Kept, KeepsShown
<1>3. CASE \/ BeginUpload \/ EndUpload \/ DeleteBook \/ (StopPortal /\ ~changed)
           \/ ScanCard \/ IndexCard \/ PanelIdles \/ UNCHANGED vars
  <2>1. UNCHANGED <<app, scanner, view, queue, dirty>>
    BY <1>3 DEF BeginUpload, EndUpload, DeleteBook, StopPortal, ScanCard, IndexCard,
                PanelIdles, vars, browserVars
  <2> QED
    BY <1>2, <2>1, UnseenRoom
<1>4. CASE BeginCardPrefetch
  <2>1. /\ UNCHANGED <<scanner, view, queue, dirty>> /\ app' # "Book"
    BY <1>4 DEF BeginCardPrefetch, browserVars
  <2>2. Waiting' = Waiting /\ (Room(view, scanner.entries, Waiting) => Room(view, scanner.entries, Waiting)')
    BY <2>1 DEF Waiting, Room, OnPage, VisibleBooks, BooksOn, EntriesOn, ParentItems
  <2>3. RoomKept
    BY <2>1, <2>2, KeptSame DEF RoomInv, RoomKept
  <2> QED
    BY <1>2, <2>3
<1>5. CASE StartPortal \/ OpenMenu
  <2>1. queue' = NoQueue /\ app' # "Book" /\ view' = view
    BY <1>5 DEF StartPortal, OpenMenu
  <2> QED
    BY <1>1, <1>2, <2>1, LeftRoom
<1>6. CASE ServiceLibraryPreviews
  BY <1>6, ServiceRoom
<1>7. CASE TurnPage \/ CloseBook \/ CloseMenu \/ FinishCardPrefetch \/ Scan
  BY <1>1, <1>2, <1>7, TurnPageRoom, BrowserRoom, ScanRoom
<1>8. CASE OpenFolder \/ OpenParent \/ (StopPortal /\ changed) \/ OpenBook \/ DismissError \/ Render
  BY <1>1, <1>2, <1>8, OpenRoom, OpenBookRoom, RedrawRoom
<1> QED
  BY <1>3, <1>4, <1>5, <1>6, <1>7, <1>8
     DEF Next, Portal, User, Tick, ServiceCardPrefetch

(***************************************************************************)
(* Collecting the covers of the next page (serviceLibraryPreviews()) never *)
(* makes FileBrowserView::setPreview() give up one of the page that is     *)
(* shown, provided that two pages find room.                               *)
(***************************************************************************)
THEOREM PageKeepsItsCovers ==
  ASSUME 2 * PageSize <= MaxPreviews
  PROVE  Spec => KeepsVisible
<1>1. Init => RoomInv
  <2> SUFFICES ASSUME Init PROVE RoomInv
    OBVIOUS
  <2>1. queue.books = <<>> /\ queue.index = 0 /\ queue.visible = 0 /\ app # "Book"
    BY DEF Init, NoQueue
  <2>2. Len(queue.books) = 0
    BY <2>1, EmptySeq
  <2> QED
    BY <2>1, <2>2, CardFacts DEF RoomInv, Waiting
<1>2. LibraryInv /\ RoomInv /\ [Next]_vars => RoomInv' /\ KeepsShown
  BY StepRoom
<1>3. Spec => []RoomInv
  BY <1>1, <1>2, LibraryInvariant, PTL DEF Spec
<1>4. LibraryInv /\ RoomInv /\ [Next]_vars =>
        [SamePage /\ view'.previews # <<>> =>
           Previewed(view, scanner.entries) \subseteq Previewed(view', scanner'.entries)]_vars
  BY <1>2 DEF KeepsShown
<1> QED
  BY <1>3, <1>4, LibraryInvariant, PTL DEF Spec, KeepsVisible
-----------------------------------------------------------------------------
(***************************************************************************)
(* The limits: of a list, of the pages, of the previews and of their queue *)
(***************************************************************************)
NoneTwice(s) == \A i \in 1 .. Len(s), j \in 1 .. Len(s) : s[i].path = s[j].path => i = j

OnAPage(v, entries) == v.page <= PageCount(v, entries) - 1

(* That no path is listed twice is why drawing a page adds no preview.     *)
LimitsInv ==
  /\ Len(scanner.entries) <= MaxEntries /\ NoneTwice(scanner.entries)
  /\ OnAPage(view, scanner.entries)
  /\ Len(view.previews) <= MaxPreviews
  /\ Len(queue.books) <= 2 * PageSize /\ queue.index <= 2 * PageSize

(* The order of the list's entries is strict. *)
LEMMA SortedOnce ==
  ASSUME NEW X, IsFiniteSet(X), Distinct(X), \A x \in X : x.path \in Nat
  PROVE  NoneTwice(Sorted(X))
<1> DEFINE R == {ab \in X \X X : Before(ab[1], ab[2])}
           r == Sorted(X)
           n == Cardinality(X)
<1>1. \A x \in X, y \in X : <<x, y>> \in R <=> Before(x, y)
  OBVIOUS
<1>2. r = Ranked(X, R)
  BY DEF Sorted
<1> HIDE DEF R, r
<1>3. \A x \in X : <<x, x>> \notin R
  BY <1>1 DEF Before
<1>4. StrictOrder(X, R)
  <2>1. \A x \in X, y \in X : x = y \/ Before(x, y) \/ Before(y, x)
    BY DEF Before, Distinct
  <2>2. \A x \in X, y \in X, z \in X : Before(x, y) /\ Before(y, z) => Before(x, z)
    BY DEF Before
  <2> QED
    BY <1>1, <1>3, <2>1, <2>2 DEF StrictOrder
<1>5. /\ n \in Nat /\ r \in [1 .. n -> X]
      /\ \A k \in 1 .. n, l \in 1 .. n : k < l => <<r[k], r[l]>> \in R
  BY <1>2, <1>4, RankedLists
<1> HIDE DEF n
<1>6. Len(r) = n
  BY <1>5, SeqDef, LenProperties
<1> SUFFICES ASSUME NEW i \in 1 .. n, NEW j \in 1 .. n, r[i].path = r[j].path PROVE i = j
  BY <1>6 DEF NoneTwice, r
<1>7. r[i] = r[j]
  BY <1>5 DEF Distinct
<1>8. ~(i < j) /\ ~(j < i)
  BY <1>3, <1>5, <1>7
<1> QED
  BY <1>5, <1>8

LEMMA PartOnce ==
  ASSUME NEW E, NEW s \in Seq(E), NEW m \in Int, NEW n \in Int, m >= 1, n <= Len(s), NoneTwice(s)
  PROVE  NoneTwice(SubSeq(s, m, n))
<1>1. Len(s) \in Nat /\ \A i \in m .. n : s[i] \in E
  BY LenProperties, ElementOfSeq
<1> DEFINE t == SubSeq(s, m, n)
<1>2. /\ Len(t) = IF m <= n THEN n - m + 1 ELSE 0
      /\ \A i \in 1 .. n - m + 1 : t[i] = s[m + i - 1]
  BY <1>1, SubSeqProperties
<1> HIDE DEF t
<1>3. \A i \in 1 .. Len(t) : t[i] = s[m + i - 1] /\ m + i - 1 \in 1 .. Len(s)
  BY <1>1, <1>2
<1> SUFFICES ASSUME NEW i \in 1 .. Len(t), NEW j \in 1 .. Len(t), t[i].path = t[j].path PROVE i = j
  BY DEF NoneTwice, t
<1>4. m + i - 1 = m + j - 1
  BY <1>3 DEF NoneTwice
<1> QED
  BY <1>2, <1>4

LEMMA PickOnce ==
  ASSUME NEW E, NEW s \in Seq(E), NEW I \in SUBSET (DOMAIN s), NoneTwice(s)
  PROVE  NoneTwice(Pick(s, I))
<1> DEFINE t == Pick(s, I)
           m == Cardinality(I)
<1>1. Len(t) = m /\ m \in Nat
  BY PickLists
<1>2. PICK r : Picked(s, I, r)
  BY PickOrder
<1>3. /\ r \in [1 .. m -> I] /\ \A k \in 1 .. m : t[k] = s[r[k]]
      /\ \A k \in 1 .. m, l \in 1 .. m : k < l => r[k] < r[l]
  BY <1>2 DEF Picked
<1>4. DOMAIN s = 1 .. Len(s)
  BY LenProperties
<1> HIDE DEF t, m
<1> SUFFICES ASSUME NEW i \in 1 .. m, NEW j \in 1 .. m, t[i].path = t[j].path PROVE i = j
  BY <1>1 DEF NoneTwice, t
<1>5. r[i] \in 1 .. Len(s) /\ r[j] \in 1 .. Len(s)
  BY <1>3, <1>4
<1>6. r[i] = r[j]
  BY <1>3, <1>5 DEF NoneTwice
<1> QED
  BY <1>1, <1>3, <1>5, <1>6

LEMMA PageOnce ==
  ASSUME NEW v \in Views, NEW entries \in Seq(Listings), NEW page \in Int, NoneTwice(entries)
  PROVE  NoneTwice(BooksOn(v, entries, page))
<1> DEFINE m == page * PageSize + 1 - ParentItems(v)
           first == IF m < 1 THEN 1 ELSE m
           last == Smaller(m + PageSize - 1, Len(entries))
           shown == EntriesOn(v, entries, page)
           I == {i \in DOMAIN shown : shown[i].path \in Books}
<1>1. m \in Int /\ PageSize \in Nat /\ Len(entries) \in Nat
  BY CardFacts, LenProperties DEF ParentItems
<1>2. shown = SubSeq(entries, first, last)
  BY DEF EntriesOn
<1> HIDE DEF m
<1>3. first \in Int /\ first >= 1 /\ last \in Int /\ last <= Len(entries)
  BY <1>1 DEF Smaller
<1> HIDE DEF first, last
<1>4. shown \in Seq(Listings) /\ NoneTwice(shown)
  BY <1>2, <1>3, PartOfList, PartOnce
<1>5. BooksOn(v, entries, page) = Pick(shown, I) /\ I \in SUBSET (DOMAIN shown)
  BY DEF BooksOn
<1> HIDE DEF shown, I
<1> QED
  BY <1>4, <1>5, PickOnce

(* render() puts no more previews last than it takes away: a book that is  *)
(* drawn is drawn once.                                                    *)
LEMMA RenderedHolds ==
  ASSUME NEW v \in Views, NEW entries \in Seq(Listings), NoneTwice(entries)
  PROVE  Len(Rendered(v, entries).previews) <= Len(v.previews)
<1> DEFINE drawn == VisibleBooks(v, entries)
           I == {i \in DOMAIN drawn : HasPreview(v, drawn[i].path)}
           used == Pick(drawn, I)
           unused == {i \in DOMAIN v.previews :
                        \A j \in DOMAIN drawn : drawn[j].path # v.previews[i].path}
           taken == DOMAIN v.previews \ unused
           Of(book) == CHOOSE p \in ToSet(v.previews) : p.path = book
           kept == Pick(v.previews, unused)
           last == [i \in DOMAIN used |-> Of(used[i].path)]
           place == [i \in I |-> CHOOSE j \in taken : v.previews[j].path = drawn[i].path]
<1>1. v.previews \in Seq(Covers) /\ v.page \in Int
  BY DEF Views
<1>2. drawn \in Seq(Records) /\ NoneTwice(drawn)
  BY <1>1, BooksOnList, PageOnce DEF VisibleBooks
<1>3. Rendered(v, entries).previews = kept \o last
  BY DEF Rendered, Views
<1>4. I \in SUBSET (DOMAIN drawn) /\ unused \in SUBSET (DOMAIN v.previews)
  OBVIOUS
<1> HIDE DEF drawn
<1>5. \A i \in I : \E j \in taken : v.previews[j].path = drawn[i].path
  BY DEF HasPreview
<1> HIDE DEF I, unused, Of
<1>6. \A i \in I : place[i] \in taken /\ v.previews[place[i]].path = drawn[i].path
  BY <1>5
<1>7. place \in Injection(I, taken)
  <2>1. DOMAIN drawn = 1 .. Len(drawn)
    BY <1>2, LenProperties
  <2>2. \A i \in I, j \in I : place[i] = place[j] => i = j
    BY <1>2, <1>4, <1>6, <2>1 DEF NoneTwice
  <2>3. place \in [I -> taken]
    BY <1>6
  <2> HIDE DEF place, taken
  <2> QED
    BY <2>2, <2>3 DEF Injection, IsInjective
<1>8. /\ DOMAIN v.previews = 1 .. Len(v.previews) /\ Len(v.previews) \in Nat
      /\ IsFiniteSet(DOMAIN v.previews) /\ Cardinality(DOMAIN v.previews) = Len(v.previews)
  BY <1>1, LenProperties, Positions
<1>9. /\ taken \cup unused = DOMAIN v.previews /\ taken \cap unused = {}
      /\ taken \in SUBSET (DOMAIN v.previews)
  BY <1>4
<1> HIDE DEF place, taken
<1>10. IsFiniteSet(taken) /\ IsFiniteSet(unused)
  BY <1>4, <1>8, <1>9, FS_Subset
<1>11. Cardinality(I) <= Cardinality(taken)
  BY <1>7, <1>10, FS_Injection
<1>12. Cardinality(taken) + Cardinality(unused) = Len(v.previews)
  <2>1. Cardinality(taken \cup unused) =
          Cardinality(taken) + Cardinality(unused) - Cardinality(taken \cap unused)
    BY <1>10, FS_Union
  <2>2. Cardinality(taken \cap unused) = 0
    BY <1>9, FS_EmptySet
  <2>3. Cardinality(taken) \in Nat /\ Cardinality(unused) \in Nat
    BY <1>10, FS_CardinalityType
  <2>4. Cardinality(taken \cup unused) = Len(v.previews)
    BY <1>8, <1>9
  <2> QED
    BY <2>1, <2>2, <2>3, <2>4
<1>13. /\ used \in Seq(Records) /\ Len(used) = Cardinality(I) /\ Cardinality(I) \in Nat
       /\ kept \in Seq(Covers) /\ Len(kept) = Cardinality(unused) /\ Cardinality(unused) \in Nat
  BY <1>1, <1>2, <1>4, PickLists
<1>14. Len(last) = Len(used) /\ last \in Seq({Of(b) : b \in {used[i].path : i \in DOMAIN used}})
  <2> HIDE DEF used
  <2>1. DOMAIN used = 1 .. Len(used) /\ Len(used) \in Nat
    BY <1>13, LenProperties
  <2>2. last \in [1 .. Len(used) -> {Of(b) : b \in {used[i].path : i \in DOMAIN used}}]
    BY <2>1
  <2> HIDE DEF last
  <2> QED
    BY <2>1, <2>2, SeqDef, LenProperties
<1> HIDE DEF kept, last, used
<1>15. Len(kept \o last) = Len(kept) + Len(last)
  <2>1. kept \in Seq(Covers \cup {Of(b) : b \in {used[i].path : i \in DOMAIN used}})
    BY <1>13, SeqDef
  <2>2. last \in Seq(Covers \cup {Of(b) : b \in {used[i].path : i \in DOMAIN used}})
    BY <1>14, SeqDef
  <2> QED
    BY <2>1, <2>2, ConcatProperties
<1> QED
  BY <1>3, <1>8, <1>11, <1>12, <1>13, <1>14, <1>15, FS_CardinalityType, <1>10

(* setPreview() gives up the oldest when there are too many. *)
LEMMA SetPreviewHolds ==
  ASSUME NEW v \in Views, NEW book \in Books, NEW version \in Int, Len(v.previews) <= MaxPreviews
  PROVE  Len(SetPreview(v, book, version).previews) <= MaxPreviews
<1> DEFINE others == {i \in DOMAIN v.previews : v.previews[i].path # book}
           kept == Pick(v.previews, others)
           cover == [path |-> book, version |-> version]
           all == Append(kept, cover)
<1>1. SetPreview(v, book, version).previews = IF Len(all) > MaxPreviews THEN Tail(all) ELSE all
  BY DEF SetPreview, Views
<1>2. v.previews \in Seq(Covers) /\ cover \in Covers
  BY DEF Views, Covers
<1>3. others \in SUBSET (DOMAIN v.previews)
  OBVIOUS
<1> HIDE DEF others, cover
<1>4. kept \in Seq(Covers) /\ Len(kept) = Cardinality(others) /\ Cardinality(others) \in Nat
  BY <1>2, <1>3, PickLists
<1>5. Cardinality(others) <= Len(v.previews) /\ Len(v.previews) \in Nat
  <2>1. DOMAIN v.previews = 1 .. Len(v.previews) /\ Len(v.previews) \in Nat
    BY <1>2, LenProperties
  <2>2. IsFiniteSet(1 .. Len(v.previews)) /\ Cardinality(1 .. Len(v.previews)) = Len(v.previews)
    BY <2>1, Positions
  <2> QED
    BY <1>3, <2>1, <2>2, FS_Subset
<1> HIDE DEF kept
<1>6. all \in Seq(Covers) /\ all # <<>> /\ Len(all) = Len(kept) + 1
  BY <1>2, <1>4, AppendProperties, LenProperties
<1> HIDE DEF all
<1>7. Len(Tail(all)) = Len(kept)
  BY <1>4, <1>6, HeadTailProperties
<1>8. MaxPreviews \in Nat
  BY CardFacts
<1> QED
  BY <1>1, <1>4, <1>5, <1>6, <1>7, <1>8

(* setPage(), and setModel(), which calls it *)
LEMMA SamePages ==
  ASSUME NEW v, NEW w, v.path = w.path, v.page = w.page, NEW entries, OnAPage(v, entries)
  PROVE  OnAPage(w, entries)
BY DEF OnAPage, PageCount, ItemCount, ParentItems

LEMMA PageIsThere ==
  ASSUME NEW v \in Views, NEW entries \in Seq(Listings), NEW page \in Nat
  PROVE  OnAPage(SetPage(v, entries, page), entries)
<1> DEFINE w == SetPage(v, entries, page)
           last == PageCount(v, entries) - 1
<1>1. last \in Int /\ w.path = v.path /\ w.page = Smaller(page, last)
  BY PagesThere, PageIsInt DEF SetPage, Views
<1> HIDE DEF w, last
<1>2. w.page <= last
  BY <1>1 DEF Smaller
<1>3. PageCount(w, entries) = PageCount(v, entries)
  BY <1>1 DEF PageCount, ItemCount, ParentItems
<1> QED
  BY <1>2, <1>3 DEF OnAPage, w, last

LEMMA ModelIsThere ==
  ASSUME NEW v \in Views, NEW entries \in Seq(Listings), NEW folder \in Folders
  PROVE  OnAPage(SetModel(v, folder, entries), entries)
<1> DEFINE w == [v EXCEPT !.path = folder]
           page == IF v.path = folder THEN v.page ELSE 0
<1>1. w \in Views /\ page \in Nat
  BY DEF Views
<1>2. SetModel(v, folder, entries) = SetPage(w, entries, page)
  BY DEF SetModel
<1> HIDE DEF w, page
<1> QED
  BY <1>1, <1>2, PageIsThere

LEMMA Quotients ==
  ASSUME NEW a \in Nat, NEW b \in Nat, NEW d \in Nat \ {0}, a <= b
  PROVE  a \div d <= b \div d
<1> DEFINE p == a \div d
           q == b \div d
<1>1. p \in Int /\ q \in Int /\ d * p <= a /\ b < d * (q + 1)
  OBVIOUS
<1> HIDE DEF p, q
<1>2. ASSUME p > q
      PROVE  FALSE
  <2>1. p - (q + 1) \in Nat
    BY <1>1, <1>2
  <2>2. d * (p - (q + 1)) \in Nat
    BY <2>1
  <2>3. d * p = d * (q + 1) + d * (p - (q + 1))
    BY <1>1
  <2>4. d * p \in Int /\ d * (q + 1) \in Int
    BY <1>1
  <2> QED
    BY <1>1, <2>2, <2>3, <2>4
<1> QED
  BY <1>1, <1>2 DEF p, q

(* A longer list has no fewer pages. *)
LEMMA MorePages ==
  ASSUME NEW v \in Views, NEW entries \in Seq(Listings), NEW more \in Seq(Listings),
         Len(entries) <= Len(more), OnAPage(v, entries)
  PROVE  OnAPage(v, more)
<1> DEFINE m == ItemCount(v, entries)
           n == ItemCount(v, more)
<1>1. m \in Nat /\ n \in Nat /\ PageCount(v, entries) \in Nat \ {0} /\ PageCount(v, more) \in Nat \ {0}
  BY PagesThere
<1>2. m <= n
  BY LenProperties DEF ItemCount, ParentItems
<1>3. PageSize \in Nat \ {0} /\ v.page \in Nat
  BY CardFacts DEF Views
<1>4. PageCount(v, entries) <= PageCount(v, more)
  <2>1. PageCount(v, entries) = IF m = 0 THEN 1 ELSE (m + PageSize - 1) \div PageSize
    BY DEF PageCount
  <2>2. PageCount(v, more) = IF n = 0 THEN 1 ELSE (n + PageSize - 1) \div PageSize
    BY DEF PageCount
  <2> HIDE DEF m, n
  <2>3. CASE m = 0
    BY <1>1, <2>1, <2>3
  <2>4. CASE m # 0
    <3>1. m + PageSize - 1 \in Nat /\ n + PageSize - 1 \in Nat /\ m + PageSize - 1 <= n + PageSize - 1 /\ n # 0
      BY <1>1, <1>2, <1>3, <2>4
    <3>2. (m + PageSize - 1) \div PageSize <= (n + PageSize - 1) \div PageSize
      BY <1>3, <3>1, Quotients
    <3> QED
      BY <2>1, <2>2, <2>4, <3>1, <3>2
  <2> QED
    BY <2>3, <2>4
<1> QED
  BY <1>1, <1>3, <1>4 DEF OnAPage

(* processNextBatch() lists no more than kMaxDirectoryEntries, each once. *)
LEMMA ListCounted ==
  ASSUME NEW s \in Seq(Listings), NoneTwice(s)
  PROVE  LET X == {s[i] : i \in DOMAIN s} IN IsFiniteSet(X) /\ Cardinality(X) = Len(s)
<1> DEFINE X == {s[i] : i \in DOMAIN s}
           f == [i \in 1 .. Len(s) |-> s[i]]
<1>1. DOMAIN s = 1 .. Len(s) /\ Len(s) \in Nat
  BY LenProperties
<1>2. f \in Surjection(1 .. Len(s), X)
  BY <1>1 DEF Surjection
<1>3. f \in Injection(1 .. Len(s), X)
  <2>1. \A i \in 1 .. Len(s), j \in 1 .. Len(s) : f[i] = f[j] => i = j
    BY DEF NoneTwice
  <2>2. f \in [1 .. Len(s) -> X]
    BY <1>1
  <2> HIDE DEF f, X
  <2> QED
    BY <2>1, <2>2 DEF Injection, IsInjective
<1> HIDE DEF f, X
<1>4. IsFiniteSet(1 .. Len(s)) /\ Cardinality(1 .. Len(s)) = Len(s)
  BY <1>1, Positions
<1>5. IsFiniteSet(X) /\ Cardinality(X) <= Len(s)
  BY <1>2, <1>4, FS_Surjection
<1>6. Len(s) <= Cardinality(X)
  BY <1>3, <1>4, <1>5, FS_Injection
<1>7. Cardinality(X) \in Nat
  BY <1>5, FS_CardinalityType
<1> QED
  BY <1>1, <1>5, <1>6, <1>7 DEF X

LEMMA BatchHolds ==
  ASSUME LibraryTypes, Apart(scanner), NEW t \in NextBatch(scanner, card, TRUE),
         Len(scanner.entries) <= MaxEntries, NoneTwice(scanner.entries)
  PROVE  /\ NoneTwice(t.entries)
         /\ Len(scanner.entries) <= Len(t.entries) /\ Len(t.entries) <= MaxEntries
<1>1. PICK batch \in Batches(scanner.unread, Batch) :
        t \in LET wanted == {item \in batch \ Others : item \in Books => Exists(card[item])}
                  most == Smaller(Cardinality(wanted), MaxEntries - Len(scanner.entries))
              IN {Take(scanner, card, batch, kept) : kept \in kSubset(most, wanted)}
  BY DEF NextBatch
<1> DEFINE wanted == {item \in batch \ Others : item \in Books => Exists(card[item])}
           most == Smaller(Cardinality(wanted), MaxEntries - Len(scanner.entries))
<1>2. PICK kept \in kSubset(most, wanted) : t = Take(scanner, card, batch, kept)
  BY <1>1
<1>3. scanner \in Scanners /\ scanner.unread \in SUBSET Items /\ scanner.entries \in Seq(Listings)
  BY DEF Scanners, LibraryTypes
<1>4. batch \in SUBSET scanner.unread /\ IsFiniteSet(batch)
  BY <1>3, CardFacts, BatchFacts
<1>5. wanted \in SUBSET batch /\ kept \in SUBSET wanted /\ Cardinality(kept) = most
  BY <1>2 DEF kSubset
<1>6. IsFiniteSet(kept) /\ Cardinality(kept) \in Nat /\ IsFiniteSet(wanted) /\ Cardinality(wanted) \in Nat
  <2> HIDE DEF wanted, most
  <2> QED
    BY <1>4, <1>5, FS_Subset, FS_CardinalityType
<1> DEFINE new == {Entry(card, item) : item \in kept}
           all == Listed(scanner) \cup new
           f == [item \in kept |-> Entry(card, item)]
<1>7. /\ IsFiniteSet(new) /\ Cardinality(new) <= Cardinality(kept) /\ Cardinality(new) \in Nat
  <2>1. f \in Surjection(kept, new)
    BY DEF Surjection
  <2> HIDE DEF f, new
  <2> QED
    BY <1>6, <2>1, FS_Surjection, FS_CardinalityType
<1>8. IsFiniteSet(Listed(scanner)) /\ Cardinality(Listed(scanner)) = Len(scanner.entries)
  BY <1>3, ListCounted DEF Listed
<1>9. PICK b \in SUBSET scanner.unread : \E k \in SUBSET (b \ Others) : Takes(scanner, t, b, k)
  BY <1>3, BatchTaken DEF LibraryTypes
<1>10. t \in Scanners /\ Apart(t)
  BY <1>9 DEF Takes
<1>11. t.entries = Sorted(all)
  BY <1>2, <1>3 DEF Take, Scanners
<1> HIDE DEF new, most
<1>12. IsFiniteSet(all) /\ Distinct(all) /\ \A x \in all : x.path \in Nat
  <2>1. IsFiniteSet(all)
    BY <1>7, <1>8, FS_Union
  <2>2. \A x \in Listed(scanner) : x.path \in Nat
    <3>1. Listed(scanner) \in SUBSET Listings
      BY <1>3, ListFinite DEF Listed
    <3>2. \A x \in Listings : x.path \in Nat
      BY CardFacts DEF Listings
    <3> QED
      BY <3>1, <3>2
  <2>3. \A x \in new : x.path \in kept
    BY DEF new, Entry
  <2>4. \A item \in kept : item \in Nat /\ item \in scanner.unread
    BY <1>3, <1>4, <1>5, CardFacts
  <2>5. Distinct(new)
    BY <1>6, EntriesOf DEF new
  <2>6. \A x \in Listed(scanner), y \in new : x.path # y.path
    BY <2>3, <2>4 DEF Apart
  <2>7. \A x \in all : x.path \in Nat
    BY <2>2, <2>3, <2>4
  <2>8. Distinct(all)
    BY <2>5, <2>6 DEF Distinct, Apart
  <2> QED
    BY <2>1, <2>7, <2>8
<1>13. /\ Cardinality(all) <= Len(scanner.entries) + Cardinality(new)
       /\ Len(scanner.entries) <= Cardinality(all) /\ Cardinality(all) \in Nat
  <2>1. Cardinality(Listed(scanner) \cup new) =
          Cardinality(Listed(scanner)) + Cardinality(new) - Cardinality(Listed(scanner) \cap new)
    BY <1>7, <1>8, FS_Union
  <2>2. IsFiniteSet(Listed(scanner) \cap new)
    <3>1. Listed(scanner) \cap new \in SUBSET new
      OBVIOUS
    <3> QED
      BY <1>7, <3>1, FS_Subset
  <2>3. Cardinality(Listed(scanner) \cap new) \in Nat /\ Cardinality(all) \in Nat
    BY <1>12, <2>2, FS_CardinalityType
  <2>4. Cardinality(Listed(scanner)) <= Cardinality(all)
    <3>1. Listed(scanner) \in SUBSET all
      OBVIOUS
    <3> HIDE DEF all
    <3> QED
      BY <1>12, <3>1, FS_Subset
  <2>5. Len(scanner.entries) \in Nat
    BY <1>3, LenProperties
  <2> QED
    BY <1>7, <1>8, <2>1, <2>3, <2>4, <2>5
<1>14. Len(Sorted(all)) = Cardinality(all)
  <2>1. all \in SUBSET all
    OBVIOUS
  <2> HIDE DEF all
  <2> QED
    BY <1>12, <2>1, SortedLists
<1>15. NoneTwice(Sorted(all))
  <2> HIDE DEF all
  <2> QED
    BY <1>12, SortedOnce
<1>16. Len(scanner.entries) \in Nat /\ MaxEntries \in Nat
  BY <1>3, LenProperties, CardAssumption
<1>17. most <= MaxEntries - Len(scanner.entries) /\ most \in Int
  BY <1>6, <1>16 DEF Smaller, most
<1> HIDE DEF all
<1>18. Cardinality(all) <= MaxEntries
  BY <1>5, <1>6, <1>7, <1>13, <1>16, <1>17
<1> QED
  BY <1>11, <1>13, <1>14, <1>15, <1>18

(* A drawing, or one that is put off, keeps the page and adds no preview. *)
LEMMA DrawnLimits ==
  ASSUME NEW v \in Views, NEW entries \in Seq(Listings), NEW due, Drawn(v, entries, due),
         NoneTwice(entries), OnAPage(v, entries), Len(v.previews) <= MaxPreviews
  PROVE  OnAPage(view', entries) /\ Len(view'.previews) <= MaxPreviews
<1> DEFINE w == Rendered(v, entries)
<1>1. w \in Views /\ w.path = v.path /\ w.page = v.page
  BY RenderedShows DEF Shows
<1>2. Len(w.previews) <= Len(v.previews)
  BY RenderedHolds
<1>3. v.previews \in Seq(Covers) /\ w.previews \in Seq(Covers) /\ MaxPreviews \in Nat
  BY <1>1, CardFacts DEF Views
<1>4. view' \in {v, w}
  BY DEF Drawn
<1> HIDE DEF w
<1>5. OnAPage(w, entries)
  BY <1>1, SamePages
<1>6. Len(w.previews) <= MaxPreviews
  BY <1>2, <1>3, LenProperties
<1> QED
  BY <1>4, <1>5, <1>6

LEMMA ScheduledLimits ==
  ASSUME NEW v \in Views, NEW entries \in Seq(Listings), SchedulePreviews(v, entries),
         NoneTwice(entries), OnAPage(v, entries), Len(v.previews) <= MaxPreviews
  PROVE  /\ OnAPage(view', entries) /\ Len(view'.previews) <= MaxPreviews
         /\ Len(queue'.books) <= 2 * PageSize /\ queue'.index <= 2 * PageSize
<1> DEFINE w == [v EXCEPT !.loading = queue'.visible # 0]
<1>1. w \in Views /\ w.path = v.path /\ w.previews = v.previews /\ w.page = v.page
  BY DEF Views
<1>2. Drawn(w, entries, TRUE) /\ queue' = Scheduled(v, entries)
  BY DEF SchedulePreviews
<1> HIDE DEF w
<1>3. OnAPage(w, entries)
  BY <1>1, SamePages
<1>4. OnAPage(view', entries) /\ Len(view'.previews) <= MaxPreviews
  BY <1>1, <1>2, <1>3, DrawnLimits
<1>5. /\ queue'.index = 0 /\ queue'.visible \in Nat /\ Drawing(v, entries) \in Nat
      /\ queue'.visible + Drawing(v, entries) <= PageSize
      /\ Len(queue'.books) <= queue'.visible + PageSize
  BY <1>2, ScheduledRoom
<1>6. Len(queue'.books) \in Nat
  BY <1>2, ScheduledOnList, LenProperties DEF Queues
<1> QED
  BY <1>4, <1>5, <1>6, CardFacts

LEMMA DirectoryLimits ==
  ASSUME LibraryTypes, LimitsInv, NEW v \in Views, NEW folder \in Folders, NEW busFree \in BOOLEAN,
         StartDirectory(v, folder, busFree), Len(v.previews) <= MaxPreviews
  PROVE  LimitsInv'
<1>1. scanner' \in Scanners /\ scanner' \in StartScan(scanner, card, folder, busFree)
  BY RoomFacts, StartDirectoryDoes
<1>2. scanner' = scanner \/ scanner'.entries = <<>>
  BY <1>1, RoomFacts, StartScanTyped
<1>3. Len(scanner'.entries) <= MaxEntries /\ NoneTwice(scanner'.entries)
  <2>1. Len(<<>>) = 0 /\ MaxEntries \in Nat
    BY EmptySeq, CardAssumption
  <2>2. NoneTwice(<<>>)
    BY <2>1 DEF NoneTwice
  <2> QED
    BY <1>2, <2>1, <2>2 DEF LimitsInv
<1>4. scanner'.entries \in Seq(Listings)
  BY <1>1 DEF Scanners
<1>5. OnAPage(view', scanner'.entries) /\ Len(view'.previews) <= MaxPreviews
  BY <1>4, ModelIsThere, ModelKeepsPreviews DEF StartDirectory
<1>6. queue'.books = <<>> /\ queue'.index = queue.index
  BY RoomFacts DEF StartDirectory, Queues
<1>7. Len(queue'.books) = 0 /\ PageSize \in Nat
  BY <1>6, EmptySeq, CardFacts
<1>8. OnAPage(view, scanner.entries)'
  BY <1>5 DEF OnAPage, PageCount, ItemCount, ParentItems
<1>9. Len(queue'.books) <= 2 * PageSize /\ queue'.index <= 2 * PageSize
  BY <1>6, <1>7 DEF LimitsInv
<1> QED
  BY <1>3, <1>5, <1>8, <1>9 DEF LimitsInv

LEMMA ShownLimits ==
  ASSUME LibraryTypes, LimitsInv, scanner' = scanner,
         OnAPage(view', scanner.entries), Len(view'.previews) <= MaxPreviews,
         Len(queue'.books) <= 2 * PageSize /\ queue'.index <= 2 * PageSize
  PROVE  LimitsInv'
BY DEF LimitsInv, OnAPage, PageCount, ItemCount, ParentItems

LEMMA BrowserLimits ==
  ASSUME LibraryTypes, LimitsInv,
         TurnPage \/ CloseBook \/ CloseMenu \/ FinishCardPrefetch \/ DismissError \/ Render
  PROVE  LimitsInv'
<1>1. /\ scanner' = scanner /\ view \in Views /\ view.path \in Folders
      /\ scanner.entries \in Seq(Listings)
      /\ NoneTwice(scanner.entries) /\ OnAPage(view, scanner.entries)
      /\ Len(view.previews) <= MaxPreviews
  BY RoomFacts DEF TurnPage, CloseBook, CloseMenu, FinishCardPrefetch, DismissError, Render,
                   browserVars, LimitsInv
<1> DEFINE model == SetModel(view, view.path, scanner.entries)
<1>2. model \in Views /\ OnAPage(model, scanner.entries) /\ Len(model.previews) <= MaxPreviews
  BY <1>1, ModelIsThere, ModelKeepsPreviews
<1>3. ASSUME NEW page \in 0 .. PageCount(view, scanner.entries) - 1
      PROVE  /\ [view EXCEPT !.page = page] \in Views
             /\ OnAPage([view EXCEPT !.page = page], scanner.entries)
             /\ Len([view EXCEPT !.page = page].previews) <= MaxPreviews
  <2> DEFINE w == [view EXCEPT !.page = page]
  <2>1. PageCount(view, scanner.entries) \in Nat
    BY <1>1, PagesThere
  <2>2. page \in Nat /\ page <= PageCount(view, scanner.entries) - 1
    BY <2>1
  <2>3. w \in Views /\ w.path = view.path /\ w.page = page /\ w.previews = view.previews
    BY <1>1, <2>2 DEF Views
  <2> HIDE DEF w
  <2>4. PageCount(w, scanner.entries) = PageCount(view, scanner.entries)
    BY <2>3 DEF PageCount, ItemCount, ParentItems
  <2> QED
    BY <1>1, <2>2, <2>3, <2>4 DEF OnAPage, w
<1>4. ASSUME NEW v \in Views, SchedulePreviews(v, scanner.entries),
             OnAPage(v, scanner.entries), Len(v.previews) <= MaxPreviews
      PROVE  LimitsInv'
  BY <1>1, <1>4, ScheduledLimits, ShownLimits
<1>5. CASE TurnPage
  <2>1. PICK page \in {view.page - 1, view.page, view.page + 1} \cap
                      0 .. PageCount(view, scanner.entries) - 1 :
          IF page # view.page
            THEN SchedulePreviews([view EXCEPT !.page = page], scanner.entries)
            ELSE dirty' = FALSE /\ UNCHANGED <<view, queue, parser, busy>>
    BY <1>5 DEF TurnPage
  <2>2. CASE page # view.page
    BY <1>3, <1>4, <2>1, <2>2
  <2>3. CASE page = view.page
    BY <1>1, <2>1, <2>3, ShownLimits DEF LimitsInv
  <2> QED
    BY <2>2, <2>3
<1>6. CASE CloseBook \/ CloseMenu \/ FinishCardPrefetch
  BY <1>1, <1>2, <1>4, <1>6 DEF CloseBook, CloseMenu, FinishCardPrefetch
<1>7. CASE DismissError \/ Render
  <2>1. PICK v \in {view, model} : Drawn(v, scanner.entries, TRUE) /\ queue' = queue
    BY <1>7 DEF DismissError, Render
  <2> HIDE DEF model
  <2>2. OnAPage(view', scanner.entries) /\ Len(view'.previews) <= MaxPreviews
    BY <1>1, <1>2, <2>1, DrawnLimits
  <2> QED
    BY <1>1, <2>1, <2>2, ShownLimits DEF LimitsInv
<1> QED
  BY <1>5, <1>6, <1>7

LEMMA ScanLimits ==
  ASSUME LibraryTypes, Apart(scanner), LimitsInv, Scan
  PROVE  LimitsInv'
<1>1. /\ view \in Views /\ view.path \in Folders /\ scanner.entries \in Seq(Listings)
      /\ Len(scanner.entries) <= MaxEntries /\ NoneTwice(scanner.entries)
      /\ OnAPage(view, scanner.entries) /\ Len(view.previews) <= MaxPreviews
      /\ restore.page \in Nat
  BY RoomFacts DEF LimitsInv
<1>2. scanner'.entries \in Seq(Listings)
  BY NextBatchTyped DEF Scan, Scanners
<1>3. /\ NoneTwice(scanner'.entries) /\ Len(scanner'.entries) <= MaxEntries
      /\ Len(scanner.entries) <= Len(scanner'.entries)
  <2>1. CASE BusFree
    <3>1. scanner' \in NextBatch(scanner, card, TRUE)
      BY <2>1 DEF Scan, NextBatch
    <3> QED
      BY <1>1, <3>1, BatchHolds
  <2>2. CASE ~BusFree
    <3>1. scanner' = scanner
      BY <2>2 DEF Scan, NextBatch
    <3> QED
      BY <1>1, <3>1, LenProperties
  <2> QED
    BY <2>1, <2>2
<1>4. OnAPage(view, scanner'.entries)
  BY <1>1, <1>2, <1>3, MorePages
<1>5. /\ OnAPage(view', scanner'.entries) /\ Len(view'.previews) <= MaxPreviews
      /\ Len(queue'.books) <= 2 * PageSize /\ queue'.index <= 2 * PageSize
  <2>1. CASE scanner'.running
    <3>1. Drawn(view, scanner'.entries, dirty) /\ queue' = queue
      BY <2>1 DEF Scan
    <3> QED
      BY <1>1, <1>2, <1>3, <1>4, <3>1, DrawnLimits DEF LimitsInv
  <2>2. CASE ~scanner'.running
    <3> DEFINE shown == SetModel(view, view.path, scanner'.entries)
    <3>1. PICK v \in {shown, SetPage(shown, scanner'.entries, restore.page)} :
            SchedulePreviews(v, scanner'.entries)
      BY <2>2 DEF Scan
    <3>2. /\ shown \in Views /\ shown.previews = view.previews
          /\ OnAPage(shown, scanner'.entries)
      BY <1>1, <1>2, ModelIsThere, ModelKeepsPreviews
    <3> HIDE DEF shown
    <3>3. v \in Views /\ v.previews = view.previews /\ OnAPage(v, scanner'.entries)
      BY <1>1, <1>2, <3>2, PageIsThere, PageKeepsPreviews
    <3> QED
      BY <1>1, <1>2, <1>3, <3>1, <3>3, ScheduledLimits
  <2> QED
    BY <2>1, <2>2
<1> QED
  BY <1>3, <1>5 DEF LimitsInv, OnAPage, PageCount, ItemCount, ParentItems

LEMMA ServiceLimits ==
  ASSUME LibraryInv, LimitsInv, ServiceLibraryPreviews
  PROVE  LimitsInv'
<1>1. /\ LibraryTypes /\ scanner' = scanner /\ queue.index < Len(queue.books)
      /\ queue.index \in Nat /\ Len(queue.books) \in Nat /\ queue \in Queues
      /\ view \in Views /\ scanner.entries \in Seq(Listings)
      /\ NoneTwice(scanner.entries) /\ OnAPage(view, scanner.entries)
      /\ Len(view.previews) <= MaxPreviews /\ Len(queue.books) <= 2 * PageSize
      /\ PageSize \in Nat
  BY RoomFacts DEF LibraryInv, LimitsInv, ServiceLibraryPreviews, Collecting, browserVars
<1>2. ASSUME NEW v \in Views, v.path = view.path, v.page = view.page,
             Len(v.previews) <= MaxPreviews, NEW p, Counted(v, p)
      PROVE  LimitsInv'
  <2> DEFINE complete == queue.index + 1 = queue.visible
             w == [v EXCEPT !.loading = @ /\ ~complete]
  <2>1. queue'.books = queue.books /\ queue'.index = queue.index + 1
    BY <1>1, <1>2 DEF Counted, Queues
  <2>2. Drawn(w, scanner.entries, complete)
    BY <1>2 DEF Counted
  <2>3. w \in Views /\ w.path = v.path /\ w.page = v.page /\ w.previews = v.previews
    BY <1>2 DEF Views
  <2> HIDE DEF w, complete
  <2>4. OnAPage(w, scanner.entries)
    BY <1>1, <1>2, <2>3, SamePages
  <2>5. OnAPage(view', scanner.entries) /\ Len(view'.previews) <= MaxPreviews
    BY <1>1, <1>2, <2>2, <2>3, <2>4, DrawnLimits
  <2> QED
    BY <1>1, <2>1, <2>5, ShownLimits
<1>3. ASSUME NEW book \in Books, NEW version \in Int, NEW p, Counted(SetPreview(view, book, version), p)
      PROVE  LimitsInv'
  <2> DEFINE w == SetPreview(view, book, version)
  <2>1. w \in Views /\ w.path = view.path
    BY <1>1, SetPreviewAdds
  <2>2. w.page = view.page
    BY <1>1 DEF SetPreview, Views
  <2>3. Len(w.previews) <= MaxPreviews
    BY <1>1, SetPreviewHolds
  <2>4. Counted(w, p)
    BY <1>3
  <2> HIDE DEF w
  <2> QED
    BY <1>2, <2>1, <2>2, <2>3, <2>4
<1>4. ASSUME NEW p, Counted(view, p)
      PROVE  LimitsInv'
  BY <1>1, <1>2, <1>4
<1>5. ASSUME queue' = [queue EXCEPT !.active = TRUE], UNCHANGED <<view, dirty>>
      PROVE  LimitsInv'
  <2>1. queue'.books = queue.books /\ queue'.index = queue.index
    BY <1>1, <1>5 DEF Queues
  <2> QED
    BY <1>1, <1>5, <2>1, ShownLimits DEF LimitsInv
<1> QED
  BY <1>3, <1>4, <1>5, ServiceDoes

LEMMA StepLimits ==
  ASSUME LibraryInv, LimitsInv, [Next]_vars
  PROVE  LimitsInv'
<1>1. LibraryTypes /\ Apart(scanner)
  BY DEF LibraryInv, ScanSound
<1>2. CASE \/ BeginUpload \/ EndUpload \/ DeleteBook \/ (StopPortal /\ ~changed)
           \/ BeginCardPrefetch \/ ScanCard \/ IndexCard \/ PanelIdles \/ UNCHANGED vars
  <2>1. UNCHANGED <<scanner, view, queue>>
    BY <1>2 DEF BeginUpload, EndUpload, DeleteBook, StopPortal, BeginCardPrefetch, ScanCard,
                IndexCard, PanelIdles, vars, browserVars
  <2> QED
    BY <1>1, <2>1, ShownLimits DEF LimitsInv
<1>3. CASE StartPortal \/ OpenMenu
  <2>1. UNCHANGED <<scanner, view>> /\ queue' = NoQueue
    BY <1>3 DEF StartPortal, OpenMenu, browserVars
  <2>2. Len(queue'.books) = 0 /\ queue'.index = 0 /\ PageSize \in Nat
    BY <2>1, EmptySeq, CardFacts DEF NoQueue
  <2> QED
    BY <1>1, <2>1, <2>2, ShownLimits DEF LimitsInv
<1>4. CASE OpenBook
  <2>1. scanner' = scanner /\ view \in Views /\ queue \in Queues
    BY <1>1, <1>4, RoomFacts DEF OpenBook, browserVars
  <2>2. view'.previews = <<>> /\ view'.path = view.path /\ view'.page = view.page
    BY <1>4, <2>1 DEF OpenBook, Views
  <2>3. Len(view'.previews) = 0 /\ MaxPreviews \in Nat
    BY <2>2, EmptySeq, CardFacts
  <2>4. OnAPage(view', scanner.entries)
    BY <2>2, SamePages DEF LimitsInv
  <2>5. queue'.books = queue.books /\ queue'.index = queue.index
    BY <1>4, <2>1 DEF OpenBook, Queues
  <2> QED
    BY <1>1, <2>1, <2>3, <2>4, <2>5, ShownLimits DEF LimitsInv
<1>5. CASE OpenFolder
  BY <1>1, <1>5, RoomFacts, BusIsFree, DirectoryLimits DEF OpenFolder, LimitsInv
<1>6. CASE OpenParent
  <2>1. Parent[view.path] \in Folders
    BY <1>1, <1>6, RoomFacts, CardFacts DEF OpenParent
  <2> QED
    BY <1>1, <1>6, <2>1, RoomFacts, BusIsFree, DirectoryLimits DEF OpenParent, LimitsInv
<1>7. CASE StopPortal /\ changed
  <2> DEFINE v == [view EXCEPT !.previews = <<>>]
  <2>1. v \in Views /\ v.previews = <<>>
    BY <1>1, RoomFacts, EmptySeq DEF Views
  <2>2. Len(v.previews) <= MaxPreviews
    BY <2>1, EmptySeq, CardFacts
  <2>3. StartDirectory(v, view.path, TRUE)
    BY <1>7 DEF StopPortal
  <2> HIDE DEF v
  <2> QED
    BY <1>1, <2>1, <2>2, <2>3, RoomFacts, DirectoryLimits
<1>8. CASE TurnPage \/ CloseBook \/ CloseMenu \/ FinishCardPrefetch \/ DismissError \/ Render
  BY <1>1, <1>8, BrowserLimits
<1>9. CASE Scan \/ ServiceLibraryPreviews
  BY <1>1, <1>9, ScanLimits, ServiceLimits
<1> QED
  BY <1>2, <1>3, <1>4, <1>5, <1>6, <1>7, <1>8, <1>9
     DEF Next, Portal, User, Tick, ServiceCardPrefetch

(***************************************************************************)
(* The type and the limits of the library's state: kMaxDirectoryEntries    *)
(* entries, a page there is, kMaximumRamPreviews previews, and a queue of  *)
(* two pages' books, however scans, drawings and covers interleave.        *)
(***************************************************************************)
THEOREM LibraryIsTyped == Spec => []LibraryTypeOK
<1>1. Init => LimitsInv
  <2> SUFFICES ASSUME Init PROVE LimitsInv
    OBVIOUS
  <2>1. LibraryTypes /\ scanner.entries = <<>>
    BY InitTypes DEF Init, StartScan, NewScanner
  <2>2. queue.books = <<>> /\ queue.index = 0 /\ view.previews = <<>> /\ view.page = 0
    BY DEF Init, NoQueue, NewView
  <2>3. Len(<<>>) = 0 /\ MaxEntries \in Nat /\ MaxPreviews \in Nat /\ PageSize \in Nat
    BY EmptySeq, CardFacts, CardAssumption
  <2>4. PageCount(view, scanner.entries) \in Nat \ {0}
    BY <2>1, RoomFacts, PagesThere
  <2> QED
    BY <2>1, <2>2, <2>3, <2>4 DEF LimitsInv, NoneTwice, OnAPage
<1>2. LibraryInv /\ LimitsInv /\ [Next]_vars => LimitsInv'
  BY StepLimits
<1>3. LibraryInv /\ LimitsInv => LibraryTypeOK
  <2> SUFFICES ASSUME LibraryInv, LimitsInv PROVE LibraryTypeOK
    OBVIOUS
  <2>1. LibraryTypes /\ (queue.active => parser.phase = "ReadPackage")
    BY DEF LibraryInv, ParserSound
  <2>2. Listings \subseteq Entries /\ Records \subseteq Entries
    BY VersionFacts, CardFacts DEF Listings, Records, Entries
  <2>3. Listed(scanner) \subseteq Entries
    BY <2>1, <2>2, RoomFacts, ListFinite DEF Listed
  <2>4. ToSet(queue.books) \subseteq Entries
    BY <2>1, <2>2, ListFinite DEF Queues, LibraryTypes, ToSet
  <2>5. \A slot \in Slots : cache[slot] = NoThumbnail \/
          cache[slot] \in [path : Books, stamp : 1 .. MaxVersion, version : 1 .. MaxVersion]
    BY <2>1 DEF LibraryTypes, Thumbnails, Versions
  <2>6. view.path \in Folders /\ view.page \in 0 .. PageCount(view, scanner.entries) - 1
    <3>1. view.page \in Nat /\ view.path \in Folders /\ PageCount(view, scanner.entries) \in Nat
      BY <2>1, RoomFacts, PagesThere DEF Views
    <3> QED
      BY <3>1 DEF LimitsInv, OnAPage
  <2>7. queue.index \in 0 .. 2 * PageSize
    BY <2>1, RoomFacts DEF LimitsInv
  <2>8. missing \subseteq Entries
    BY <2>1, <2>2 DEF LibraryTypes
  <2> QED
    BY <2>1, <2>3, <2>4, <2>5, <2>6, <2>7, <2>8 DEF LibraryTypeOK, LimitsInv, LibraryTypes, Lost
<1>4. Spec => []LimitsInv
  BY <1>1, <1>2, LibraryInvariant, PTL DEF Spec
<1> QED
  BY <1>3, <1>4, LibraryInvariant, PTL
=============================================================================
