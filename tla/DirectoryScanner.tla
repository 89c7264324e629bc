-------------------------- MODULE DirectoryScanner --------------------------
(***************************************************************************)
(* The card as the library sees it, and storage/DirectoryScanner, which    *)
(* lists one folder of it a batch at a time.  A book's version stands for  *)
(* its content; its size and modification time tell versions apart.        *)
(*                                                                         *)
(* Paths are numbers, in the order of compareCaseInsensitive().            *)
(***************************************************************************)
EXTENDS Integers, FiniteSets, SequencesExt

CONSTANTS
  Books,      \* the EPUB files there are or that a client may bring,
  Folders,    \* the folders,
  Others,     \* and the hidden and the other files
  Root,       \* "/"
  Parent,     \* the folder each of them is in
  Batch,      \* kDirectoryBatchSize
  MaxEntries  \* kMaxDirectoryEntries

Items == Books \cup (Folders \ {Root}) \cup Others

ASSUME CardAssumption ==
  /\ Books \cup Folders \cup Others \subseteq Nat /\ Root \in Folders
  /\ Books \cap Folders = {} /\ Others \cap (Books \cup Folders) = {}
  /\ IsFiniteSet(Items)
  /\ Parent \in [Items -> Folders]
  \* a path begins with that of its folder, which is therefore first
  /\ \A folder \in Folders \ {Root} : Parent[folder] < folder
  /\ {Batch, MaxEntries} \subseteq Nat \ {0}

Exists(version) == version > 0

Smaller(a, b) == IF a < b THEN a ELSE b

Entry(card, item) == [path |-> item, stamp |-> IF item \in Books THEN card[item] ELSE 0]

Holds(card, folder) ==
  {item \in Items : Parent[item] = folder /\ (item \in Books => Exists(card[item]))}

(* The members of a finite set in the order of a relation: the k-th of them *)
(* has k - 1 before it.                                                    *)
Ranked(S, before) ==
  [k \in 1 .. Cardinality(S) |->
     CHOOSE x \in S : Cardinality({y \in S : <<y, x>> \in before}) = k - 1]

(* The elements of a sequence at these indices, in its order *)
Pick(s, indices) ==
  LET order == Ranked(indices, {ij \in indices \X indices : ij[1] < ij[2]})
  IN [k \in DOMAIN order |-> s[order[k]]]

(* finish(): the folders first. *)
Before(a, b) ==
  IF (a.path \in Folders) = (b.path \in Folders) THEN a.path < b.path ELSE a.path \in Folders

Sorted(entries) ==
  Ranked(entries, {ab \in entries \X entries : Before(ab[1], ab[2])})

Listed(s) == {s.entries[i] : i \in DOMAIN s.entries}

NewScanner ==
  [path |-> Root, running |-> FALSE, unread |-> {}, entries |-> <<>>,
   truncated |-> FALSE, failed |-> FALSE]

(* start(): without the bus nothing changes; the folder may not open. *)
StartScan(s, card, folder, busFree) ==
  IF ~busFree THEN {s}
  ELSE {[NewScanner EXCEPT !.path = folder, !.running = TRUE, !.unread = Holds(card, folder)],
        [NewScanner EXCEPT !.path = folder, !.failed = TRUE]}

(* Mutated: what finds no room is left out without a word. *)
TakeSilently(s, card, batch, kept) ==
  [s EXCEPT !.unread = @ \ batch, !.running = Cardinality(s.unread) >= Batch,
            !.entries = Sorted(Listed(s) \cup {Entry(card, item) : item \in kept})]

(* What one batch leaves, of which the entries "kept" found room. *)
Take(s, card, batch, kept) ==
  [s EXCEPT !.unread = @ \ batch, !.running = Cardinality(s.unread) >= Batch,
            !.entries = Sorted(Listed(s) \cup {Entry(card, item) : item \in kept}),
            !.truncated = @ \/ kept # {item \in batch \ Others :
                                          item \in Books => Exists(card[item])}]

(* Any entries, as the card orders them; the end is noticed by a batch that *)
(* it cuts short.                                                          *)
Batches(unread, size) ==
  {b \in SUBSET unread : Cardinality(b) = size \/ (b = unread /\ Cardinality(b) < size)}

(* processNextBatch(); what went since the folder was opened is not found. *)
NextBatch(s, card, busFree) ==
  IF ~busFree THEN {s}
  ELSE UNION
    {LET wanted == {item \in batch \ Others : item \in Books => Exists(card[item])}
         most == Smaller(Cardinality(wanted), MaxEntries - Len(s.entries))
     IN {Take(s, card, batch, kept) : kept \in kSubset(most, wanted)} :
     batch \in Batches(s.unread, Batch)}
=============================================================================
