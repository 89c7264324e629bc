-------------------------- MODULE FileBrowserView --------------------------
(***************************************************************************)
(* The library's view (ui/FileBrowserView): a page of the scanner's list,  *)
(* whose entries it points to, and the thumbnails in memory, here in the   *)
(* order of their last use.  What it draws, the footer apart, is left out. *)
(***************************************************************************)
EXTENDS LibraryThumbnailCache

CONSTANTS
  PageSize,    \* itemsPerPage()
  MaxPreviews  \* kMaximumRamPreviews

ASSUME ViewAssumption == {PageSize, MaxPreviews} \subseteq Nat \ {0}

NewView(folder) == [path |-> folder, page |-> 0, loading |-> FALSE, previews |-> <<>>]

(* visibleItemCount(): ".." comes first, except in the root. *)
ParentItems(view) == IF view.path = Root THEN 0 ELSE 1
ItemCount(view, entries) == ParentItems(view) + Len(entries)

PageCount(view, entries) ==
  IF ItemCount(view, entries) = 0 THEN 1
  ELSE (ItemCount(view, entries) + PageSize - 1) \div PageSize

SetPage(view, entries, page) ==
  [view EXCEPT !.page = Smaller(page, PageCount(view, entries) - 1)]

(* setModel() *)
SetModel(view, folder, entries) ==
  SetPage([view EXCEPT !.path = folder], entries, IF view.path = folder THEN view.page ELSE 0)

(* The entries on a page, and of those the books, as visibleBooks() lists them. *)
EntriesOn(view, entries, page) ==
  LET first == page * PageSize + 1 - ParentItems(view)
      last == first + PageSize - 1
  IN SubSeq(entries, IF first < 1 THEN 1 ELSE first, Smaller(last, Len(entries)))

BooksOn(view, entries, page) ==
  LET shown == EntriesOn(view, entries, page)
  IN Pick(shown, {i \in DOMAIN shown : shown[i].path \in Books})
VisibleBooks(view, entries) == BooksOn(view, entries, view.page)

HasPreview(view, book) == \E i \in DOMAIN view.previews : view.previews[i].path = book

(* setPreview(): the one unused for longest goes. *)
SetPreview(view, book, version) ==
  LET others == {i \in DOMAIN view.previews : view.previews[i].path # book}
      all == Append(Pick(view.previews, others), [path |-> book, version |-> version])
  IN [view EXCEPT !.previews = IF Len(all) > MaxPreviews THEN Tail(all) ELSE all]

(* Mutated: the time of use is that of loading. *)
RenderedUnstamped(view, entries) == view

(* render() stamps the thumbnails it draws. *)
Rendered(view, entries) ==
  LET drawn == VisibleBooks(view, entries)
      used == Pick(drawn, {i \in DOMAIN drawn : HasPreview(view, drawn[i].path)})
      unused == {i \in DOMAIN view.previews :
                   \A j \in DOMAIN drawn : drawn[j].path # view.previews[i].path}
      Of(book) == CHOOSE p \in ToSet(view.previews) : p.path = book
  IN [view EXCEPT !.previews = Pick(@, unused) \o [i \in DOMAIN used |-> Of(used[i].path)]]
=============================================================================
