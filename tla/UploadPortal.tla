---------------------------- MODULE UploadPortal ----------------------------
(***************************************************************************)
(* The web portal's file service (net/WebPortalService, net/PortalPath):   *)
(* requests that take the SPI bus for one answer, and an upload, which     *)
(* takes it at UPLOAD_FILE_START, writes name.part and, when all of it     *)
(* arrived, renames it.                                                    *)
(*                                                                         *)
(* The HTTP server is not the project's: it serves one client at a time    *)
(* and delivers the callbacks of an upload in order, START, any number of  *)
(* WRITE, END or ABORTED, and then the handler of the request.  One call   *)
(* of handleClient() may deliver all of them or return between any two.    *)
(* Of the card we assume that a removal succeeds; opening, writing and     *)
(* renaming may fail, and the power may go between any two calls.          *)
(***************************************************************************)
EXTENDS Integers, Sequences, FiniteSets

CONSTANTS
  Folders,     \* the folders a client names, as sequences of segments
  Names,       \* the file names it uploads, all of them .epub
  SafeName,    \* sanitizeName(): what the card is given for a name
  MaxSegments, \* stands for kMaximumPathLength
  MaxChunks,   \* bound on the data of an upload
  MediaFaults  \* whether opening, writing and renaming may fail

ASSUME PortalAssumption ==
  /\ SafeName \in [Names -> Names] /\ MaxSegments \in Nat /\ MaxChunks \in Nat \ {0}
  /\ MediaFaults \in BOOLEAN /\ \A folder \in Folders : folder \in Seq(STRING)

VARIABLES
  portal,  \* the WebPortalService
  request, \* what the server delivers next of an upload, if one is on
  files,   \* what the card holds under a book's name,
  parts,   \* and how many chunks in its .part file
  bus,     \* the owner of the SPI bus
  changed, \* portalLibraryChanged_, set by the onActivity hook
  owned,   \* the books the card once held whole and no client deleted
  orphans  \* the .part files that a power loss left behind

portalVars == <<portal, request, files, parts, bus, changed, owned, orphans>>

NoFile == -1
NoPath == <<>>

(***************************************************************************)
(* portal_path::resolve(): empty segments and "." vanish, ".." anywhere    *)
(* and a path that is too long are refused.  The portal's root is "/"; a   *)
(* file is its folder and its name.                                        *)
(***************************************************************************)
Segments(path) == SelectSeq(path, LAMBDA segment : segment \notin {"", "."})
Refused(path) ==
  \/ \E i \in 1 .. Len(path) : path[i] = ".."
  \/ Len(Segments(path)) > MaxSegments
Target(folder, name) == <<Segments(folder), SafeName[name]>>

Paths == {Target(folder, name) : folder \in {f \in Folders : ~Refused(f)}, name \in Names}

Gone(path) == IF path = NoPath THEN parts ELSE [parts EXCEPT ![path] = NoFile]

NewPortal ==
  [running |-> FALSE, guard |-> FALSE, failed |-> FALSE, responded |-> FALSE,
   final |-> NoPath, part |-> NoPath, written |-> 0, expected |-> 0, idle |-> 0]

PortalInit ==
  /\ portal = NewPortal /\ request = "none" /\ bus = "None" /\ changed = FALSE
  /\ files \in [Paths -> {"none", "whole"}]
  /\ parts = [path \in Paths |-> NoFile]
  /\ owned = {path \in Paths : files[path] = "whole"}
  /\ orphans = {}
-----------------------------------------------------------------------------
(* begin() *)
Started(p) == [p EXCEPT !.running = TRUE, !.idle = 0]

Aborted(p) == [p EXCEPT !.failed = TRUE, !.guard = FALSE]

(* What an upload did not get to is forgotten with it; how it went and     *)
(* whether it was answered is kept for the next request.                   *)
Rested(p) == [p EXCEPT !.final = NoPath, !.written = 0, !.expected = 0]

(* Mutated: the file is closed and left. *)
AbortKeepingPart(p) ==
  portal' = Aborted(p) /\ bus' = "None" /\ UNCHANGED <<parts, orphans>>

(* abortUpload(), release() included.  The path may be an earlier upload's. *)
AbortUpload(p) ==
  /\ portal' = Aborted(p)
  /\ parts' = Gone(p.part)
  /\ orphans' = orphans \ {p.part}
  /\ bus' = "None"

(* end() *)
EndPortal ==
  /\ request' = "none"
  /\ portal' = [Rested(IF portal.guard THEN Aborted(portal) ELSE portal)
                  EXCEPT !.running = FALSE, !.idle = 0]
  /\ bus' = IF portal.guard THEN "None" ELSE bus
  /\ parts' = IF portal.guard THEN Gone(portal.part) ELSE parts
  /\ orphans' = IF portal.guard THEN orphans \ {portal.part} ELSE orphans

Serving == portal.running /\ request = "none" /\ bus = "None"

(* routeRoot(), routeList(), routeStatus(), and what is refused by the others *)
Browse ==
  /\ Serving
  /\ portal' = [portal EXCEPT !.idle = 0]
  /\ UNCHANGED <<request, files, parts, bus, changed, owned, orphans>>

(* routeMkdir(); folders are there whether or not they were made. *)
MakeFolder ==
  /\ Serving
  /\ portal' = [portal EXCEPT !.idle = 0]
  /\ changed' = TRUE
  /\ UNCHANGED <<request, files, parts, bus, owned, orphans>>

(* routeDelete() *)
Delete(path) ==
  /\ Serving /\ files[path] # "none"
  /\ portal' = [portal EXCEPT !.idle = 0]
  /\ files' = [files EXCEPT ![path] = "none"]
  /\ owned' = owned \ {path}
  /\ changed' = TRUE
  /\ UNCHANGED <<request, parts, bus, orphans>>
-----------------------------------------------------------------------------
(* routeUploadData(), UPLOAD_FILE_START; nothing but the flags is reset. *)
Fresh(size) ==
  [portal EXCEPT !.failed = FALSE, !.responded = FALSE, !.written = 0,
                 !.expected = size, !.idle = 0]

(* Mutated: the older book makes room before the new one has come. *)
StartUploadAfresh(folder, name, size) ==
  LET path == Target(folder, name)
  IN  /\ Serving /\ request' = "started" /\ ~Refused(folder) /\ size > 0
      /\ portal' = [Fresh(size) EXCEPT !.guard = TRUE, !.final = path, !.part = path]
      /\ files' = [files EXCEPT ![path] = "none"]
      /\ parts' = [parts EXCEPT ![path] = 0]
      /\ orphans' = orphans \ {path}
      /\ bus' = "SdCard"
      /\ UNCHANGED <<changed, owned>>

StartUpload(folder, name, size) ==
  LET begun == [Fresh(size) EXCEPT !.guard = TRUE]
      path == Target(folder, name)
      named == [begun EXCEPT !.final = path, !.part = path]
  IN  /\ Serving /\ request' = "started"
      /\ \/ /\ Refused(folder)
            /\ portal' = [Fresh(size) EXCEPT !.failed = TRUE, !.responded = TRUE]
            /\ UNCHANGED <<parts, bus, orphans>>
         \* no room on the card, or not an EPUB
         \/ ~Refused(folder) /\ AbortUpload(begun)
         \* it cannot be opened
         \/ ~Refused(folder) /\ MediaFaults /\ size > 0 /\ AbortUpload(named)
         \/ /\ ~Refused(folder) /\ size > 0
            /\ portal' = named
            /\ parts' = [parts EXCEPT ![path] = 0]
            /\ orphans' = orphans \ {path}
            /\ bus' = "SdCard"
      /\ UNCHANGED <<files, changed, owned>>

Receiving == request = "started" /\ ~portal.failed /\ portal.guard

(* UPLOAD_FILE_WRITE; what is left of a failed upload is ignored. *)
WriteUpload ==
  /\ Receiving /\ portal.written < MaxChunks
  /\ \/ /\ portal' = [portal EXCEPT !.written = @ + 1]
        /\ parts' = [parts EXCEPT ![portal.part] = @ + 1]
        /\ UNCHANGED <<bus, orphans>>
     \/ MediaFaults /\ AbortUpload(portal)
  /\ UNCHANGED <<request, files, changed, owned>>

(* Mutated: what arrived is the book. *)
EndUploadUnchecked ==
  /\ request = "started"
  /\ \/ ~Receiving /\ request' = "ended" /\ UNCHANGED files
     \/ /\ Receiving /\ request' = "renaming"
        /\ files' = [files EXCEPT ![portal.final] = "none"]
  /\ UNCHANGED <<portal, parts, bus, changed, owned, orphans>>

(* UPLOAD_FILE_END; an older book of that name goes before the rename. *)
EndUpload ==
  /\ request = "started"
  /\ \/ /\ ~Receiving
        /\ request' = "ended" /\ UNCHANGED <<portal, files, parts, bus, orphans>>
     \/ /\ Receiving /\ portal.written # portal.expected
        /\ request' = "ended" /\ AbortUpload(portal) /\ UNCHANGED files
     \/ /\ Receiving /\ portal.written = portal.expected
        /\ request' = "renaming"
        /\ files' = [files EXCEPT ![portal.final] = "none"]
        /\ UNCHANGED <<portal, parts, bus, orphans>>
  /\ UNCHANGED <<changed, owned>>

(* Mutated: rename() is not asked how it went. *)
RenameUnchecked ==
  /\ request = "renaming" /\ request' = "ended"
  /\ files' \in {files, [files EXCEPT ![portal.final] = "whole"]}
  /\ parts' = Gone(portal.part)
  /\ portal' = [portal EXCEPT !.guard = FALSE] /\ bus' = "None"
  /\ changed' = TRUE
  /\ UNCHANGED <<owned, orphans>>

RenameUpload ==
  /\ request = "renaming" /\ request' = "ended"
  /\ \/ /\ files' = [files EXCEPT ![portal.final] =
                       IF parts[portal.part] = portal.expected THEN "whole" ELSE "torn"]
        /\ parts' = Gone(portal.part)
        /\ owned' = owned \cup {portal.final}
        /\ portal' = [portal EXCEPT !.guard = FALSE] /\ bus' = "None"
        /\ changed' = TRUE
        /\ UNCHANGED orphans
     \/ /\ MediaFaults /\ AbortUpload(portal)
        /\ UNCHANGED <<files, changed, owned>>

(* Mutated: the upload is given up, the bus is not. *)
LoseClientOnly ==
  /\ request = "started" /\ request' = "none"
  /\ portal' = [Rested(portal) EXCEPT !.failed = TRUE]
  /\ UNCHANGED <<files, parts, bus, changed, owned, orphans>>

(* UPLOAD_FILE_ABORTED: the client went away, and nobody waits for an answer. *)
LoseClient ==
  /\ request = "started" /\ request' = "none"
  /\ \/ portal.guard /\ AbortUpload(Rested(portal))
     \/ /\ ~portal.guard /\ portal' = [Rested(portal) EXCEPT !.failed = TRUE]
        /\ UNCHANGED <<parts, bus, orphans>>
  /\ UNCHANGED <<files, changed, owned>>

(***************************************************************************)
(* routeUploadComplete(), after the callbacks of an upload.  A POST that   *)
(* brings no file has none, so it finds the flags of the last upload, or   *)
(* those of the boot, and may be answered 201 by the latter.               *)
(***************************************************************************)
Answered(p) == [Rested(p) EXCEPT !.responded = TRUE, !.idle = 0]

CompleteUpload ==
  /\ request = "ended" /\ request' = "none"
  /\ portal' = Answered(portal)
  /\ UNCHANGED <<files, parts, bus, changed, owned, orphans>>

PostWithoutFile ==
  /\ Serving
  /\ portal' = Answered(portal)
  /\ UNCHANGED <<request, files, parts, bus, changed, owned, orphans>>

(* What the client is told *)
Answers201 == ~portal.responded /\ portal'.responded /\ ~portal.failed /\ ~portal'.failed

HandleClient ==
  \/ Browse \/ MakeFolder \/ \E path \in Paths : Delete(path)
  \/ \E folder \in Folders, name \in Names, size \in 0 .. MaxChunks :
       StartUpload(folder, name, size)
  \/ WriteUpload \/ EndUpload \/ RenameUpload \/ LoseClient \/ CompleteUpload
  \/ PostWithoutFile

(* The power goes, and the reader boots. *)
LosePower ==
  /\ portal' = NewPortal /\ request' = "none" /\ bus' = "None" /\ changed' = FALSE
  /\ orphans' = {path \in Paths : parts[path] # NoFile}
  /\ UNCHANGED <<files, parts, owned>>

(* The portal by itself, started and stopped at any time between callbacks. *)
StartPortal ==
  /\ ~portal.running /\ portal' = Started(portal)
  /\ UNCHANGED <<request, files, parts, bus, changed, owned, orphans>>

StopPortal ==
  /\ portal.running /\ request # "renaming"
  /\ EndPortal
  /\ UNCHANGED <<files, changed, owned>>

PortalNext == StartPortal \/ StopPortal \/ HandleClient \/ LosePower

PortalSpec == PortalInit /\ [][PortalNext]_portalVars
-----------------------------------------------------------------------------
PortalTypeOK ==
  /\ portal \in [running : BOOLEAN, guard : BOOLEAN, failed : BOOLEAN, responded : BOOLEAN,
                 final : Paths \cup {NoPath}, part : Paths \cup {NoPath},
                 written : 0 .. MaxChunks, expected : 0 .. MaxChunks, idle : Nat]
  /\ request \in {"none", "started", "renaming", "ended"}
  /\ files \in [Paths -> {"none", "whole", "torn"}]
  /\ parts \in [Paths -> {NoFile} \cup 0 .. MaxChunks]
  /\ bus \in {"None", "SdCard"} /\ changed \in BOOLEAN
  /\ owned \subseteq Paths /\ orphans \subseteq Paths

(***************************************************************************)
(* "Não pode existir .epub truncado" (docs/hardware-test-plan.md:231):     *)
(* a book's name never stands for a part of it, however the client, the    *)
(* card or the power interrupts an upload.                                 *)
(***************************************************************************)
NoTruncatedBook == \A path \in Paths : files[path] # "torn"

(***************************************************************************)
(* The bus belongs to the portal exactly while an upload is received: no   *)
(* path through the callbacks, or around them when the portal is stopped,  *)
(* keeps the card from the reader or releases it under an upload.          *)
(***************************************************************************)
BusFollowsUpload ==
  /\ (bus = "SdCard") = portal.guard
  /\ portal.guard => portal.running /\ request \in {"started", "renaming"}

(***************************************************************************)
(* "o .part temporário deve ser removido" (docs/hardware-test-plan.md:232):*)
(* what an upload wrote is gone when it is over, unless the power went.    *)
(***************************************************************************)
NoPartLeft ==
  \A path \in Paths :
    parts[path] # NoFile => path \in orphans \/ (portal.guard /\ path = portal.part)

(***************************************************************************)
(* An upload is answered 201 only when its book is on the card, whole:     *)
(* the flags routeUploadComplete() reads are this upload's, whatever ended *)
(* the ones before it.                                                     *)
(***************************************************************************)
CreatedMeansWhole ==
  [][request = "ended" /\ Answers201 => files[portal.final] = "whole"]_portalVars

(***************************************************************************)
(* Until all of a new book is on the card, the older book of its name      *)
(* stays: no callback, no failure and no stop takes a book away before a   *)
(* complete .part file stands ready to follow it.                          *)
(***************************************************************************)
Goes(path) == files[path] = "whole" /\ files'[path] # "whole" /\ path \in owned'
OnlyWholeReplaces ==
  [][\A path \in owned : Goes(path) =>
       portal.guard /\ portal.final = path /\ parts[path] = portal.expected]_portalVars

(***************************************************************************)
(* "prevent path traversal, accidental overwrite and incomplete files      *)
(* through atomic writes" (docs/roadmap.md:20-21): a book the card held is *)
(* there, in its old form or in a new one, until a client deletes it.      *)
(***************************************************************************)
UploadKeepsBooks ==
  request # "renaming" => \A path \in owned : files[path] = "whole"
=============================================================================
