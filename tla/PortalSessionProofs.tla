------------------------ MODULE PortalSessionProofs ------------------------
(***************************************************************************)
(* Proofs about the upload portal.  First its file service, for any        *)
(* folders and names, uploads of any length and a card that may fail: what *)
(* an interrupted upload leaves on the card and on the bus.  Then the      *)
(* portal as the application runs it, for any networks and any timeouts:   *)
(* the server stays on a live radio, the library is made anew before the   *)
(* radio goes, and a network is remembered with the password it was joined *)
(* with.                                                                   *)
(***************************************************************************)
EXTENDS PortalSession, TLAPS

(***************************************************************************)
(* The file service. What its properties need beyond their own statements  *)
(* is how the flags of the upload follow the callbacks: an upload with the *)
(* bus writes the part of the book it names, one without it has failed,    *)
(* the rename is reached with all of the data only, and an upload that is  *)
(* over and has not failed left its book on the card.                      *)
(***************************************************************************)
NamesItsPart == portal.guard => portal.part \in Paths /\ portal.final = portal.part
NotFailedYet == portal.guard => ~portal.failed /\ parts[portal.part] = portal.written
OverIsFailed == request = "started" /\ ~portal.guard => portal.failed
AllArrived == request = "renaming" => portal.guard /\ portal.written = portal.expected
ArrivedIsWhole == request = "ended" /\ ~portal.failed => files[portal.final] = "whole"
HeldIsOwned == \A path \in Paths : files[path] = "whole" => path \in owned

PortalInv ==
  /\ PortalTypeOK
  /\ NamesItsPart /\ NotFailedYet /\ OverIsFailed /\ AllArrived
  /\ NoTruncatedBook /\ BusFollowsUpload /\ NoPartLeft /\ ArrivedIsWhole /\ HeldIsOwned

PortalStates ==
  [running : BOOLEAN, guard : BOOLEAN, failed : BOOLEAN, responded : BOOLEAN,
   final : Paths \cup {NoPath}, part : Paths \cup {NoPath},
   written : 0 .. MaxChunks, expected : 0 .. MaxChunks, idle : Nat]
-----------------------------------------------------------------------------
(* A file has a path. *)
LEMMA NoPathIsNone == NoPath \notin Paths
BY DEF NoPath, Paths, Target

(* Where an upload goes. *)
LEMMA TargetIsPath ==
  ASSUME NEW folder \in Folders, NEW name \in Names, ~Refused(folder)
  PROVE  Target(folder, name) \in Paths
BY DEF Paths

(* Removing a part changes no other. *)
LEMMA GoneType ==
  ASSUME parts \in [Paths -> {NoFile} \cup 0 .. MaxChunks], NEW path \in Paths \cup {NoPath}
  PROVE  /\ Gone(path) \in [Paths -> {NoFile} \cup 0 .. MaxChunks]
         /\ \A other \in Paths :
              Gone(path)[other] = IF other = path THEN NoFile ELSE parts[other]
BY NoPathIsNone DEF Gone

(* abortUpload() at any callback leaves neither the bus nor a part. *)
LEMMA AbortInv ==
  ASSUME PortalInv, NEW p \in PortalStates, AbortUpload(p),
         portal.guard => p.part = portal.part,
         request' \in {"none", "started", "ended"}, UNCHANGED <<files, changed, owned>>
  PROVE  PortalInv'
<1> USE PortalAssumption DEF PortalInv, PortalTypeOK
<1>1. portal' \in PortalStates /\ portal'.failed = TRUE /\ portal'.guard = FALSE
  BY DEF AbortUpload, Aborted, PortalStates
<1>2. parts' = Gone(p.part) /\ orphans' = orphans \ {p.part} /\ bus' = "None"
  BY DEF AbortUpload
<1>3. PortalTypeOK'
  BY <1>1, <1>2, GoneType DEF PortalStates
<1>4. NoPartLeft'
  BY <1>1, <1>2, GoneType DEF PortalStates, NoPartLeft
<1>5. (NamesItsPart /\ NotFailedYet /\ OverIsFailed /\ AllArrived)'
  BY <1>1 DEF NamesItsPart, NotFailedYet, OverIsFailed, AllArrived
<1>6. (NoTruncatedBook /\ ArrivedIsWhole /\ HeldIsOwned)'
  BY <1>1 DEF NoTruncatedBook, ArrivedIsWhole, HeldIsOwned
<1>7. BusFollowsUpload'
  BY <1>1, <1>2 DEF BusFollowsUpload
<1> QED
  BY <1>3, <1>4, <1>5, <1>6, <1>7

(* Starting the server, and the idle clock, touch nothing else. *)
LEMMA StartInv ==
  ASSUME PortalInv, NEW n \in Nat, changed' \in BOOLEAN,
         \/ portal' = [portal EXCEPT !.running = TRUE, !.idle = n]
         \/ portal' = [portal EXCEPT !.idle = n],
         UNCHANGED <<request, files, parts, bus, owned, orphans>>
  PROVE  PortalInv'
<1> USE DEF PortalInv, PortalTypeOK, PortalStates
<1>1. /\ portal' \in PortalStates /\ (portal.running => portal'.running)
      /\ portal'.guard = portal.guard /\ portal'.failed = portal.failed
      /\ portal'.responded = portal.responded /\ portal'.final = portal.final
      /\ portal'.part = portal.part /\ portal'.written = portal.written
      /\ portal'.expected = portal.expected
  OBVIOUS
<1>2. PortalTypeOK'
  BY <1>1
<1>3. (NamesItsPart /\ NotFailedYet /\ OverIsFailed /\ AllArrived)'
  BY <1>1 DEF NamesItsPart, NotFailedYet, OverIsFailed, AllArrived
<1>4. (NoTruncatedBook /\ BusFollowsUpload /\ NoPartLeft /\ ArrivedIsWhole /\ HeldIsOwned)'
  BY <1>1 DEF NoTruncatedBook, BusFollowsUpload, NoPartLeft, ArrivedIsWhole, HeldIsOwned
<1> QED
  BY <1>2, <1>3, <1>4

(* end() between two callbacks gives the upload up with the server. *)
LEMMA EndPortalInv ==
  ASSUME PortalInv, EndPortal, changed' \in BOOLEAN, UNCHANGED <<files, owned>>
  PROVE  PortalInv'
<1> USE PortalAssumption DEF PortalInv, PortalTypeOK
<1>1. /\ portal' \in PortalStates /\ portal'.guard = FALSE /\ portal'.part = portal.part
      /\ request' = "none"
  <2>1. portal.part \in Paths \cup {NoPath}
    OBVIOUS
  <2>2. PICK p \in PortalStates :
          /\ p.part = portal.part /\ p.guard = FALSE
          /\ portal' = [Rested(p) EXCEPT !.running = FALSE, !.idle = 0]
    <3>1. CASE portal.guard
      <4>1. Aborted(portal) \in PortalStates /\ Aborted(portal).part = portal.part
            /\ Aborted(portal).guard = FALSE
        BY DEF Aborted, PortalStates
      <4> QED
        BY <3>1, <4>1 DEF EndPortal
    <3>2. CASE ~portal.guard
      BY <3>2 DEF EndPortal, PortalStates
    <3> QED
      BY <3>1, <3>2
  <2>3. portal'.guard = FALSE /\ portal'.part = portal.part
    BY <2>2 DEF Rested, PortalStates
  <2>4. 0 \in Nat /\ 0 \in 0 .. MaxChunks
    OBVIOUS
  <2>5. portal' \in PortalStates
    BY <2>2, <2>4 DEF Rested, PortalStates
  <2> QED
    BY <2>3, <2>5 DEF EndPortal
<1>2. CASE portal.guard
  <2>1. portal.part \in Paths /\ bus' = "None"
    BY <1>2 DEF NamesItsPart, EndPortal
  <2>2. parts' = Gone(portal.part) /\ orphans' = orphans \ {portal.part}
    BY <1>2 DEF EndPortal
  <2>3. PortalTypeOK' /\ NoPartLeft'
    BY <1>1, <2>1, <2>2, GoneType DEF PortalStates, NoPartLeft
  <2> QED
    BY <1>1, <2>1, <2>3 DEF NamesItsPart, NotFailedYet, OverIsFailed, AllArrived,
       NoTruncatedBook, BusFollowsUpload, ArrivedIsWhole, HeldIsOwned
<1>3. CASE ~portal.guard
  <2>1. UNCHANGED <<bus, parts, orphans>> /\ bus' = "None"
    BY <1>3 DEF EndPortal, BusFollowsUpload
  <2>2. PortalTypeOK' /\ NoPartLeft'
    BY <1>1, <1>3, <2>1 DEF PortalStates, NoPartLeft
  <2> QED
    BY <1>1, <2>1, <2>2 DEF NamesItsPart, NotFailedYet, OverIsFailed, AllArrived,
       NoTruncatedBook, BusFollowsUpload, ArrivedIsWhole, HeldIsOwned
<1> QED
  BY <1>2, <1>3

(* Deleting a book while no upload is on *)
LEMMA DeleteInv ==
  ASSUME PortalInv, NEW path \in Paths, Delete(path)
  PROVE  PortalInv'
<1>1. portal' = [portal EXCEPT !.idle = 0] /\ request' = "none" /\ portal \in PortalStates
  BY DEF PortalInv, PortalTypeOK, PortalStates, Delete, Serving
<1>2. /\ portal' \in PortalStates /\ portal'.running = portal.running
      /\ portal'.guard = portal.guard /\ portal'.failed = portal.failed
      /\ portal'.part = portal.part /\ portal'.written = portal.written
      /\ portal'.final = portal.final
  BY <1>1 DEF PortalStates
<1> USE DEF PortalInv, PortalTypeOK, Delete, Serving
<1>3. PortalTypeOK'
  BY <1>1, <1>2 DEF PortalStates
<1>4. (NamesItsPart /\ NotFailedYet /\ OverIsFailed /\ AllArrived)'
  BY <1>1, <1>2 DEF NamesItsPart, NotFailedYet, OverIsFailed, AllArrived
<1>5. (NoTruncatedBook /\ BusFollowsUpload /\ NoPartLeft /\ ArrivedIsWhole /\ HeldIsOwned)'
  BY <1>1, <1>2 DEF NoTruncatedBook, BusFollowsUpload, NoPartLeft, ArrivedIsWhole, HeldIsOwned
<1> QED
  BY <1>3, <1>4, <1>5

(* UPLOAD_FILE_START, refused, given up or begun *)
LEMMA StartUploadInv ==
  ASSUME PortalInv, NEW folder \in Folders, NEW name \in Names, NEW size \in 0 .. MaxChunks,
         StartUpload(folder, name, size)
  PROVE  PortalInv'
<1> DEFINE path == Target(folder, name)
<1> DEFINE begun == [Fresh(size) EXCEPT !.guard = TRUE]
<1> DEFINE named == [begun EXCEPT !.final = path, !.part = path]
<1>1. /\ portal \in PortalStates /\ portal.running /\ portal.guard = FALSE /\ request' = "started"
      /\ UNCHANGED <<files, changed, owned>>
  BY DEF PortalInv, PortalTypeOK, BusFollowsUpload, PortalStates, StartUpload, Serving
<1>2. Fresh(size) \in PortalStates /\ Fresh(size).running = portal.running
      /\ Fresh(size).guard = portal.guard /\ Fresh(size).written = 0
      /\ Fresh(size).failed = FALSE
  <2>1. 0 \in 0 .. MaxChunks /\ 0 \in Nat
    BY PortalAssumption
  <2>2. Fresh(size) \in PortalStates
    BY <1>1, <2>1 DEF Fresh, PortalStates
  <2> QED
    BY <1>1, <2>2 DEF Fresh, PortalStates
<1>3. begun \in PortalStates /\ begun.running = portal.running /\ begun.guard = TRUE
      /\ begun.written = 0 /\ begun.failed = FALSE
  BY <1>1, <1>2 DEF PortalStates
<1>4. CASE ~Refused(folder)
  <2>1. path \in Paths
    BY <1>4, TargetIsPath
  <2>2. named \in PortalStates /\ named.running = portal.running /\ named.guard = TRUE
        /\ named.written = 0 /\ named.failed = FALSE
        /\ named.part = path /\ named.final = path
    BY <1>3, <2>1 DEF PortalStates
  <2>3. CASE AbortUpload(begun)
    BY <1>1, <1>3, <2>3, AbortInv
  <2>4. CASE AbortUpload(named)
    BY <1>1, <2>2, <2>4, AbortInv
  <2>5. CASE /\ portal' = named /\ parts' = [parts EXCEPT ![path] = 0]
             /\ orphans' = orphans \ {path} /\ bus' = "SdCard"
    <3> HIDE DEF named, path
    <3>1. PortalTypeOK'
      BY <1>1, <2>1, <2>2, <2>5, PortalAssumption DEF PortalInv, PortalTypeOK, PortalStates
    <3>2. NoPartLeft'
      BY <1>1, <2>1, <2>2, <2>5, PortalAssumption DEF PortalInv, PortalTypeOK, NoPartLeft
    <3>3. (NamesItsPart /\ NotFailedYet /\ OverIsFailed /\ AllArrived)'
      BY <1>1, <2>1, <2>2, <2>5 DEF PortalInv, PortalTypeOK, NamesItsPart, NotFailedYet,
         OverIsFailed, AllArrived
    <3>4. (NoTruncatedBook /\ BusFollowsUpload /\ ArrivedIsWhole /\ HeldIsOwned)'
      BY <1>1, <2>2, <2>5 DEF PortalInv, NoTruncatedBook, BusFollowsUpload,
         ArrivedIsWhole, HeldIsOwned
    <3> QED
      BY <3>1, <3>2, <3>3, <3>4 DEF PortalInv
  <2> QED
    BY <1>4, <2>3, <2>4, <2>5 DEF StartUpload
<1>5. CASE Refused(folder)
  <2>1. /\ portal' = [Fresh(size) EXCEPT !.failed = TRUE, !.responded = TRUE]
        /\ UNCHANGED <<parts, bus, orphans>>
    BY <1>5 DEF StartUpload
  <2>2. portal' \in PortalStates /\ portal'.running = portal.running
        /\ portal'.guard = FALSE /\ portal'.failed = TRUE
    BY <1>1, <1>2, <2>1 DEF PortalStates
  <2>3. PortalTypeOK'
    BY <1>1, <2>1, <2>2 DEF PortalInv, PortalTypeOK, PortalStates
  <2>4. (NamesItsPart /\ NotFailedYet /\ OverIsFailed /\ AllArrived)'
    BY <1>1, <2>2 DEF NamesItsPart, NotFailedYet, OverIsFailed, AllArrived
  <2>5. (NoTruncatedBook /\ NoPartLeft /\ ArrivedIsWhole /\ HeldIsOwned)'
    BY <1>1, <2>1, <2>2 DEF PortalInv, NoTruncatedBook, NoPartLeft, ArrivedIsWhole, HeldIsOwned
  <2>6. BusFollowsUpload'
    BY <1>1, <2>1, <2>2 DEF PortalInv, BusFollowsUpload
  <2> QED
    BY <2>3, <2>4, <2>5, <2>6 DEF PortalInv
<1> QED
  BY <1>4, <1>5

(* UPLOAD_FILE_WRITE *)
LEMMA WriteUploadInv ==
  ASSUME PortalInv, WriteUpload
  PROVE  PortalInv'
<1>1. /\ request = "started" /\ request' = "started" /\ portal.failed = FALSE
      /\ portal.guard = TRUE /\ portal.written < MaxChunks /\ portal \in PortalStates
      /\ UNCHANGED <<files, changed, owned>>
  BY DEF PortalInv, PortalTypeOK, PortalStates, WriteUpload, Receiving
<1>2. CASE AbortUpload(portal)
  BY <1>1, <1>2, AbortInv
<1>3. CASE /\ portal' = [portal EXCEPT !.written = @ + 1]
           /\ parts' = [parts EXCEPT ![portal.part] = @ + 1]
           /\ UNCHANGED <<bus, orphans>>
  <2>1. portal.part \in Paths /\ portal.final = portal.part
        /\ parts[portal.part] = portal.written
    BY <1>1 DEF PortalInv, NamesItsPart, NotFailedYet
  <2>2. portal' \in PortalStates /\ portal'.running = portal.running /\ portal'.guard = TRUE
        /\ portal'.failed = FALSE /\ portal'.part = portal.part /\ portal'.final = portal.final
        /\ portal'.written = portal.written + 1
    BY <1>1, <1>3, PortalAssumption DEF PortalStates
  <2>3. PortalTypeOK'
    BY <1>1, <1>3, <2>1, <2>2, PortalAssumption DEF PortalInv, PortalTypeOK, PortalStates
  <2>4. (NamesItsPart /\ NotFailedYet /\ OverIsFailed /\ AllArrived)'
    BY <1>1, <1>3, <2>1, <2>2 DEF PortalInv, PortalTypeOK, NamesItsPart, NotFailedYet,
       OverIsFailed, AllArrived
  <2>5. NoPartLeft'
    BY <1>1, <1>3, <2>1, <2>2 DEF PortalInv, PortalTypeOK, NoPartLeft
  <2>6. (NoTruncatedBook /\ BusFollowsUpload /\ ArrivedIsWhole /\ HeldIsOwned)'
    BY <1>1, <1>3, <2>2 DEF PortalInv, NoTruncatedBook, BusFollowsUpload,
       ArrivedIsWhole, HeldIsOwned
  <2> QED
    BY <2>3, <2>4, <2>5, <2>6 DEF PortalInv
<1> QED
  BY <1>2, <1>3 DEF WriteUpload

(* UPLOAD_FILE_END: only an upload whose data all arrived is renamed. *)
LEMMA EndUploadInv ==
  ASSUME PortalInv, EndUpload
  PROVE  PortalInv'
<1>1. request = "started" /\ portal \in PortalStates /\ UNCHANGED <<changed, owned>>
  BY DEF PortalInv, PortalTypeOK, PortalStates, EndUpload
<1>2. CASE ~Receiving /\ request' = "ended" /\ UNCHANGED <<portal, files, parts, bus, orphans>>
  <2>1. portal.guard = FALSE /\ portal.failed = TRUE
    BY <1>1, <1>2 DEF PortalInv, NotFailedYet, OverIsFailed, Receiving, PortalStates
  <2> QED
    BY <1>1, <1>2, <2>1 DEF PortalInv, PortalTypeOK, NamesItsPart, NotFailedYet, OverIsFailed,
       AllArrived, NoTruncatedBook, BusFollowsUpload, NoPartLeft, ArrivedIsWhole, HeldIsOwned
<1>3. CASE request' = "ended" /\ AbortUpload(portal) /\ UNCHANGED files
  BY <1>1, <1>3, AbortInv
<1>4. CASE /\ Receiving /\ portal.written = portal.expected /\ request' = "renaming"
           /\ files' = [files EXCEPT ![portal.final] = "none"]
           /\ UNCHANGED <<portal, parts, bus, orphans>>
  <2>1. PortalTypeOK'
    BY <1>1, <1>4 DEF PortalInv, PortalTypeOK
  <2>2. NoTruncatedBook'
    BY <1>4 DEF PortalInv, PortalTypeOK, NoTruncatedBook
  <2>3. HeldIsOwned'
    BY <1>1, <1>4 DEF PortalInv, PortalTypeOK, HeldIsOwned
  <2> QED
    BY <1>1, <1>4, <2>1, <2>2, <2>3 DEF PortalInv, NamesItsPart, NotFailedYet, OverIsFailed,
       AllArrived, BusFollowsUpload, NoPartLeft, ArrivedIsWhole, Receiving
<1> QED
  BY <1>2, <1>3, <1>4 DEF EndUpload

(* The rename that ends it: what gets the name is whole. *)
LEMMA RenameUploadInv ==
  ASSUME PortalInv, RenameUpload
  PROVE  PortalInv'
<1>1. /\ request = "renaming" /\ request' = "ended" /\ portal \in PortalStates
      /\ portal.guard = TRUE /\ portal.part \in Paths /\ portal.final = portal.part
      /\ parts[portal.part] = portal.expected
  BY DEF PortalInv, PortalTypeOK, PortalStates, RenameUpload, AllArrived, NamesItsPart,
     NotFailedYet
<1>2. CASE AbortUpload(portal) /\ UNCHANGED <<files, changed, owned>>
  BY <1>1, <1>2, AbortInv
<1>3. CASE ~(AbortUpload(portal) /\ UNCHANGED <<files, changed, owned>>)
  <2>1. /\ files' = [files EXCEPT ![portal.part] = "whole"]
        /\ parts' = Gone(portal.part) /\ owned' = owned \cup {portal.part}
        /\ portal' = [portal EXCEPT !.guard = FALSE] /\ bus' = "None" /\ changed' = TRUE
        /\ UNCHANGED orphans
    BY <1>1, <1>3 DEF RenameUpload
  <2>2. portal' \in PortalStates /\ portal'.guard = FALSE /\ portal'.final = portal.part
    BY <1>1, <2>1 DEF PortalStates
  <2>3. PortalTypeOK' /\ NoPartLeft'
    BY <1>1, <2>1, <2>2, GoneType DEF PortalInv, PortalTypeOK, PortalStates, NoPartLeft
  <2>4. (NoTruncatedBook /\ ArrivedIsWhole /\ HeldIsOwned)'
    BY <1>1, <2>1, <2>2 DEF PortalInv, PortalTypeOK, NoTruncatedBook, ArrivedIsWhole,
       HeldIsOwned
  <2>5. (NamesItsPart /\ NotFailedYet /\ OverIsFailed /\ AllArrived)'
    BY <1>1, <2>2 DEF NamesItsPart, NotFailedYet, OverIsFailed, AllArrived
  <2>6. BusFollowsUpload'
    BY <2>1, <2>2 DEF BusFollowsUpload
  <2> QED
    BY <2>3, <2>4, <2>5, <2>6 DEF PortalInv
<1> QED
  BY <1>2, <1>3

(* What is forgotten between requests *)
LEMMA RestedPortal ==
  ASSUME NEW p \in PortalStates
  PROVE  /\ Rested(p) \in PortalStates /\ Rested(p).running = p.running
         /\ Rested(p).guard = p.guard /\ Rested(p).part = p.part
         /\ Rested(p).failed = p.failed
<1>1. 0 \in 0 .. MaxChunks
  BY PortalAssumption
<1> QED
  BY <1>1 DEF Rested, PortalStates

(* A request is over, and no upload has the bus. *)
LEMMA RequestOverInv ==
  ASSUME PortalInv, NEW p \in PortalStates, portal' = p, request' = "none",
         portal.guard = FALSE, p.guard = FALSE,
         UNCHANGED <<files, parts, bus, changed, owned, orphans>>
  PROVE  PortalInv'
<1>1. PortalTypeOK'
  BY DEF PortalInv, PortalTypeOK, PortalStates
<1>2. (NamesItsPart /\ NotFailedYet /\ OverIsFailed /\ AllArrived)'
  BY DEF NamesItsPart, NotFailedYet, OverIsFailed, AllArrived
<1>3. (NoTruncatedBook /\ NoPartLeft /\ ArrivedIsWhole /\ HeldIsOwned)'
  BY DEF PortalInv, NoTruncatedBook, NoPartLeft, ArrivedIsWhole, HeldIsOwned
<1>4. BusFollowsUpload'
  BY DEF PortalInv, BusFollowsUpload
<1> QED
  BY <1>1, <1>2, <1>3, <1>4 DEF PortalInv

(* UPLOAD_FILE_ABORTED *)
LEMMA LoseClientInv ==
  ASSUME PortalInv, LoseClient
  PROVE  PortalInv'
<1>1. /\ request = "started" /\ request' = "none" /\ portal \in PortalStates
      /\ UNCHANGED <<files, changed, owned>>
  BY DEF PortalInv, PortalTypeOK, PortalStates, LoseClient
<1>2. /\ Rested(portal) \in PortalStates /\ Rested(portal).part = portal.part
      /\ Rested(portal).guard = portal.guard
  BY <1>1, RestedPortal
<1>3. CASE AbortUpload(Rested(portal))
  BY <1>1, <1>2, <1>3, AbortInv
<1>4. CASE /\ ~portal.guard /\ portal' = [Rested(portal) EXCEPT !.failed = TRUE]
           /\ UNCHANGED <<parts, bus, orphans>>
  <2>1. portal' \in PortalStates /\ portal'.guard = FALSE /\ portal.guard = FALSE
    BY <1>1, <1>2, <1>4 DEF PortalStates
  <2> QED
    BY <1>1, <1>4, <2>1, RequestOverInv
<1> QED
  BY <1>3, <1>4 DEF LoseClient

(* routeUploadComplete(), for an upload or without one *)
LEMMA AnsweredInv ==
  ASSUME PortalInv, CompleteUpload \/ PostWithoutFile
  PROVE  PortalInv' /\ portal'.running = portal.running
<1>1. /\ portal \in PortalStates /\ portal.guard = FALSE /\ request' = "none"
      /\ portal' = Answered(portal) /\ UNCHANGED <<files, parts, bus, changed, owned, orphans>>
  BY DEF PortalInv, PortalTypeOK, PortalStates, BusFollowsUpload, CompleteUpload,
     PostWithoutFile, Serving
<1>2. portal' \in PortalStates /\ portal'.guard = FALSE /\ portal'.running = portal.running
  <2>1. Rested(portal) \in PortalStates /\ Rested(portal).guard = FALSE
        /\ Rested(portal).running = portal.running
    BY <1>1, RestedPortal
  <2> QED
    BY <1>1, <2>1 DEF Answered, PortalStates
<1> QED
  BY <1>1, <1>2, RequestOverInv
-----------------------------------------------------------------------------
(* A portal that was not started satisfies the invariant. *)
LEMMA InitPortalInv == PortalInit => PortalInv
<1> SUFFICES ASSUME PortalInit PROVE PortalInv
  OBVIOUS
<1>1. 0 \in Nat /\ 0 \in 0 .. MaxChunks
  BY PortalAssumption
<1>2. portal \in PortalStates
  BY <1>1 DEF PortalInit, NewPortal, PortalStates
<1>3. portal.guard = FALSE /\ request = "none" /\ bus = "None"
  BY DEF PortalInit, NewPortal
<1>4. files \in [Paths -> {"none", "whole", "torn"}] /\ NoTruncatedBook
  BY DEF PortalInit, NoTruncatedBook
<1>5. parts \in [Paths -> {NoFile} \cup 0 .. MaxChunks] /\ NoPartLeft
  BY DEF PortalInit, NoPartLeft
<1>6. PortalTypeOK
  BY <1>2, <1>3, <1>4, <1>5 DEF PortalInit, PortalTypeOK, PortalStates
<1>7. NamesItsPart /\ NotFailedYet /\ OverIsFailed /\ AllArrived
  BY <1>3 DEF NamesItsPart, NotFailedYet, OverIsFailed, AllArrived
<1>9. ArrivedIsWhole /\ HeldIsOwned
  BY <1>3 DEF ArrivedIsWhole, HeldIsOwned, PortalInit
<1>8. BusFollowsUpload
  BY <1>3 DEF BusFollowsUpload
<1> QED
  BY <1>4, <1>5, <1>6, <1>7, <1>8, <1>9 DEF PortalInv

(* Whatever the server delivers preserves it. *)
LEMMA HandleClientInv == PortalInv /\ HandleClient => PortalInv'
<1> SUFFICES ASSUME PortalInv, HandleClient PROVE PortalInv'
  OBVIOUS
<1>1. CASE Browse \/ MakeFolder
  <2>1. changed' \in BOOLEAN
    BY <1>1 DEF Browse, MakeFolder, PortalInv, PortalTypeOK
  <2>2. /\ portal' = [portal EXCEPT !.idle = 0] /\ 0 \in Nat
        /\ UNCHANGED <<request, files, parts, bus, owned, orphans>>
    BY <1>1 DEF Browse, MakeFolder
  <2> QED
    BY <2>1, <2>2, StartInv
<1>2. CASE \E path \in Paths : Delete(path)
  BY <1>2, DeleteInv
<1>3. CASE \E folder \in Folders, name \in Names, size \in 0 .. MaxChunks :
             StartUpload(folder, name, size)
  BY <1>3, StartUploadInv
<1>4. CASE WriteUpload \/ EndUpload \/ RenameUpload
  BY <1>4, WriteUploadInv, EndUploadInv, RenameUploadInv
<1>5. CASE LoseClient \/ CompleteUpload \/ PostWithoutFile
  BY <1>5, LoseClientInv, AnsweredInv
<1> QED
  BY <1>1, <1>2, <1>3, <1>4, <1>5 DEF HandleClient

(* A loss of power leaves parts, and no book cut short. *)
LEMMA LosePowerInv ==
  ASSUME PortalInv, LosePower
  PROVE  PortalInv'
<1>1. 0 \in Nat /\ 0 \in 0 .. MaxChunks
  BY PortalAssumption
<1>2. portal' \in PortalStates
  BY <1>1 DEF LosePower, NewPortal, PortalStates
<1>3. portal'.guard = FALSE /\ request' = "none" /\ bus' = "None"
  BY DEF LosePower, NewPortal
<1>4. PortalTypeOK'
  BY <1>2, <1>3 DEF PortalInv, PortalTypeOK, PortalStates, LosePower
<1>5. (NoTruncatedBook /\ NoPartLeft)'
  BY DEF PortalInv, NoTruncatedBook, NoPartLeft, LosePower
<1>6. (NamesItsPart /\ NotFailedYet /\ OverIsFailed /\ AllArrived)'
  BY <1>3 DEF NamesItsPart, NotFailedYet, OverIsFailed, AllArrived
<1>8. (ArrivedIsWhole /\ HeldIsOwned)'
  BY <1>3 DEF PortalInv, ArrivedIsWhole, HeldIsOwned, LosePower
<1>7. BusFollowsUpload'
  BY <1>3 DEF BusFollowsUpload
<1> QED
  BY <1>4, <1>5, <1>6, <1>7, <1>8 DEF PortalInv

(* Every step of the portal by itself preserves it. *)
LEMMA NextPortalInv == PortalInv /\ [PortalNext]_portalVars => PortalInv'
<1> SUFFICES ASSUME PortalInv, [PortalNext]_portalVars PROVE PortalInv'
  OBVIOUS
<1>1. CASE StartPortal
  <2>1. /\ portal' = [portal EXCEPT !.running = TRUE, !.idle = 0] /\ 0 \in Nat
        /\ changed' \in BOOLEAN /\ UNCHANGED <<request, files, parts, bus, owned, orphans>>
    BY <1>1 DEF StartPortal, Started, PortalInv, PortalTypeOK
  <2> QED
    BY <2>1, StartInv
<1>2. CASE StopPortal
  <2>1. EndPortal /\ changed' \in BOOLEAN /\ UNCHANGED <<files, owned>>
    BY <1>2 DEF StopPortal, PortalInv, PortalTypeOK
  <2> QED
    BY <2>1, EndPortalInv
<1>3. CASE HandleClient \/ LosePower
  BY <1>3, HandleClientInv, LosePowerInv
<1>4. CASE UNCHANGED portalVars
  <2> USE <1>4 DEF portalVars
  <2>1. (PortalTypeOK /\ NamesItsPart /\ NotFailedYet /\ OverIsFailed /\ AllArrived)'
    BY DEF PortalInv, PortalTypeOK, NamesItsPart, NotFailedYet, OverIsFailed, AllArrived
  <2>2. (NoTruncatedBook /\ BusFollowsUpload /\ NoPartLeft /\ ArrivedIsWhole /\ HeldIsOwned)'
    BY DEF PortalInv, NoTruncatedBook, BusFollowsUpload, NoPartLeft, ArrivedIsWhole, HeldIsOwned
  <2> QED
    BY <2>1, <2>2 DEF PortalInv
<1> QED
  BY <1>1, <1>2, <1>3, <1>4 DEF PortalNext

(* The portal's record, files and flags keep to their values, and the      *)
(* upload's flags to its callbacks.                                        *)
THEOREM PortalInvariant == PortalSpec => []PortalInv
BY InitPortalInv, NextPortalInv, PTL DEF PortalSpec

(* However an upload is interrupted, by the client, the card, the user or  *)
(* the power, no book's name stands for a part of its file.                *)
THEOREM PortalNeverTruncates == PortalSpec => []NoTruncatedBook
<1>1. PortalInv => NoTruncatedBook
  BY DEF PortalInv
<1> QED
  BY PortalInvariant, <1>1, PTL

(* abortUpload(), end() and the rename release the SPI bus exactly when    *)
(* the upload is over.                                                     *)
THEOREM PortalBusFollowsUpload == PortalSpec => []BusFollowsUpload
<1>1. PortalInv => BusFollowsUpload
  BY DEF PortalInv
<1> QED
  BY PortalInvariant, <1>1, PTL

(* No .part file outlives its upload but for a loss of power. *)
THEOREM PortalLeavesNoPart == PortalSpec => []NoPartLeft
<1>1. PortalInv => NoPartLeft
  BY DEF PortalInv
<1> QED
  BY PortalInvariant, <1>1, PTL

(***************************************************************************)
(* routeUploadComplete() answers an upload 201 only if its book is on the  *)
(* card, whole: failed, which it reads, is FALSE after the callbacks of an *)
(* upload only by a rename that succeeded.                                 *)
(***************************************************************************)
THEOREM PortalConfirmsWholeBooks == PortalSpec => CreatedMeansWhole
<1>1. PortalInv => (request = "ended" /\ Answers201 => files[portal.final] = "whole")
  BY DEF PortalInv, ArrivedIsWhole, Answers201
<1> QED
  BY <1>1, PortalInvariant, PTL DEF CreatedMeansWhole

(* Only two callbacks take a book's name from a file, and one of them is   *)
(* the client's wish.                                                      *)
LEMMA GoesForWhole ==
  ASSUME PortalInv, [PortalNext]_portalVars, NEW path \in owned, Goes(path)
  PROVE  portal.guard /\ portal.final = path /\ parts[path] = portal.expected
<1>1. files' # files /\ path \in Paths /\ files \in [Paths -> {"none", "whole", "torn"}]
  BY DEF Goes, PortalInv, PortalTypeOK
<1>2. CASE EndUpload
  <2>1. /\ Receiving /\ portal.written = portal.expected
        /\ files' = [files EXCEPT ![portal.final] = "none"]
    BY <1>1, <1>2 DEF EndUpload
  <2>2. portal.final = path
    BY <1>1, <2>1 DEF Goes
  <2> QED
    BY <2>1, <2>2 DEF Receiving, PortalInv, NamesItsPart, NotFailedYet
<1>3. CASE RenameUpload
  <2>1. portal.guard /\ portal.final = portal.part /\ parts[portal.part] = portal.expected
    BY <1>3 DEF RenameUpload, PortalInv, AllArrived, NamesItsPart, NotFailedYet
  <2>2. files' = [files EXCEPT ![portal.final] = "whole"]
    BY <1>1, <1>3, <2>1 DEF RenameUpload
  <2> QED
    BY <1>1, <2>2 DEF Goes
<1>4. CASE \E other \in Paths : Delete(other)
  BY <1>1, <1>4 DEF Delete, Goes
<1>5. CASE UNCHANGED files
  BY <1>1, <1>5
<1> QED
  BY <1>2, <1>3, <1>4, <1>5 DEF PortalNext, HandleClient, StartPortal, StopPortal, LosePower,
     Browse, MakeFolder, StartUpload, WriteUpload, LoseClient, CompleteUpload,
     PostWithoutFile, portalVars

(***************************************************************************)
(* On a card that may fail and with a power that may go, an older book     *)
(* leaves its name only to a .part file that all of the new one is in.     *)
(***************************************************************************)
THEOREM PortalReplacesByWhole == PortalSpec => OnlyWholeReplaces
<1>1. PortalInv /\ [PortalNext]_portalVars =>
        \A path \in owned : Goes(path) =>
          portal.guard /\ portal.final = path /\ parts[path] = portal.expected
  BY GoesForWhole
<1> QED
  BY <1>1, PortalInvariant, PTL DEF PortalSpec, OnlyWholeReplaces
-----------------------------------------------------------------------------

(***************************************************************************)
(* The portal in the application. An association knows the network it      *)
(* tries and the password's screen the one it is for; a list that is stale *)
(* has changes of the portal to thank, and those a radio; a rename ends    *)
(* within the call to handleClient() that began it.                        *)
(***************************************************************************)
WifiRecords ==
  [state : WifiStates, launched : BOOLEAN, retries : 0 .. 2, age : 0 .. Horizon,
   lost : {Never} \cup 0 .. Horizon, found : SUBSET Networks, known : SUBSET Networks,
   saved : Seq(Credentials), active : Networks \cup {NoNetwork}, pending : Passwords,
   remember : BOOLEAN]

(***************************************************************************)
(* A WifiService that asked the radio to join one network: what it would   *)
(* remember is what it asked for.                                          *)
(***************************************************************************)
Sound(w, asked) ==
  /\ w \in WifiRecords /\ w.known \subseteq w.found
  /\ Len(w.saved) <= MaxSaved
  /\ w.state = "Connecting" => asked = <<w.active, w.pending>> /\ asked \in Credentials

WifiInv ==
  Sound(wifi, tried) /\ tried \in Credentials \cup {NotTrying}

SessionOK ==
  /\ app \in Screens /\ radio \in BOOLEAN /\ starting \in BOOLEAN
  /\ failure \in {Never} \cup 0 .. Horizon /\ selected \in Networks \cup {NoNetwork}
  /\ phase \in {"wifi", "server", "radio", "failure", "touch"}
  /\ stale \in SUBSET Paths /\ quiet \in BOOLEAN

PasswordIsForANetwork == app = "Password" => selected \in Networks
Lost(path) == files[path] = "none" /\ path \in owned
ChangesAreKnown == (\A path \in stale : changed \/ Lost(path)) /\ (changed => radio)
RenamingIsServed == request = "renaming" => phase = "server"

SessionInv ==
  /\ PortalInv /\ WifiInv /\ SessionOK
  /\ ServerHasLink /\ PasswordIsForANetwork /\ ChangesAreKnown /\ RenamingIsServed

-----------------------------------------------------------------------------
(***************************************************************************)
(* Lemmas about the radio.                                                 *)
(***************************************************************************)
LEMMA RestSound ==
  ASSUME NEW asked, NEW other, NEW w, Sound(w, asked),
         NEW state \in WifiStates \ {"Connecting"}
  PROVE  /\ Sound(AtRest(w, state), other) /\ AtRest(w, state).state = state
         /\ AtRest(w, state).saved = w.saved
<1> DEFINE rested == AtRest(w, state)
<1>1. 0 \in 0 .. Horizon /\ 0 \in 0 .. 2
  BY WifiAssumption
<1>2. /\ rested \in WifiRecords /\ rested.state = state /\ rested.saved = w.saved
      /\ rested.known = w.known /\ rested.found = w.found
  BY <1>1 DEF AtRest, Sound, WifiRecords
<1> HIDE DEF rested
<1> QED
  BY <1>2 DEF Sound, rested

LEMMA BeginScanSound ==
  ASSUME NEW asked, NEW w, Sound(w, asked)
  PROVE  /\ Sound(BeginScan(w), asked)
         /\ BeginScan(w).state \in {"Scanning", "Connecting"}
<1> DEFINE rested == AtRest(w, "Scanning")
<1>1. Sound(rested, asked) /\ rested.state = "Scanning"
  BY RestSound DEF WifiStates
<1>2. rested \in WifiRecords
  BY <1>1 DEF Sound
<1> HIDE DEF rested
<1>3. Sound([rested EXCEPT !.found = {}, !.known = {}], asked)
      /\ [rested EXCEPT !.found = {}, !.known = {}].state = "Scanning"
  BY <1>1, <1>2 DEF Sound, WifiRecords
<1> QED
  BY <1>3 DEF BeginScan, Idle, rested

LEMMA ConnectSound ==
  ASSUME NEW asked, NEW w, Sound(w, asked),
         NEW network \in Networks, NEW password \in Passwords, NEW remember \in BOOLEAN
  PROVE  /\ Sound(Connect(w, network, password, remember), <<network, password>>)
         /\ Connect(w, network, password, remember).state = "Connecting"
<1>1. 0 \in 0 .. Horizon /\ 0 \in 0 .. 2
  BY WifiAssumption
<1> DEFINE begun == Connect(w, network, password, remember)
<1>2. /\ begun \in WifiRecords /\ begun.state = "Connecting" /\ begun.saved = w.saved
      /\ begun.known = w.known /\ begun.found = w.found /\ begun.active = network
      /\ begun.pending = password
  BY <1>1 DEF Connect, AtRest, Sound, WifiRecords, WifiStates
<1>3. <<network, password>> \in Credentials
  BY DEF Credentials
<1> HIDE DEF begun
<1> QED
  BY <1>2, <1>3 DEF Sound, begun

(* An association that begins, whatever it interrupts *)
LEMMA JoinNetworkInv ==
  ASSUME WifiInv, NEW network \in Networks, NEW password \in Passwords,
         NEW remember \in BOOLEAN, JoinNetwork(network, password, remember)
  PROVE  WifiInv' /\ wifi'.state = "Connecting"
<1>1. <<network, password>> \in Credentials
  BY DEF Credentials
<1> QED
  BY <1>1, ConnectSound DEF JoinNetwork, WifiInv

LEMMA JoinSavedInv ==
  ASSUME WifiInv, NEW network, JoinSaved(network)
  PROVE  WifiInv' /\ wifi'.state = "Connecting"
<1>1. wifi.saved \in Seq(Credentials)
  BY DEF WifiInv, Sound, WifiRecords
<1>2. PICK i \in 1 .. Len(wifi.saved) :
        wifi.saved[i][1] = network /\ JoinNetwork(network, wifi.saved[i][2], FALSE)
  BY DEF JoinSaved
<1>3. wifi.saved[i] \in Networks \X Passwords
  BY <1>1 DEF Credentials
<1>4. network \in Networks /\ wifi.saved[i][2] \in Passwords
  BY <1>2, <1>3
<1> QED
  BY <1>2, <1>4, JoinNetworkInv

LEMMA ForgetSound ==
  ASSUME NEW asked, NEW w, Sound(w, asked)
  PROVE  Sound(ForgetAll(w), asked)
<1> DEFINE forgotten == ForgetAll(w)
<1>1. <<>> \in Seq(Credentials) /\ Len(<<>>) <= MaxSaved /\ Members(<<>>) = {}
  BY WifiAssumption DEF Members
<1>2. /\ forgotten \in WifiRecords /\ forgotten.state = w.state /\ forgotten.saved = <<>>
      /\ forgotten.known = w.known /\ forgotten.found = w.found /\ forgotten.active = w.active
      /\ forgotten.pending = w.pending
  BY <1>1 DEF ForgetAll, Sound, WifiRecords
<1> HIDE DEF forgotten
<1> QED
  BY <1>1, <1>2 DEF Sound, forgotten

LEMMA StopSound ==
  ASSUME NEW asked, NEW other, NEW w, Sound(w, asked)
  PROVE  Sound(Stop(w), other) /\ Stop(w).state = "Off"
<1>1. 0 \in 0 .. Horizon /\ 0 \in 0 .. 2 /\ NoPassword \in Passwords
  BY WifiAssumption
<1> DEFINE stopped == Stop(w)
<1>2. /\ stopped \in WifiRecords /\ stopped.state = "Off" /\ stopped.saved = w.saved
      /\ stopped.known = {} /\ stopped.found = {}
  BY <1>1 DEF Stop, AtRest, Sound, WifiRecords, WifiStates
<1> HIDE DEF stopped
<1> QED
  BY <1>2 DEF Sound, stopped

LEMMA RetrySound ==
  ASSUME NEW asked, NEW w, Sound(w, asked), w.state = "Scanning"
  PROVE  /\ Sound(Retry(w), asked)
         /\ Retry(w).state \in {"Scanning", "Failed"}
<1>1. CASE w.retries < 2
  <2> DEFINE again == [w EXCEPT !.retries = @ + 1, !.launched = FALSE, !.age = 0]
  <2>1. 0 \in 0 .. Horizon /\ w.retries + 1 \in 0 .. 2
    BY <1>1, WifiAssumption DEF Sound, WifiRecords
  <2>2. /\ again \in WifiRecords /\ again.state = w.state /\ again.saved = w.saved
        /\ again.known = w.known /\ again.found = w.found
    BY <2>1 DEF Sound, WifiRecords
  <2>3. Retry(w) = again
    BY <1>1 DEF Retry
  <2> HIDE DEF again
  <2> QED
    BY <2>2, <2>3 DEF Sound
<1>2. CASE ~(w.retries < 2)
  BY <1>2, RestSound DEF Retry, Failed, WifiStates
<1> QED
  BY <1>1, <1>2

LEMMA FinishScanSound ==
  ASSUME NEW asked, NEW w, Sound(w, asked),
         NEW visible \in SUBSET Networks
  PROVE  /\ Sound(FinishScan(w, visible), asked)
         /\ FinishScan(w, visible).state = "ScanDone"
<1> DEFINE rested == AtRest(w, "ScanDone")
<1>1. Sound(rested, asked) /\ rested.state = "ScanDone" /\ rested.saved = w.saved
  BY RestSound DEF WifiStates
<1>2. rested \in WifiRecords
  BY <1>1 DEF Sound
<1> HIDE DEF rested
<1>3. visible \cap NetworksOf(w.saved) \in SUBSET Networks
  OBVIOUS
<1> DEFINE done == [rested EXCEPT !.found = visible, !.known = visible \cap NetworksOf(w.saved)]
<1>4. Sound(done, asked) /\ done.state = "ScanDone"
  BY <1>1, <1>2, <1>3 DEF Sound, WifiRecords
<1> QED
  BY <1>4 DEF FinishScan, rested

LEMMA OlderAge ==
  ASSUME NEW age \in {Never} \cup 0 .. Horizon
  PROVE  /\ Older(age) \in {Never} \cup 0 .. Horizon
         /\ age \in 0 .. Horizon => Older(age) \in 0 .. Horizon
BY WifiAssumption DEF Older, Never

LEMMA AgedSound ==
  ASSUME NEW asked, NEW w, Sound(w, asked)
  PROVE  Sound(WifiAged(w), asked) /\ WifiAged(w).state = w.state
<1> DEFINE age == IF Idle(w) THEN w.age ELSE Older(w.age)
<1> DEFINE lost == IF w.state = "Connected" THEN Older(w.lost) ELSE w.lost
<1>1. age \in 0 .. Horizon /\ lost \in {Never} \cup 0 .. Horizon
  BY OlderAge DEF Sound, WifiRecords
<1>2. WifiAged(w) = [w EXCEPT !.age = age, !.lost = lost]
  BY DEF WifiAged
<1> HIDE DEF age, lost
<1> DEFINE aged == [w EXCEPT !.age = age, !.lost = lost]
<1>3. /\ aged \in WifiRecords /\ aged.state = w.state /\ aged.saved = w.saved
      /\ aged.known = w.known /\ aged.found = w.found /\ aged.active = w.active
      /\ aged.pending = w.pending
  BY <1>1 DEF Sound, WifiRecords
<1> HIDE DEF aged
<1> QED
  BY <1>2, <1>3 DEF Sound, aged

(***************************************************************************)
(* remember() keeps to kMaximumSavedNetworks, and saves no credentials but *)
(* the ones it is given.                                                   *)
(***************************************************************************)
LEMMA RememberBounds ==
  ASSUME NEW saved \in Seq(Credentials), Len(saved) <= MaxSaved,
         NEW network \in Networks, NEW password \in Passwords
  PROVE  /\ Remember(saved, network, password) \in Seq(Credentials)
         /\ Len(Remember(saved, network, password)) <= MaxSaved
         /\ Members(Remember(saved, network, password))
              \subseteq Members(saved) \cup {<<network, password>>}
<1>0. <<network, password>> \in Credentials
  BY DEF Credentials
<1> DEFINE given == <<network, password>>
<1> HIDE DEF given
<1>1. CASE network \in NetworksOf(saved)
  <2> DEFINE new == [i \in DOMAIN saved |-> IF saved[i][1] = network THEN given ELSE saved[i]]
  <2>1. DOMAIN saved = 1 .. Len(saved) /\ Len(saved) \in Nat
        /\ \A i \in 1 .. Len(saved) : saved[i] \in Credentials
    OBVIOUS
  <2>2. new \in [1 .. Len(saved) -> Credentials]
    BY <1>0, <2>1 DEF given
  <2>3. new \in Seq(Credentials) /\ Len(new) = Len(saved)
    BY <2>1, <2>2
  <2>4. \A i \in 1 .. Len(saved) : new[i] = given \/ new[i] = saved[i]
    BY <2>1
  <2>5. Remember(saved, network, password) = new
    BY <1>1 DEF Remember, given
  <2> HIDE DEF new
  <2>6. Members(new) \subseteq Members(saved) \cup {given}
    BY <2>3, <2>4 DEF Members
  <2> QED
    BY <2>3, <2>5, <2>6 DEF given
<1>2. CASE network \notin NetworksOf(saved)
  <2> DEFINE kept == IF Len(saved) >= MaxSaved THEN Tail(saved) ELSE saved
  <2>1. Len(saved) \in Nat /\ MaxSaved \in Nat /\ MaxSaved >= 1
    BY WifiAssumption
  <2>3. kept \in Seq(Credentials) /\ Len(kept) < MaxSaved /\ Members(kept) \subseteq Members(saved)
    BY <2>1 DEF Members
  <2> HIDE DEF kept
  <2>4. /\ Append(kept, given) \in Seq(Credentials)
        /\ Len(Append(kept, given)) = Len(kept) + 1
        /\ \A i \in 1 .. Len(Append(kept, given)) :
             Append(kept, given)[i] = IF i = Len(kept) + 1 THEN given ELSE kept[i]
    BY <1>0, <2>3 DEF given
  <2>5. Members(Append(kept, given)) \subseteq Members(kept) \cup {given}
    BY <2>3, <2>4 DEF Members
  <2>6. Remember(saved, network, password) = Append(kept, given)
    BY <1>2 DEF Remember, kept, given
  <2> QED
    BY <2>1, <2>3, <2>4, <2>5, <2>6 DEF given
<1> QED
  BY <1>1, <1>2

(***************************************************************************)
(* poll(): the link, once up, is up still or has just failed.              *)
(***************************************************************************)
LEMMA PollWifiInv ==
  ASSUME WifiInv, PollWifi
  PROVE  /\ WifiInv'
         /\ wifi.state = "Off" <=> wifi'.state = "Off"
         /\ wifi.state = "Connected" => wifi'.state \in {"Connected", "Failed"}
         /\ wifi.state = "Failed" => wifi'.state = "Failed"
<1>1. /\ Sound(wifi, tried) /\ wifi \in WifiRecords
      /\ tried \in Credentials \cup {NotTrying}
  BY DEF WifiInv, Sound
<1>2. /\ Sound(Failed(wifi), tried) /\ Sound(Failed(wifi), NotTrying)
      /\ Failed(wifi).state = "Failed"
  BY <1>1, RestSound DEF Failed, WifiStates
<1>3. CASE Launch
  <2>1. wifi.state = "Scanning" /\ UNCHANGED tried
    BY <1>3 DEF Launch
  <2>2. CASE wifi' = [wifi EXCEPT !.launched = TRUE, !.age = 0]
    <3>1. 0 \in 0 .. Horizon
      BY WifiAssumption
    <3>2. /\ wifi' \in WifiRecords /\ wifi'.state = wifi.state /\ wifi'.saved = wifi.saved
          /\ wifi'.known = wifi.known /\ wifi'.found = wifi.found
          /\ wifi'.active = wifi.active /\ wifi'.pending = wifi.pending
      BY <1>1, <2>2, <3>1 DEF WifiRecords
    <3> QED
      BY <1>1, <2>1, <3>2 DEF WifiInv, Sound
  <2>3. CASE wifi' = Retry(wifi)
    BY <1>1, <2>1, <2>3, RetrySound DEF WifiInv
  <2> QED
    BY <1>1, <1>3, <2>1, <2>2, <2>3 DEF Launch, WifiInv
<1>4. CASE AwaitScan
  <2>1. wifi.state = "Scanning" /\ UNCHANGED tried
    BY <1>4 DEF AwaitScan
  <2>2. CASE \E visible \in SUBSET Networks : wifi' = FinishScan(wifi, visible)
    BY <1>1, <2>1, <2>2, FinishScanSound DEF WifiInv
  <2>3. CASE wifi' = Retry(wifi)
    BY <1>1, <2>1, <2>3, RetrySound DEF WifiInv
  <2> QED
    BY <1>1, <1>2, <1>4, <2>1, <2>2, <2>3 DEF AwaitScan, WifiInv
<1>5. CASE AwaitConnection
  <2>1. /\ wifi.state = "Connecting" /\ tried = <<wifi.active, wifi.pending>>
        /\ tried \in Credentials /\ wifi.active \in Networks /\ wifi.pending \in Passwords
    BY <1>1, <1>5 DEF AwaitConnection, Sound, Credentials
  <2>2. CASE UNCHANGED wifiVars
    BY <1>1, <2>1, <2>2 DEF WifiInv, wifiVars
  <2>3. CASE wifi' = Failed(wifi) /\ tried' = NotTrying
    BY <1>1, <1>2, <2>1, <2>3 DEF WifiInv
  <2>4. CASE /\ wifi' = [wifi EXCEPT
                  !.state = "Connected", !.lost = Never,
                  !.pending = NoPassword, !.remember = FALSE,
                  !.saved = IF wifi.remember THEN Remember(@, wifi.active, wifi.pending) ELSE @]
             /\ tried' = NotTrying
    <3> DEFINE saved == IF wifi.remember THEN Remember(wifi.saved, wifi.active, wifi.pending)
                        ELSE wifi.saved
    <3>1. saved \in Seq(Credentials) /\ Len(saved) <= MaxSaved
      BY <1>1, <2>1, <2>4, RememberBounds DEF Sound, WifiRecords
    <3>2. wifi' = [wifi EXCEPT !.state = "Connected", !.lost = Never, !.pending = NoPassword,
                               !.remember = FALSE, !.saved = saved]
      BY <1>1, <2>4 DEF WifiRecords
    <3> HIDE DEF saved
    <3>3. NoPassword \in Passwords
      BY WifiAssumption
    <3>4. /\ wifi' \in WifiRecords /\ wifi'.state = "Connected" /\ wifi'.saved = saved
          /\ wifi'.known = wifi.known /\ wifi'.found = wifi.found
      BY <1>1, <3>1, <3>2, <3>3 DEF WifiRecords, WifiStates
    <3> QED
      BY <1>1, <2>1, <2>4, <3>1, <3>4 DEF WifiInv, Sound
  <2> QED
    BY <1>5, <2>2, <2>3, <2>4 DEF AwaitConnection
<1>6. CASE WatchLink
  <2>1. wifi.state = "Connected" /\ UNCHANGED tried
    BY <1>6 DEF WatchLink
  <2>2. CASE \E lost \in {Never, 0} : wifi' = [wifi EXCEPT !.lost = lost]
    <3>1. PICK lost \in {Never} \cup 0 .. Horizon : wifi' = [wifi EXCEPT !.lost = lost]
      BY <2>2, WifiAssumption
    <3>2. /\ wifi' \in WifiRecords /\ wifi'.state = wifi.state /\ wifi'.saved = wifi.saved
          /\ wifi'.known = wifi.known /\ wifi'.found = wifi.found
      BY <1>1, <3>1 DEF WifiRecords
    <3> QED
      BY <1>1, <2>1, <3>2 DEF WifiInv, Sound
  <2>3. CASE wifi' \in {wifi, Failed(wifi)}
    BY <1>1, <1>2, <2>1, <2>3 DEF WifiInv
  <2> QED
    BY <1>6, <2>2, <2>3 DEF WatchLink
<1>7. CASE wifi.state \in {"Off", "ScanDone", "Failed"} /\ UNCHANGED wifiVars
  BY <1>1, <1>7 DEF wifiVars, WifiInv
<1> QED
  BY <1>3, <1>4, <1>5, <1>6, <1>7 DEF PollWifi
-----------------------------------------------------------------------------
(***************************************************************************)
(* What the server's callbacks mean to the application: they neither start *)
(* nor stop it, and a book that comes or goes is reported, but for one     *)
(* that made room for another.                                             *)
(***************************************************************************)
LEMMA ClientIsReported ==
  ASSUME PortalInv, HandleClient
  PROVE  /\ portal'.running = portal.running
         /\ changed => changed'
         /\ \A path \in Paths : files'[path] # files[path] => changed' \/ Lost(path)'
         /\ \A path \in Paths : Lost(path) => changed' \/ Lost(path)'
         /\ changed' => changed \/ portal.running
<1> DEFINE Reported ==
      /\ changed => changed'
      /\ \A path \in Paths : files'[path] # files[path] => changed' \/ Lost(path)'
      /\ \A path \in Paths : Lost(path) => changed' \/ Lost(path)'
      /\ changed' => changed \/ portal.running
<1>1. portal \in PortalStates /\ changed \in BOOLEAN
  BY DEF PortalInv, PortalTypeOK, PortalStates
<1>2. ASSUME UNCHANGED <<files, owned>>, changed' = changed \/ (changed' = TRUE /\ portal.running)
      PROVE  Reported
  BY <1>1, <1>2 DEF Lost
<1>3. ASSUME NEW p \in PortalStates, AbortUpload(p) PROVE portal'.running = p.running
  BY <1>3 DEF AbortUpload, Aborted, PortalStates
<1>4. CASE Browse \/ MakeFolder
  <2>1. portal'.running = portal.running /\ UNCHANGED <<files, owned>>
    BY <1>1, <1>4 DEF Browse, MakeFolder, PortalStates
  <2>2. changed' = changed \/ (changed' = TRUE /\ portal.running)
    BY <1>4 DEF Browse, MakeFolder, Serving
  <2> QED
    BY <1>2, <2>1, <2>2
<1>5. CASE \E path \in Paths : Delete(path)
  BY <1>1, <1>5 DEF Delete, Serving, PortalStates
<1>6. CASE \E folder \in Folders, name \in Names, size \in 0 .. MaxChunks :
             StartUpload(folder, name, size)
  <2>1. PICK folder \in Folders, name \in Names, size \in 0 .. MaxChunks :
          StartUpload(folder, name, size)
    BY <1>6
  <2>2. UNCHANGED <<files, changed, owned>>
    BY <2>1 DEF StartUpload
  <2> DEFINE path == Target(folder, name)
  <2> DEFINE begun == [Fresh(size) EXCEPT !.guard = TRUE]
  <2> DEFINE named == [begun EXCEPT !.final = path, !.part = path]
  <2>3. 0 \in Nat /\ 0 \in 0 .. MaxChunks
    BY PortalAssumption
  <2>4. /\ begun \in PortalStates /\ begun.running = portal.running
        /\ [Fresh(size) EXCEPT !.failed = TRUE, !.responded = TRUE].running = portal.running
    BY <1>1, <2>1, <2>3 DEF Fresh, PortalStates
  <2> HIDE DEF begun
  <2>5. ~Refused(folder) => named \in PortalStates /\ named.running = portal.running
    BY <2>1, <2>4, TargetIsPath DEF PortalStates
  <2> HIDE DEF named, path
  <2>6. \/ portal' = [Fresh(size) EXCEPT !.failed = TRUE, !.responded = TRUE]
        \/ AbortUpload(begun)
        \/ ~Refused(folder) /\ (AbortUpload(named) \/ portal' = named)
    BY <2>1 DEF StartUpload, named, begun, path
  <2>7. portal'.running = portal.running
    BY <1>3, <2>4, <2>5, <2>6
  <2> QED
    BY <1>2, <2>2, <2>7
<1>7. CASE WriteUpload \/ LoseClient
  <2>1. /\ UNCHANGED <<files, changed, owned>>
        /\ \/ AbortUpload(portal) \/ AbortUpload(Rested(portal))
           \/ portal' = [portal EXCEPT !.written = @ + 1]
           \/ portal' = [Rested(portal) EXCEPT !.failed = TRUE]
    BY <1>7 DEF WriteUpload, LoseClient
  <2>2. Rested(portal) \in PortalStates /\ Rested(portal).running = portal.running
    BY <1>1, RestedPortal
  <2>3. portal'.running = portal.running
    BY <1>1, <1>3, <2>1, <2>2 DEF PortalStates
  <2> QED
    BY <1>2, <2>1, <2>3
<1>8. CASE EndUpload
  <2>1. UNCHANGED <<changed, owned>> /\ portal'.running = portal.running
    BY <1>1, <1>3, <1>8 DEF EndUpload
  <2>2. CASE files' = files
    BY <1>2, <2>1, <2>2
  <2>3. CASE files' = [files EXCEPT ![portal.final] = "none"]
    <3>1. /\ files \in [Paths -> {"none", "whole", "torn"}]
          /\ \A path \in Paths : files[path] \in {"none", "whole"}
          /\ \A path \in Paths : files[path] = "whole" => path \in owned
      BY DEF PortalInv, PortalTypeOK, NoTruncatedBook, HeldIsOwned
    <3>2. \A path \in Paths : files'[path] \in {files[path], "none"}
      BY <2>3, <3>1
    <3>3. \A path \in Paths : files'[path] # files[path] => Lost(path)'
      BY <2>1, <3>1, <3>2 DEF Lost
    <3>4. \A path \in Paths : Lost(path) => Lost(path)'
      BY <2>1, <3>1, <3>2 DEF Lost
    <3> QED
      BY <2>1, <3>3, <3>4
  <2> QED
    BY <1>8, <2>1, <2>2, <2>3 DEF EndUpload
<1>9. CASE RenameUpload
  <2>1. portal.running /\ (changed' = TRUE \/ UNCHANGED <<files, changed, owned>>)
    BY <1>9 DEF RenameUpload, PortalInv, AllArrived, BusFollowsUpload
  <2>2. portal' = [portal EXCEPT !.guard = FALSE] \/ AbortUpload(portal)
    BY <1>9 DEF RenameUpload
  <2>3. portal'.running = portal.running
    BY <1>1, <1>3, <2>2 DEF PortalStates
  <2> QED
    BY <1>2, <2>1, <2>3
<1>10. CASE CompleteUpload \/ PostWithoutFile
  <2>1. portal'.running = portal.running /\ UNCHANGED <<files, changed, owned>>
    BY <1>10, AnsweredInv DEF CompleteUpload, PostWithoutFile
  <2> QED
    BY <1>2, <2>1
<1> QED
  BY <1>4, <1>5, <1>6, <1>7, <1>8, <1>9, <1>10 DEF HandleClient
-----------------------------------------------------------------------------
(***************************************************************************)
(* Starting and stopping.                                                  *)
(***************************************************************************)
(* end(), whatever it interrupts *)
LEMMA EndPortalStops ==
  ASSUME PortalInv, EndPortal
  PROVE  portal'.running = FALSE /\ request' = "none"
<1>1. portal \in PortalStates
  BY DEF PortalInv, PortalTypeOK, PortalStates
<1>2. Aborted(portal) \in PortalStates
  BY <1>1 DEF Aborted, PortalStates
<1>3. PICK p \in PortalStates : portal' = [Rested(p) EXCEPT !.running = FALSE, !.idle = 0]
  BY <1>1, <1>2 DEF EndPortal
<1> QED
  BY <1>3, RestedPortal DEF EndPortal, PortalStates

(* What either leaves, of which its caller changes nothing *)
Reset ==
  /\ PortalInv' /\ WifiInv' /\ ServerHasLink' /\ PasswordIsForANetwork' /\ ChangesAreKnown'
  /\ request' = "none" /\ UNCHANGED <<files, owned, selected, quiet>>
  /\ app' \in Screens /\ radio' \in BOOLEAN /\ starting' \in BOOLEAN
  /\ stale' \in SUBSET Paths'

(* Every stop leaves nothing running, and a list made anew. *)
LEMMA StopInv ==
  ASSUME SessionInv, StopUploadServer
  PROVE  Reset
<1> USE DEF SessionInv
<1>1. /\ EndPortal /\ wifi' = Stop(wifi) /\ tried' = NotTrying /\ radio' = FALSE
      /\ starting' = FALSE
      /\ changed' = FALSE /\ selected' = selected /\ quiet' = quiet
      /\ stale' = (IF changed THEN {} ELSE stale) /\ UNCHANGED <<files, owned>>
  BY DEF StopUploadServer
<1>2. PortalInv'
  BY <1>1, EndPortalInv
<1>3. WifiInv' /\ wifi'.state = "Off"
  BY <1>1, StopSound DEF WifiInv
<1>4. portal'.running = FALSE /\ request' = "none"
  BY <1>1, EndPortalStops
<1>5. app' \in Screens \ NetworkScreens
  BY DEF StopUploadServer, SessionOK, Screens, NetworkScreens
<1>6. ServerHasLink'
  BY <1>1, <1>3, <1>4, <1>5 DEF ServerHasLink
<1>7. PasswordIsForANetwork'
  BY <1>5 DEF PasswordIsForANetwork, NetworkScreens
<1>8. stale' \in SUBSET Paths /\ ChangesAreKnown'
  BY <1>1 DEF ChangesAreKnown, Lost, SessionOK, Lost
<1> QED
  BY <1>1, <1>2, <1>3, <1>4, <1>5, <1>6, <1>7, <1>8 DEF Reset

(* A start begins a scan on a powered radio, with no server running. *)
LEMMA StartsInv ==
  ASSUME SessionInv, NEW choose \in BOOLEAN, RequestPortalStart(choose)
  PROVE  Reset
<1>1. CASE StopUploadServer
  BY <1>1, StopInv
<1>2. CASE ~StopUploadServer
  <2> USE DEF SessionInv
  <2>1. /\ EndPortal /\ radio' = TRUE /\ starting' = ~choose /\ wifi' = BeginScan(wifi)
        /\ app' = IF choose THEN "Networks" ELSE app
        /\ UNCHANGED <<tried, files, owned, changed, selected, stale, quiet>>
    BY <1>2 DEF RequestPortalStart
  <2>2. changed' \in BOOLEAN /\ PortalInv'
    BY <2>1, EndPortalInv DEF PortalInv, PortalTypeOK
  <2>3. WifiInv'
    BY <2>1, BeginScanSound DEF WifiInv
  <2>4. portal'.running = FALSE /\ request' = "none"
    BY <2>1, EndPortalStops DEF SessionInv
  <2>5. app' \in Screens /\ PasswordIsForANetwork'
    BY <2>1 DEF SessionOK, Screens, NetworkScreens, PasswordIsForANetwork
  <2>6. ServerHasLink' /\ ChangesAreKnown'
    BY <2>1, <2>4 DEF ServerHasLink, ChangesAreKnown, Lost
  <2> QED
    BY <2>1, <2>2, <2>3, <2>4, <2>5, <2>6 DEF SessionOK, Reset
<1> QED
  BY <1>1, <1>2
-----------------------------------------------------------------------------
(***************************************************************************)
(* The parts of a tick.                                                    *)
(***************************************************************************)
LEMMA ResetInv ==
  ASSUME SessionInv, Reset, failure' \in {Never} \cup 0 .. Horizon,
         phase' \in {"wifi", "server", "radio", "failure", "touch"}
  PROVE  SessionInv'
BY DEF SessionInv, SessionOK, Reset, RenamingIsServed

(* What leaves the portal alone leaves its invariant. *)
LEMMA PortalRests ==
  ASSUME PortalInv, UNCHANGED portalVars
  PROVE  PortalInv'
BY NextPortalInv

(* What leaves the radio alone leaves its own. *)
LEMMA WifiRests ==
  ASSUME WifiInv, UNCHANGED wifiVars
  PROVE  WifiInv'
BY DEF WifiInv, wifiVars

LEMMA ServiceWifiInv ==
  ASSUME SessionInv, ServiceWifi
  PROVE  SessionInv'
<1>1. UNCHANGED <<portalVars, app, radio, starting, failure, selected, stale, quiet>>
      /\ phase = "wifi" /\ phase' = "server" /\ PollWifi
  BY DEF ServiceWifi
<1>2. PortalInv'
  BY <1>1, PortalRests DEF SessionInv
<1>3. WifiInv'
  BY <1>1, PollWifiInv DEF SessionInv
<1>4. ServerHasLink'
  BY <1>1, PollWifiInv DEF SessionInv, ServerHasLink, portalVars
<1> QED
  BY <1>1, <1>2, <1>3, <1>4 DEF SessionInv, SessionOK, PasswordIsForANetwork, ChangesAreKnown, Lost,
     RenamingIsServed, portalVars

(* The HTTP server runs, or its callback ends. *)
LEMMA ServeInv ==
  ASSUME SessionInv, ServeClient \/ FinishCallback
  PROVE  SessionInv'
<1>1. /\ HandleClient /\ phase = "server" /\ stale' = stale \cup CardChanges
      /\ UNCHANGED <<wifiVars, app, radio, starting, failure, selected, phase, quiet>>
  BY DEF ServeClient, FinishCallback, HandleClient
<1>2. PortalInv'
  BY <1>1, HandleClientInv DEF SessionInv
<1>3. WifiInv'
  BY <1>1, WifiRests DEF SessionInv
<1>4. /\ portal'.running = portal.running
      /\ changed => changed'
      /\ \A path \in Paths : files'[path] # files[path] => changed' \/ Lost(path)'
      /\ \A path \in Paths : Lost(path) => changed' \/ Lost(path)'
      /\ changed' => changed \/ portal.running
  BY <1>1, ClientIsReported DEF SessionInv
<1>5. ServerHasLink'
  BY <1>1, <1>4 DEF SessionInv, ServerHasLink, wifiVars
<1>6. ChangesAreKnown'
  <2>1. portal.running => radio
    BY DEF SessionInv, ServerHasLink
  <2>2. ASSUME NEW path \in stale' PROVE changed' \/ Lost(path)'
    <3>1. path \in Paths
      BY <1>1 DEF CardChanges, SessionInv, SessionOK
    <3>2. CASE path \in stale
      BY <1>4, <3>1, <3>2 DEF SessionInv, ChangesAreKnown, Lost
    <3>3. CASE path \in CardChanges
      BY <1>4, <3>1, <3>3 DEF CardChanges
    <3> QED
      BY <1>1, <3>2, <3>3
  <2> QED
    BY <1>1, <1>4, <2>1, <2>2 DEF SessionInv, ChangesAreKnown, Lost
<1>7. SessionOK'
  BY <1>1 DEF SessionInv, SessionOK, CardChanges
<1> QED
  BY <1>1, <1>2, <1>3, <1>5, <1>6, <1>7 DEF SessionInv, PasswordIsForANetwork, RenamingIsServed

(* The idle timeout, between two callbacks *)
LEMMA LeaveServerInv ==
  ASSUME SessionInv, LeaveServer
  PROVE  SessionInv'
<1>1. CASE StopUploadServer /\ UNCHANGED failure /\ phase' = "touch"
  BY <1>1, StopInv, ResetInv DEF SessionInv, SessionOK
<1>2. CASE /\ phase' = "radio"
           /\ UNCHANGED <<wifiVars, portalVars, app, radio, starting, failure, selected,
                          stale, quiet>>
  <2>1. PortalInv' /\ WifiInv' /\ request # "renaming"
    BY <1>2, PortalRests, WifiRests DEF SessionInv, LeaveServer
  <2> QED
    BY <1>2, <2>1 DEF SessionInv, SessionOK, ServerHasLink, PasswordIsForANetwork,
       ChangesAreKnown, Lost, RenamingIsServed, wifiVars, portalVars
<1> QED
  BY <1>1, <1>2 DEF LeaveServer

(* startHttpPortal() on the link that has come up *)
LEMMA StartServerInv ==
  ASSUME SessionInv, wifi.state = "Connected", StartHttpPortal,
         phase = "radio", phase' = "failure"
  PROVE  SessionInv'
<1>1. /\ portal' = [portal EXCEPT !.running = TRUE, !.idle = 0] /\ 0 \in Nat
      /\ UNCHANGED <<wifiVars, request, files, parts, bus, changed, owned, orphans,
                     radio, failure, selected, stale, quiet>>
      /\ starting' = FALSE /\ app' = "LibraryMenu"
  BY DEF StartHttpPortal, Started
<1>2. PortalInv'
  <2>1. changed' \in BOOLEAN
    BY <1>1 DEF SessionInv, PortalInv, PortalTypeOK
  <2> QED
    BY <1>1, <2>1, StartInv DEF SessionInv
<1>3. WifiInv'
  BY <1>1, WifiRests DEF SessionInv
<1> QED
  BY <1>1, <1>2, <1>3 DEF SessionInv, SessionOK, ServerHasLink, PasswordIsForANetwork,
     ChangesAreKnown, Lost, RenamingIsServed, wifiVars, Screens, NetworkScreens

(* What a finished scan leads to; no server runs then. *)
LEMMA UseScanInv ==
  ASSUME SessionInv, UseScan, phase = "radio", phase' = "failure"
  PROVE  SessionInv'
<1>1. /\ wifi.state = "ScanDone"
      /\ UNCHANGED <<portalVars, radio, failure, selected, stale, quiet>>
  BY DEF UseScan
<1>2. PortalInv' /\ portal' = portal /\ ~portal.running /\ radio = TRUE
  BY <1>1, PortalRests DEF SessionInv, ServerHasLink, portalVars, SessionOK
<1>3. /\ starting' \in BOOLEAN /\ app' \in {app, "Networks"}
      /\ \/ UNCHANGED wifiVars
         \/ \E network \in wifi.known : JoinSaved(network)
  BY DEF UseScan, SessionInv, SessionOK
<1>4. WifiInv' /\ wifi'.state \in {"ScanDone", "Connecting"}
  <2>1. CASE UNCHANGED wifiVars
    BY <1>1, <2>1, WifiRests DEF SessionInv, wifiVars
  <2>2. CASE \E network \in wifi.known : JoinSaved(network)
    BY <2>2, JoinSavedInv DEF SessionInv
  <2> QED
    BY <1>3, <2>1, <2>2
<1>5. SessionOK' /\ PasswordIsForANetwork'
  BY <1>1, <1>3 DEF SessionInv, SessionOK, PasswordIsForANetwork, Screens, NetworkScreens
<1> QED
  BY <1>1, <1>2, <1>4, <1>5 DEF SessionInv, ServerHasLink, ChangesAreKnown, Lost, RenamingIsServed,
     portalVars

LEMMA FollowRadioInv ==
  ASSUME SessionInv, FollowRadio
  PROVE  SessionInv'
<1>1. phase = "radio" /\ phase' = "failure"
  BY DEF FollowRadio
<1>2. CASE UseScan
  BY <1>1, <1>2, UseScanInv
<1>3. CASE wifi.state = "Connected" /\ StartHttpPortal
  BY <1>1, <1>3, StartServerInv
<1>4. CASE /\ starting' \in BOOLEAN /\ failure' \in {failure, 0}
           /\ UNCHANGED <<wifiVars, portalVars, app, radio, selected, stale, quiet>>
  <2>1. PortalInv' /\ WifiInv' /\ 0 \in 0 .. Horizon
    BY <1>4, PortalRests, WifiRests, WifiAssumption DEF SessionInv
  <2> QED
    BY <1>1, <1>4, <2>1 DEF SessionInv, SessionOK, ServerHasLink, PasswordIsForANetwork,
       ChangesAreKnown, Lost, RenamingIsServed, wifiVars, portalVars
<1> QED
  BY <1>2, <1>3, <1>4 DEF FollowRadio, NoteFailure, SessionInv, SessionOK

LEMMA GiveUpInv ==
  ASSUME SessionInv, GiveUp
  PROVE  SessionInv'
<1>1. phase = "failure" /\ phase' = "touch"
  BY DEF GiveUp
<1>2. CASE StopUploadServer /\ failure' = Never
  BY <1>1, <1>2, StopInv, ResetInv
<1>3. CASE UNCHANGED <<wifiVars, portalVars, app, radio, starting, failure, selected,
                       stale, quiet>>
  <2>1. PortalInv' /\ WifiInv'
    BY <1>3, PortalRests, WifiRests DEF SessionInv
  <2> QED
    BY <1>1, <1>3, <2>1 DEF SessionInv, SessionOK, ServerHasLink, PasswordIsForANetwork,
       ChangesAreKnown, Lost, RenamingIsServed, wifiVars, portalVars
<1> QED
  BY <1>2, <1>3 DEF GiveUp
-----------------------------------------------------------------------------
(* What the user does touches no file, and ends no rename. *)
LEMMA UserInv ==
  ASSUME SessionInv, User, phase = "touch", phase' = "wifi", quiet' = quiet
  PROVE  SessionInv'
<1> USE DEF SessionInv
<1>1. CASE Reset /\ failure' \in {failure, Never}
  BY <1>1, ResetInv DEF Reset, SessionOK
<1>2. CASE ToggleServer
  <2>1. \/ StopUploadServer /\ failure' = failure
        \/ RequestPortalStart(FALSE)
    BY <1>2 DEF ToggleServer
  <2>2. RequestPortalStart(FALSE) => failure' = Never
    BY DEF RequestPortalStart
  <2> QED
    BY <1>1, <2>1, <2>2, StopInv, StartsInv
<1>3. CASE ChooseNetwork
  <2>1. RequestPortalStart(TRUE)
    BY <1>3 DEF ChooseNetwork
  <2>2. failure' = Never
    BY <2>1 DEF RequestPortalStart
  <2> QED
    BY <1>1, <2>1, <2>2, StartsInv
<1>4. CASE CancelNetworks
  BY <1>1, <1>4, StopInv DEF CancelNetworks
<1>5. CASE /\ UNCHANGED <<portalVars, radio, starting>> /\ WifiInv'
           /\ failure' \in {failure, Never}
           /\ stale' \in {stale, {}} /\ selected' \in Networks \cup {NoNetwork}
           /\ app' \in Screens /\ (app' = "Password" => selected' \in Networks)
           /\ app' \in NetworkScreens => radio /\ ~portal.running
           /\ wifi' = wifi \/ (radio /\ ~portal.running)
  <2>1. PortalInv' /\ UNCHANGED request
    BY <1>5, PortalRests DEF portalVars
  <2>2. ServerHasLink'
    BY <1>5 DEF ServerHasLink, portalVars
  <2>3. ChangesAreKnown'
    <3>1. stale' \subseteq stale /\ UNCHANGED <<changed, radio, files, owned>>
      BY <1>5 DEF portalVars
    <3> QED
      BY <3>1 DEF ChangesAreKnown, Lost
  <2>4. SessionOK'
    BY <1>5 DEF SessionOK
  <2> QED
    BY <1>5, <2>1, <2>2, <2>3, <2>4 DEF PasswordIsForANetwork, RenamingIsServed
<1>6. CASE \/ GoTo("FileBrowser", "LibraryMenu") \/ GoTo("LibraryMenu", "FileBrowser")
           \/ GoTo("FileBrowser", "Book") \/ GoTo("Book", "FileBrowser")
           \/ GoTo("Password", "Networks")
  <2>1. PICK here \in Screens, there \in Screens :
          GoTo(here, there) /\ there # "Password" /\ (there = "Networks" => here = "Password")
    BY <1>6 DEF Screens, NetworkScreens
  <2> QED
    BY <1>5, <2>1, WifiRests DEF GoTo, ServerHasLink, NetworkScreens, wifiVars, SessionOK
<1>7. CASE OpenDirectory
  BY <1>5, <1>7, WifiRests DEF OpenDirectory, Screens, NetworkScreens, SessionOK, wifiVars
<1>8. CASE \E forget \in BOOLEAN : Rescan(forget)
  <2>1. PICK forget \in BOOLEAN : Rescan(forget)
    BY <1>8
  <2>2. WifiInv'
    BY <2>1, ForgetSound, BeginScanSound DEF Rescan, WifiInv
  <2> QED
    BY <1>5, <2>1, <2>2 DEF Rescan, ServerHasLink, Screens, NetworkScreens, SessionOK
<1>9. CASE \E network \in Networks : TapNetwork(network)
  <2>1. PICK network \in Networks : TapNetwork(network)
    BY <1>9
  <2>2. WifiInv'
    <3>1. NoPassword \in Passwords
      BY WifiAssumption
    <3> QED
      BY <2>1, <3>1, JoinNetworkInv, JoinSavedInv, WifiRests DEF TapNetwork
  <2> QED
    BY <1>5, <2>1, <2>2 DEF TapNetwork, ServerHasLink, Screens, NetworkScreens, SessionOK
<1>10. CASE \E password \in Passwords, remember \in BOOLEAN : EnterPassword(password, remember)
  <2>1. PICK password \in Passwords, remember \in BOOLEAN : EnterPassword(password, remember)
    BY <1>10
  <2>2. WifiInv'
    BY <2>1, JoinNetworkInv DEF EnterPassword, PasswordIsForANetwork
  <2> QED
    BY <1>5, <2>1, <2>2 DEF EnterPassword, ServerHasLink, Screens, NetworkScreens, SessionOK
<1> QED
  BY <1>2, <1>3, <1>4, <1>6, <1>7, <1>8, <1>9, <1>10 DEF User

(* The last part of a tick, with a touch or without *)
LEMMA TouchInv ==
  ASSUME SessionInv, Touch
  PROVE  SessionInv'
<1>1. phase = "touch" /\ phase' = "wifi" /\ quiet' = quiet
  BY DEF Touch
<1>2. CASE User
  BY <1>1, <1>2, UserInv
<1>3. CASE UNCHANGED <<wifiVars, portalVars, app, radio, starting, failure, selected, stale>>
  <2>1. PortalInv' /\ WifiInv'
    BY <1>3, PortalRests, WifiRests DEF SessionInv
  <2> QED
    BY <1>1, <1>3, <2>1 DEF SessionInv, SessionOK, ServerHasLink, PasswordIsForANetwork,
       ChangesAreKnown, Lost, RenamingIsServed, wifiVars, portalVars
<1> QED
  BY <1>2, <1>3 DEF Touch

(* The clock *)
LEMMA ElapseSessionInv ==
  ASSUME SessionInv, Elapse
  PROVE  SessionInv'
<1>1. /\ wifi' = WifiAged(wifi) /\ failure' = Older(failure)
      /\ UNCHANGED <<tried, request, files, parts, bus, changed, owned, orphans,
                     app, radio, starting, selected, phase, stale, quiet>>
  BY DEF Elapse
<1>2. portal \in PortalStates /\ changed' \in BOOLEAN
  BY <1>1 DEF SessionInv, PortalInv, PortalTypeOK, PortalStates
<1>3. PICK idle \in Nat : portal' = [portal EXCEPT !.idle = idle]
  <2>1. CASE portal.running
    <3>1. Older(portal.idle) \in Nat
      BY <1>2, WifiAssumption DEF Older, PortalStates
    <3> QED
      BY <2>1, <3>1 DEF Elapse
  <2>2. CASE ~portal.running
    <3>1. portal.idle \in Nat /\ [portal EXCEPT !.idle = portal.idle] = portal
      BY <1>2 DEF PortalStates
    <3> QED
      BY <2>2, <3>1 DEF Elapse
  <2> QED
    BY <2>1, <2>2
<1>4. PortalInv' /\ portal'.running = portal.running
  BY <1>1, <1>2, <1>3, StartInv DEF SessionInv, PortalStates
<1>5. WifiInv' /\ wifi'.state = wifi.state
  BY <1>1, AgedSound DEF SessionInv, WifiInv
<1>6. SessionOK'
  BY <1>1, OlderAge DEF SessionInv, SessionOK
<1> QED
  BY <1>1, <1>4, <1>5, <1>6 DEF SessionInv, ServerHasLink, PasswordIsForANetwork,
     ChangesAreKnown, Lost, RenamingIsServed

(* Nobody does anything any more. *)
LEMMA GoQuietInv ==
  ASSUME SessionInv, GoQuiet \/ UNCHANGED vars
  PROVE  SessionInv'
<1>1. /\ UNCHANGED <<wifiVars, portalVars, app, radio, starting, failure, selected, phase,
                     stale>>
      /\ quiet' \in BOOLEAN
  BY DEF GoQuiet, vars, sessionVars, SessionInv, SessionOK
<1>2. PortalInv' /\ WifiInv'
  BY <1>1, PortalRests, WifiRests DEF SessionInv
<1> QED
  BY <1>1, <1>2 DEF SessionInv, SessionOK, ServerHasLink, PasswordIsForANetwork,
     ChangesAreKnown, Lost, RenamingIsServed, wifiVars, portalVars
-----------------------------------------------------------------------------
(* Before the first tick everything is off. *)
LEMMA InitSessionInv == Init => SessionInv
<1> SUFFICES ASSUME Init PROVE SessionInv
  OBVIOUS
<1>1. PortalInv /\ request = "none" /\ changed = FALSE /\ portal.running = FALSE
  BY InitPortalInv DEF Init, PortalInit, NewPortal
<1>2. PICK saved \in SavedAtStart : wifi = NewWifi(saved)
  BY DEF Init
<1>3. /\ saved \in Seq(Credentials) /\ Len(saved) <= 1
      /\ Members(saved) \subseteq Credentials
  <2>1. CASE saved = <<>>
    BY <2>1 DEF Members
  <2>2. CASE \E credentials \in Credentials : saved = <<credentials>>
    <3>1. PICK credentials \in Credentials : saved = <<credentials>>
      BY <2>2
    <3>2. saved \in Seq(Credentials) /\ Len(saved) = 1 /\ saved[1] = credentials
      BY <3>1
    <3> QED
      BY <3>2 DEF Members
  <2> QED
    BY <1>2, <2>1, <2>2 DEF SavedAtStart
<1>4. WifiInv /\ wifi.state = "Off"
  <2>1. 0 \in 0 .. 2 /\ 0 \in 0 .. Horizon /\ Len(saved) <= MaxSaved
        /\ NoPassword \in Passwords /\ tried = NotTrying
    BY <1>3, WifiAssumption DEF Init
  <2>2. wifi = [state |-> "Off", launched |-> FALSE, retries |-> 0, age |-> 0, lost |-> Never,
                found |-> {}, known |-> {}, saved |-> saved, active |-> NoNetwork,
                pending |-> NoPassword, remember |-> FALSE]
    BY <1>2 DEF NewWifi
  <2>3. /\ wifi \in WifiRecords /\ wifi.state = "Off" /\ wifi.saved = saved
        /\ wifi.known = {} /\ wifi.found = {}
    BY <1>3, <2>1, <2>2 DEF WifiRecords, WifiStates
  <2> QED
    BY <1>2, <1>3, <2>1, <2>3 DEF WifiInv, Sound
<1>5. SessionOK /\ PasswordIsForANetwork /\ ChangesAreKnown /\ RenamingIsServed
  BY <1>1 DEF Init, SessionOK, Screens, NetworkScreens, PasswordIsForANetwork, ChangesAreKnown,
     Lost, RenamingIsServed
<1>6. ServerHasLink
  BY <1>1, <1>4 DEF Init, ServerHasLink, NetworkScreens
<1> QED
  BY <1>1, <1>4, <1>5, <1>6 DEF SessionInv

LEMMA NextSessionInv == SessionInv /\ [Next]_vars => SessionInv'
<1> SUFFICES ASSUME SessionInv, [Next]_vars PROVE SessionInv'
  OBVIOUS
<1>1. CASE ServiceWifi
  BY <1>1, ServiceWifiInv
<1>2. CASE ServeClient \/ FinishCallback
  BY <1>2, ServeInv
<1>3. CASE LeaveServer
  BY <1>3, LeaveServerInv
<1>4. CASE FollowRadio
  BY <1>4, FollowRadioInv
<1>5. CASE GiveUp
  BY <1>5, GiveUpInv
<1>6. CASE Touch
  BY <1>6, TouchInv
<1>7. CASE Elapse
  BY <1>7, ElapseSessionInv
<1>8. CASE GoQuiet \/ UNCHANGED vars
  BY <1>8, GoQuietInv
<1> QED
  BY <1>1, <1>2, <1>3, <1>4, <1>5, <1>6, <1>7, <1>8 DEF Next, Tick

-----------------------------------------------------------------------------
(***************************************************************************)
(* The radio's record, the application's flags and the portal keep to      *)
(* their values and to each other.                                         *)
(***************************************************************************)
THEOREM SessionInvariant == Spec => []SessionInv
BY InitSessionInv, NextSessionInv, PTL DEF Spec

(* The server's and the radio's variables have their types. *)
THEOREM SessionIsTyped == Spec => []SessionTypeOK
<1>1. SessionInv => SessionTypeOK
  BY DEF SessionInv, SessionOK, WifiInv, Sound, WifiRecords, PortalInv, SessionTypeOK, WifiTypeOK
<1> QED
  BY <1>1, SessionInvariant, PTL

(***************************************************************************)
(* However starts, stops, scans and failures follow each other, the HTTP   *)
(* server runs on a link only, Wi-Fi on a powered radio only, and the two  *)
(* screens that ask for a network never over a running server.             *)
(***************************************************************************)
THEOREM SessionServerHasLink == Spec => []ServerHasLink
<1>1. SessionInv => ServerHasLink
  BY DEF SessionInv
<1> QED
  BY <1>1, SessionInvariant, PTL

(***************************************************************************)
(* stopUploadServer() makes the library's list anew if a callback reported *)
(* a change since it was made.  Once the radio is off, then, the list has  *)
(* every book that came and none that a client deleted; at most it still   *)
(* has one that was removed for a replacement whose rename failed, which   *)
(* no callback reports.                                                    *)
(***************************************************************************)
THEOREM SessionLibraryIsFresh == Spec => []LibraryIsFresh
<1>1. SessionInv => LibraryIsFresh
  BY DEF SessionInv, ChangesAreKnown, Lost, LibraryIsFresh
<1> QED
  BY <1>1, SessionInvariant, PTL

(***************************************************************************)
(* Of all that happens to the list of networks - a stop, a scan, another   *)
(* attempt, the user's wish to forget - only poll() adds to it, when the   *)
(* radio has joined, and then what is pending is what it was asked for.    *)
(***************************************************************************)
LEMMA OnlyPollSaves ==
  ASSUME SessionInv, [Next]_vars, NEW c \in Members(wifi.saved') \ Members(wifi.saved)
  PROVE  tried = c /\ wifi'.state = "Connected"
<1>1. wifi \in WifiRecords /\ Sound(wifi, tried)
  BY DEF SessionInv, WifiInv, Sound
<1>2. wifi'.saved \notin {wifi.saved, <<>>}
  <2>1. Members(<<>>) = {}
    BY DEF Members
  <2> QED
    BY <2>1 DEF Members
<1>3. ASSUME NEW w \in WifiRecords
      PROVE  /\ Stop(w).saved = w.saved /\ BeginScan(w).saved = w.saved
             /\ Retry(w).saved = w.saved /\ Failed(w).saved = w.saved
             /\ WifiAged(w).saved = w.saved
             /\ \A visible : FinishScan(w, visible).saved = w.saved
             /\ \A network, password, remember :
                  Connect(w, network, password, remember).saved = w.saved
  BY DEF Stop, BeginScan, Retry, Failed, WifiAged, FinishScan, Connect, AtRest, WifiRecords
<1>4. ForgetAll(wifi) \in WifiRecords /\ ForgetAll(wifi).saved = <<>>
  BY <1>1, ForgetSound DEF Sound, ForgetAll, WifiRecords
<1>5. PollWifi
  <2>1. ~StopUploadServer
    BY <1>1, <1>2, <1>3 DEF StopUploadServer
  <2>2. \A choose : ~RequestPortalStart(choose)
    BY <1>1, <1>2, <1>3, <2>1 DEF RequestPortalStart
  <2>3. \A network, password, remember : ~JoinNetwork(network, password, remember)
    BY <1>1, <1>2, <1>3 DEF JoinNetwork
  <2>4. \A network : ~JoinSaved(network)
    BY <2>3 DEF JoinSaved
  <2>5. \A forget : ~Rescan(forget)
    BY <1>1, <1>2, <1>3, <1>4 DEF Rescan
  <2>6. ~UNCHANGED wifi
    BY <1>2
  <2>7. ~Touch
    BY <2>1, <2>2, <2>3, <2>4, <2>5, <2>6 DEF Touch, User, GoTo, OpenDirectory, ToggleServer,
       ChooseNetwork, CancelNetworks, TapNetwork, EnterPassword, wifiVars
  <2>8. ~FollowRadio
    BY <2>4, <2>6 DEF FollowRadio, UseScan, StartHttpPortal, NoteFailure, wifiVars
  <2>9. ~(LeaveServer \/ GiveUp \/ FinishCallback \/ ServeClient \/ GoQuiet)
    BY <2>1, <2>6 DEF LeaveServer, GiveUp, FinishCallback, ServeClient, GoQuiet, wifiVars
  <2>10. ~Elapse
    BY <1>1, <1>2, <1>3 DEF Elapse
  <2> QED
    BY <2>6, <2>7, <2>8, <2>9, <2>10 DEF Next, Tick, ServiceWifi, vars, wifiVars
<1>6. ~(Launch \/ AwaitScan \/ WatchLink \/ UNCHANGED wifiVars)
  <2>1. ~Launch
    BY <1>1, <1>2, <1>3 DEF Launch, WifiRecords
  <2>2. ~AwaitScan
    BY <1>1, <1>2, <1>3 DEF AwaitScan
  <2>3. ~WatchLink
    BY <1>1, <1>2, <1>3 DEF WatchLink, WifiRecords
  <2> QED
    BY <1>2, <2>1, <2>2, <2>3 DEF wifiVars
<1>7. AwaitConnection /\ wifi' # Failed(wifi) /\ wifi.state = "Connecting"
  BY <1>1, <1>2, <1>3, <1>5, <1>6 DEF PollWifi, AwaitConnection
<1>8. /\ wifi'.state = "Connected"
      /\ wifi'.saved = IF wifi.remember THEN Remember(wifi.saved, wifi.active, wifi.pending)
                       ELSE wifi.saved
  BY <1>1, <1>6, <1>7 DEF AwaitConnection, WifiRecords
<1>9. /\ tried = <<wifi.active, wifi.pending>> /\ wifi.active \in Networks
      /\ wifi.pending \in Passwords
  BY <1>1, <1>7 DEF Sound, Credentials
<1>10. c \in Members(wifi.saved) \cup {<<wifi.active, wifi.pending>>}
  BY <1>1, <1>2, <1>8, <1>9, RememberBounds DEF Sound, WifiRecords
<1> QED
  BY <1>8, <1>9, <1>10

(***************************************************************************)
(* Whatever attempts replace each other, poll() remembers a network with   *)
(* the password that the radio was asked to join it with, and only when it *)
(* has joined.                                                             *)
(***************************************************************************)
THEOREM SessionSavesJoined == Spec => OnlyJoinedIsSaved
<1>1. SessionInv /\ [Next]_vars =>
        \A credentials \in Members(wifi.saved') \ Members(wifi.saved) :
          tried = credentials /\ wifi'.state = "Connected"
  BY OnlyPollSaves
<1> QED
  BY <1>1, SessionInvariant, PTL DEF Spec, OnlyJoinedIsSaved
=============================================================================
