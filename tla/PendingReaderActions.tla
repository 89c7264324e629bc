------------------------ MODULE PendingReaderActions ------------------------
(***************************************************************************)
(* The reader's input queue while the panel is busy or a prefetch runs     *)
(* (input/PendingReaderActions): one slot per kind of action and a counter *)
(* for page advances.  BackToLibrary has a slot in the code, but nothing   *)
(* in the firmware enqueues it, so it has none here.  queuedAtUs only      *)
(* feeds a log line and is left out.                                       *)
(***************************************************************************)
EXTENDS Naturals

MaxNextActions == 3

FontActions == {"IncreaseFont", "DecreaseFont"}
ReaderActions == {"OpenMenu", "PreviousPage", "NextPage"} \cup FontActions

Queue == [menu : BOOLEAN, previous : BOOLEAN, font : FontActions \cup {"None"},
          next : BOOLEAN, nextCount : Nat]

EmptyQueue == [menu |-> FALSE, previous |-> FALSE, font |-> "None",
               next |-> FALSE, nextCount |-> 0]

(* Menu, previous page and font requests outrank page advances: while one  *)
(* is queued no advance is accepted.                                       *)
Outranked(q) == q.menu \/ q.previous \/ q.font # "None"

IsEmpty(q) == ~Outranked(q) /\ q.nextCount = 0

Accepts(q, a) == a = "NextPage" => ~Outranked(q) /\ q.nextCount < MaxNextActions

WithoutNext(q) == [q EXCEPT !.next = FALSE, !.nextCount = 0]

(* Mutated: a font change does not drop the advances queued before it. *)
EnqueueKeepingNext(q, a) ==
  CASE ~Accepts(q, a)    -> q
    [] a = "OpenMenu"     -> [WithoutNext(q) EXCEPT !.menu = TRUE]
    [] a = "PreviousPage" -> [WithoutNext(q) EXCEPT !.previous = TRUE]
    [] a \in FontActions  -> [q EXCEPT !.font = a]
    [] OTHER              -> [q EXCEPT !.next = TRUE, !.nextCount = @ + 1]

Enqueue(q, a) ==
  CASE ~Accepts(q, a)    -> q
    [] a = "OpenMenu"     -> [WithoutNext(q) EXCEPT !.menu = TRUE]
    [] a = "PreviousPage" -> [WithoutNext(q) EXCEPT !.previous = TRUE]
    [] a \in FontActions  -> [WithoutNext(q) EXCEPT !.font = a]
    [] OTHER              -> [q EXCEPT !.next = TRUE, !.nextCount = @ + 1]

(* pop() serves menu, previous, font and then the advances. *)
PopResult(q) ==
  IF q.menu THEN "OpenMenu"
  ELSE IF q.previous THEN "PreviousPage"
  ELSE IF q.font # "None" THEN q.font
  ELSE IF q.next THEN "NextPage" ELSE "None"

Popped(q) ==
  IF q.menu THEN [q EXCEPT !.menu = FALSE]
  ELSE IF q.previous THEN [q EXCEPT !.previous = FALSE]
  ELSE IF q.font # "None" THEN [q EXCEPT !.font = "None"]
  ELSE IF q.nextCount = 0 THEN q
  ELSE [q EXCEPT !.nextCount = @ - 1, !.next = q.nextCount > 1]

(* The next_ slot holds an action exactly when nextCount_ counts one, at   *)
(* most three advances wait, and none waits behind an action that cleared  *)
(* them: what pop() relies on to return a real action.                     *)
QueueConsistent(q) ==
  /\ q.next <=> q.nextCount > 0
  /\ q.nextCount <= MaxNextActions
  /\ Outranked(q) => q.nextCount = 0
=============================================================================
