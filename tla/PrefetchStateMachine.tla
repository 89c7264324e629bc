------------------------ MODULE PrefetchStateMachine ------------------------
(***************************************************************************)
(* The life cycle of the page that the reader lays out ahead of the user   *)
(* (reader/PrefetchStateMachine).  Every operator maps a state to a state; *)
(* an illegal transition leaves the state alone, as transition() does when *)
(* it returns false.                                                       *)
(***************************************************************************)

PrefetchStates ==
  {"Idle", "ReadingInput", "Parsing", "LayingOut", "Ready",
   "CancelRequested", "Restoring", "Failed"}

Successors ==
  [ReadingInput    |-> {"Parsing", "Ready", "CancelRequested", "Failed"},
   Parsing         |-> {"LayingOut", "CancelRequested", "Failed"},
   LayingOut       |-> {"ReadingInput", "Ready", "CancelRequested", "Failed"},
   CancelRequested |-> {"Restoring", "Failed"},
   Restoring       |-> {"Idle", "Failed"},
   Idle            |-> {},
   Ready           |-> {},
   Failed          |-> {}]

Transition(state, next) == IF next \in Successors[state] THEN next ELSE state

CanStart(state) == state \in {"Idle", "Ready"}

(* A page already Ready is kept as cache; a cancel already under way or a  *)
(* failed machine does not move.                                           *)
RequestCancel(state) ==
  IF state \in {"ReadingInput", "Parsing", "LayingOut"} THEN "CancelRequested" ELSE state

HasWork(state) == state \notin {"Idle", "Ready", "Failed"}
=============================================================================
